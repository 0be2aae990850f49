SPECIFICATION PollerSpec
CONSTANTS
  Requests = {"r1", "r2"}
  Contents = {"plain", "event", "risky"}
  Mailboxes = {"m"}
  Companies = {"a", "b", "c"}
  Owner = "a"
  None = "none"
  Earlier = {"v0", "v1"}
  EventOf <- MCEventOf
  ConditionsOf <- MCConditionsOf
  Privileged <- MCPrivileged
  Books <- MCBooks
  Plans <- MCPlans
  MaxEmails = 2
  MaxAttempts = 2
INVARIANTS BookInvariant MailInvariant
PROPERTIES OthersAreLeftAlone MailIsNoticed RequestsEnd
CHECK_DEADLOCK FALSE

SPECIFICATION VaultSpec
CONSTANTS
  Requests = {"r1", "r2"}
  Tokens <- MCTokens
  Slugs = {"a", "b", "platform"}
  Ids = {"u1", "u2"}
  Emails = {"m1", "m2"}
  Populations <- MCPopulations
  Nobody = "nobody"
  Platform = "platform"
  Seeds = {"s1"}
  Consents = {"state"}
  Callbacks = {"c1", "c2"}
  StateOf <- MCStateOf
  CodeOf <- MCCodeOf
  Plans <- MCPlans
INVARIANTS IdentityInvariant VaultInvariant
PROPERTIES DeletedStaysDeleted RequestsEnd
CHECK_DEADLOCK FALSE

SPECIFICATION NodeSpec
CONSTANTS
  Scrapes = {"s1", "s2"}
  Acting = {"s2"}
  Logins = {"l1", "l2"}
  Templates <- MCTemplates
  Workflows = {}
  Labels = {"error"}
  Plans <- MCPlans
  AtOnce = 2
  None = None
  Deleted = Deleted
INVARIANTS CallInvariant SessionInvariant LoginsAreKept
PROPERTIES NodeEnds
CHECK_DEADLOCK FALSE

SPECIFICATION Spec
CONSTANTS
  Requests = {r1, r2}
  Evaluators = {e1, e2}
  Users = {u1, u2}
  Required = {u1, u2}
  Contents = {c1, c2}
  Approvals = {p1, p2}
INVARIANTS BookkeepingInvariant CacheIsFresh ApprovedByEveryone
PROPERTIES DecisionsStand
CHECK_DEADLOCK FALSE

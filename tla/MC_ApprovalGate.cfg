SPECIFICATION Spec
CONSTANTS
  Gates = 3
  Requests = {r1, r2}
  ZeroHours = {2}
INVARIANTS GateInvariant DecidedByAnAnswer RowExplained
PROPERTIES RunGoesOn
CHECK_DEADLOCK FALSE

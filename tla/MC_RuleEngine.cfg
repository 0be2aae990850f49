SPECIFICATION Spec
CONSTANTS
  Holds <- EvalGroup
  Requests <- MCRequests
  Books <- MCBooks
  Workflows = {"w"}
  Number <- MCNumber
  NotANumber = NotANumber
  Text <- MCText
  Compare <- MCCompare
  Today = 3
INVARIANTS EngineInvariant AuditInvariant TestPredicts
PROPERTIES RequestEnds
CHECK_DEADLOCK FALSE

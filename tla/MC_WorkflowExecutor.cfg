SPECIFICATION Spec
CONSTANTS
  Labels = {"true", "false", "success", "error", "a", "b"}
  Workflows <- MCWorkflows
INVARIANTS RunInvariant OrdersTheAcyclicPart RoutingRespected CompletedIsComplete
PROPERTIES StatusesAreFinal ImplementsContract RunEnds
CHECK_DEADLOCK FALSE

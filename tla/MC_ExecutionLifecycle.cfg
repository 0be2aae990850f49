SPECIFICATION Spec
CONSTANTS
  e1 = e1
  e2 = e2
  Executions <- MCExecutions
  TriggerOnly <- MCTriggerOnly
INVARIANTS LifecycleInvariant FinishedRowsShowOutcome BatchIsAccounted
PROPERTIES CommittedRunsEnd
CHECK_DEADLOCK FALSE

SPECIFICATION AgentSpec
CONSTANTS
  MaxSteps = 2
  MaxCalls = 2
  Answers = {a1, a2}
INVARIANTS AgentInvariant ConsentIsForTheCall LedgerShowsTheEnd
PROPERTIES RunEnds
CHECK_DEADLOCK FALSE

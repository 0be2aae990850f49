SPECIFICATION AgentSpec
CONSTANTS
  MaxSteps = 1
  MaxCalls = 2
  Answers = {a1, a2}
INVARIANT OneSlotSuffices
CHECK_DEADLOCK FALSE

\* A step that outlives the claim while an operator skips it; nothing fails.
CONSTANTS
  Agent = {a1, a2}
  Operator = {o1}
  NoAgent = NoAgent
  Last = 2
  Automated = {1, 2}
  Faults = FALSE
  SlowSteps = TRUE
  NoRedis = {}
  MaxRuns = 2
SPECIFICATION Spec
INVARIANT OneStepAtATime
CHECK_DEADLOCK FALSE

\* Two agents poll a run with one automated step; nothing fails.
CONSTANTS
  Agent = {a1, a2}
  Operator = {}
  NoAgent = NoAgent
  Last = 1
  Automated = {1}
  Faults = FALSE
  SlowSteps = FALSE
  NoRedis = {}
  MaxRuns = 2
SPECIFICATION Spec
INVARIANT NoDoubleRun
CHECK_DEADLOCK FALSE

\* One agent, one operator request; nothing fails.
CONSTANTS
  Agent = {a1}
  Operator = {o1}
  NoAgent = NoAgent
  Last = 1
  Automated = {1}
  Faults = FALSE
  SlowSteps = FALSE
  NoRedis = {}
  MaxRuns = 2
SPECIFICATION Spec
PROPERTY NoResurrection
CHECK_DEADLOCK FALSE

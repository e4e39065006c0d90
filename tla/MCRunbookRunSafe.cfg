\* Three agents, an operator request, a manual step between automated ones;
\* crashes, failing store and lock calls, steps slower than the claim, and
\* agents that booted without Redis.
CONSTANTS
  Agent = {a1, a2, a3}
  Operator = {o1}
  NoAgent = NoAgent
  Last = 3
  Automated = {1, 3}
  Faults = TRUE
  SlowSteps = TRUE
  NoRedis = {a1, a2, a3}
  MaxRuns = 2
SPECIFICATION Spec
SYMMETRY MCSymmetry
INVARIANTS TypeOK OrderRespected NoConcurrentRun
CHECK_DEADLOCK FALSE

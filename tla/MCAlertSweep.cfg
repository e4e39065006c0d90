\* The sustain window is two intervals, as that of the built-in critical
\* rules; a breach outlives its mirrored stamp.
CONSTANTS
  Pod = {a, b}
  NoPod = NoPod
  Interval = 2
  ForSec = 4
  CooldownSec = 10
  stampMinTTL = 8
  MaxTick = 0
  Bounce = FALSE
  MaxProblem = 1
  MaxTime = 20
SPECIFICATION Spec
PROPERTY SweepOnlySilent
CHECK_DEADLOCK FALSE

\* Two pods, prompt ticks, a sustain window of one interval; a demoted pod
\* restarts before it leads again.
CONSTANTS
  Pod = {a, b}
  NoPod = NoPod
  Interval = 1
  ForSec = 1
  CooldownSec = 2
  stampMinTTL = 3
  MaxTick = 0
  Bounce = FALSE
  MaxProblem = 2
  MaxTime = 7
SPECIFICATION Spec
SYMMETRY MCSymmetry
INVARIANTS TypeOK OneOpen
PROPERTIES CooldownKept SweepOnlySilent
CHECK_DEADLOCK FALSE

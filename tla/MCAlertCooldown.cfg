\* Two pods hand leadership back and forth without restarting.
CONSTANTS
  Pod = {a, b}
  NoPod = NoPod
  Interval = 1
  ForSec = 0
  CooldownSec = 2
  stampMinTTL = 4
  MaxTick = 0
  Bounce = TRUE
  MaxProblem = 3
  MaxTime = 8
SPECIFICATION Spec
PROPERTY CooldownKept
CHECK_DEADLOCK FALSE

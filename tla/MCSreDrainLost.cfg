\* One pod, nothing fails: the list, the executor and the reclaim are enough.
CONSTANTS
  Pod = {a}
  Item = {x}
  Operator = {o1}
  NoPod = NoPod  Orphan = Orphan  NoItem = NoItem
  Claim = {1, 2, 3}
  MaxConcurrent = 1
  MaxAttempts = 2
  MaxRun = 1
  MaxEvents = 0
  SlowItems = TRUE
SPECIFICATION Spec
PROPERTY ResultKept

\* Two pods, one item, any three of crashes, shutdowns, lost leases, failed
\* calls, marks and new runs; an item may outlast two leases.
CONSTANTS
  Pod = {a, b}
  Item = {x}
  Operator = {o1}
  NoPod = NoPod  Orphan = Orphan  NoItem = NoItem
  Claim = {1, 2, 3, 4}
  MaxConcurrent = 1
  MaxAttempts = 2
  MaxRun = 2
  MaxEvents = 3
  SlowItems = TRUE
SPECIFICATION FairSpec
INVARIANTS TypeOK OneExecutor GivenUp
PROPERTIES OwnerWrites Settles

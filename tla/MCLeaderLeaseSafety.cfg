\* Two pods; the lease is nine ticks, a round trip at most one.
CONSTANTS
  Pod = {a, b}
  TTL = 9
  Retry = 2
  RPCMax = 1
  Token = {1, 2, 3, 4}
  MaxStray = 1
SPECIFICATION FairSpec
INVARIANTS TypeOK OverlapBounded FailoverBounded
PROPERTIES Converges LeaseYieldedByOwner

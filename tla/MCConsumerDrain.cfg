\* One handler and one flusher; batches of two, so that a lone item waits for
\* the ticker, and ticked batches of one fill the flush queue and let the
\* hand-off time out.
CONSTANTS
  i1 = i1  i2 = i2  i3 = i3
  Item = {i1, i2, i3}
  Producer = {p1}
  Flusher = {w1}
  Size <- MCSize
  ByteBudget = 4
  BufferSize = 1
  BatchSize = 2
SPECIFICATION FairSpec
INVARIANTS BytesExact CountersExact NoSilentLoss
PROPERTIES ShutdownCompletes EveryItemSettles

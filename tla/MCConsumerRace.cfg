\* Two handlers and two flushers that race for the budget and the drain.
CONSTANTS
  i1 = i1  i2 = i2  i3 = i3
  Item = {i1, i2, i3}
  Producer = {p1, p2}
  Flusher = {w1, w2}
  Size <- MCSize
  ByteBudget = 3
  BufferSize = 2
  BatchSize = 2
SPECIFICATION Spec
SYMMETRY MCSymmetry
INVARIANTS TypeOK ByteInv BytesExact WithinBudget CountersExact NoSilentLoss
PROPERTY ImplementsLedger

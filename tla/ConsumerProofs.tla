--------------------------- MODULE ConsumerProofs ---------------------------
(***************************************************************************)
(* The byte accounting of the consumer is exact and the budget holds, for  *)
(* any number of handlers, flushers and items and any sizes.               *)
(***************************************************************************)
EXTENDS Consumer, ByteAccountingProofs, SequenceTheorems

-----------------------------------------------------------------------------
(* The channel and the dispatch queue as sets.                             *)

\* A channel send adds one item to the channel, and keeps its items distinct
\* if the item is new to it.
LEMMA ElemsAppend ==
  ASSUME NEW s \in Seq(Item), NEW x \in Item
  PROVE  /\ Append(s, x) \in Seq(Item)
         /\ Len(Append(s, x)) = Len(s) + 1
         /\ Elems(Append(s, x)) = Elems(s) \union {x}
         /\ (\A j, k \in DOMAIN s : s[j] = s[k] => j = k) /\ x \notin Elems(s)
              => \A j, k \in DOMAIN Append(s, x) :
                   Append(s, x)[j] = Append(s, x)[k] => j = k
  <1>1. /\ Append(s, x) \in Seq(Item) /\ Len(Append(s, x)) = Len(s) + 1
        /\ DOMAIN Append(s, x) = 1..(Len(s) + 1) /\ DOMAIN s = 1..Len(s) /\ Len(s) \in Nat
        /\ \A k \in 1..Len(s) : Append(s, x)[k] = s[k]
        /\ Append(s, x)[Len(s) + 1] = x
    OBVIOUS
  <1> QED
    BY <1>1 DEF Elems

\* A channel receive removes the head and nothing else, when the items of
\* the channel are distinct.
LEMMA ElemsTail ==
  ASSUME NEW s \in Seq(Item), s # <<>>, \A j, k \in DOMAIN s : s[j] = s[k] => j = k
  PROVE  /\ Tail(s) \in Seq(Item) /\ Len(Tail(s)) = Len(s) - 1
         /\ Head(s) \in Elems(s) /\ Head(s) \in Item
         /\ Elems(Tail(s)) = Elems(s) \ {Head(s)}
         /\ \A j, k \in DOMAIN Tail(s) : Tail(s)[j] = Tail(s)[k] => j = k
  <1>1. /\ Len(s) \in Nat \ {0} /\ DOMAIN s = 1..Len(s)
        /\ Tail(s) \in Seq(Item) /\ Len(Tail(s)) = Len(s) - 1
        /\ DOMAIN Tail(s) = 1..(Len(s) - 1)
        /\ \A k \in 1..(Len(s) - 1) : Tail(s)[k] = s[k + 1]
        /\ Head(s) = s[1] /\ s[1] \in Item
    OBVIOUS
  <1>2. Elems(Tail(s)) \subseteq Elems(s) \ {Head(s)}
    BY <1>1 DEF Elems
  <1>3. ASSUME NEW x \in Elems(s) \ {Head(s)} PROVE x \in Elems(Tail(s))
    <2>1. PICK k \in 1..Len(s) : s[k] = x
      BY <1>1 DEF Elems
    <2>2. k - 1 \in 1..(Len(s) - 1) /\ Tail(s)[k - 1] = x
      BY <1>1, <2>1
    <2> QED
      BY <1>1, <2>2 DEF Elems
  <1>4. Head(s) \in Elems(s)
    BY <1>1 DEF Elems
  <1> QED
    BY <1>1, <1>2, <1>3, <1>4

\* The items of a sequence of batches.
ItemsOf(q) == UNION {q[k].items : k \in DOMAIN q}

\* Dispatching a batch adds its items to the queue's, and keeps the batches
\* disjoint if the items are new to it.
LEMMA ItemsAppend ==
  ASSUME NEW q \in Seq(Batch), NEW b \in Batch
  PROVE  /\ Append(q, b) \in Seq(Batch)
         /\ Len(Append(q, b)) = Len(q) + 1
         /\ ItemsOf(Append(q, b)) = ItemsOf(q) \union b.items
         /\ \A k \in DOMAIN Append(q, b) :
              Append(q, b)[k] = b \/ (k \in DOMAIN q /\ Append(q, b)[k] = q[k])
         /\ (/\ \A j, k \in DOMAIN q : j # k => q[j].items \intersect q[k].items = {}
             /\ b.items \intersect ItemsOf(q) = {})
            => \A j, k \in DOMAIN Append(q, b) : j # k =>
                 Append(q, b)[j].items \intersect Append(q, b)[k].items = {}
  <1>1. /\ Append(q, b) \in Seq(Batch) /\ Len(Append(q, b)) = Len(q) + 1
        /\ DOMAIN Append(q, b) = 1..(Len(q) + 1) /\ DOMAIN q = 1..Len(q) /\ Len(q) \in Nat
        /\ \A k \in 1..Len(q) : Append(q, b)[k] = q[k]
        /\ Append(q, b)[Len(q) + 1] = b
    OBVIOUS
  <1>2. \A k \in 1..(Len(q) + 1) : k = Len(q) + 1 \/ k \in 1..Len(q)
    BY <1>1
  <1>3. ItemsOf(Append(q, b)) = ItemsOf(q) \union b.items
    BY <1>1, <1>2 DEF ItemsOf
  <1>4. ASSUME \A j, k \in DOMAIN q : j # k => q[j].items \intersect q[k].items = {},
               b.items \intersect ItemsOf(q) = {},
               NEW j \in DOMAIN Append(q, b), NEW k \in DOMAIN Append(q, b), j # k
        PROVE  Append(q, b)[j].items \intersect Append(q, b)[k].items = {}
    <2>1. \A m \in 1..Len(q) : b.items \intersect q[m].items = {}
      BY <1>4, <1>1 DEF ItemsOf
    <2> QED
      BY <1>1, <1>2, <1>4, <2>1
  <1> QED
    BY <1>1, <1>2, <1>3, <1>4

\* Taking the head batch removes exactly its items from the queue's.
LEMMA ItemsTail ==
  ASSUME NEW q \in Seq(Batch), q # <<>>,
         \A j, k \in DOMAIN q : j # k => q[j].items \intersect q[k].items = {}
  PROVE  /\ Tail(q) \in Seq(Batch) /\ Len(Tail(q)) = Len(q) - 1
         /\ Head(q) \in Batch /\ 1 \in DOMAIN q /\ Head(q) = q[1]
         /\ Head(q).items \subseteq ItemsOf(q)
         /\ ItemsOf(Tail(q)) = ItemsOf(q) \ Head(q).items
         /\ \A k \in DOMAIN Tail(q) : k + 1 \in DOMAIN q /\ Tail(q)[k] = q[k + 1]
         /\ \A j, k \in DOMAIN Tail(q) : j # k =>
              Tail(q)[j].items \intersect Tail(q)[k].items = {}
  <1>1. /\ Len(q) \in Nat \ {0} /\ DOMAIN q = 1..Len(q)
        /\ Tail(q) \in Seq(Batch) /\ Len(Tail(q)) = Len(q) - 1
        /\ DOMAIN Tail(q) = 1..(Len(q) - 1)
        /\ \A k \in 1..(Len(q) - 1) : Tail(q)[k] = q[k + 1]
        /\ Head(q) = q[1] /\ q[1] \in Batch
    OBVIOUS
  <1>2. \A k \in 1..(Len(q) - 1) : k + 1 \in 1..Len(q) /\ k + 1 # 1
    BY <1>1
  <1>3. ItemsOf(Tail(q)) \subseteq ItemsOf(q) \ Head(q).items
    <2>1. \A k \in 1..(Len(q) - 1) : q[k + 1].items \intersect q[1].items = {}
      BY <1>1, <1>2
    <2> QED
      BY <1>1, <1>2, <2>1 DEF ItemsOf
  <1>4. ASSUME NEW x \in ItemsOf(q) \ Head(q).items PROVE x \in ItemsOf(Tail(q))
    <2>1. PICK k \in 1..Len(q) : x \in q[k].items
      BY <1>1 DEF ItemsOf
    <2>2. k # 1
      BY <1>1, <2>1
    <2>3. k - 1 \in 1..(Len(q) - 1) /\ (k - 1) + 1 = k
      BY <1>1, <2>1, <2>2
    <2>4. k - 1 \in DOMAIN Tail(q) /\ x \in Tail(q)[k - 1].items
      BY <1>1, <2>1, <2>3
    <2> QED
      BY <2>4 DEF ItemsOf
  <1>5. Head(q).items \subseteq ItemsOf(q)
    BY <1>1 DEF ItemsOf
  <1>6. \A j, k \in 1..(Len(q) - 1) : j # k => q[j + 1].items \intersect q[k + 1].items = {}
    BY <1>1, <1>2
  <1>7. \A j, k \in DOMAIN Tail(q) : j # k =>
              Tail(q)[j].items \intersect Tail(q)[k].items = {}
    BY <1>1, <1>6
  <1>8. \A k \in DOMAIN Tail(q) : k + 1 \in DOMAIN q /\ Tail(q)[k] = q[k + 1]
    BY <1>1, <1>2
  <1>9. ItemsOf(Tail(q)) = ItemsOf(q) \ Head(q).items
    BY <1>3, <1>4
  <1> QED
    BY <1>1, <1>5, <1>7, <1>8, <1>9
-----------------------------------------------------------------------------
(* One step.                                                               *)

\* Everything inside the pipeline or inside an Add is an item.
LEMMA PlacesAreItems ==
  ASSUME TypeOK
  PROVE  /\ Elems(ch) \in SUBSET Item /\ batch \in SUBSET Item
         /\ outbox.items \in SUBSET Item /\ outbox.bytes \in Nat
         /\ QueuedItems \in SUBSET Item /\ AllInFlight \in SUBSET Item
         /\ Pipeline \in SUBSET Item
         /\ \A pcs : AddingAt(pcs) \in SUBSET Item
         /\ \A p \in Producer : producer[p].arg \in SUBSET Item
         /\ \A w \in Flusher : /\ flusher[w].batch \in Batch
                               /\ InFlight(w) \in SUBSET Item
                               /\ InFlight(w) \subseteq AllInFlight
  <1>1. Elems(ch) \in SUBSET Item
    BY DEF TypeOK, Elems
  <1>2. outbox.items \in SUBSET Item /\ outbox.bytes \in Nat
    BY DEF TypeOK, Batch
  <1>3. QueuedItems \in SUBSET Item
    <2>1. flushQ \in Seq(Batch)
      BY DEF TypeOK
    <2>2. \A k \in DOMAIN flushQ : flushQ[k] \in Batch
      BY <2>1
    <2> QED
      BY <2>2 DEF Batch, QueuedItems
  <1>4. \A w \in Flusher : flusher[w].batch \in Batch /\ InFlight(w) \in SUBSET Item
    BY DEF TypeOK, FlusherState, Batch, InFlight
  <1>5. AllInFlight \in SUBSET Item /\ \A w \in Flusher : InFlight(w) \subseteq AllInFlight
    BY <1>4 DEF AllInFlight
  <1>6. \A p \in Producer : producer[p].arg \in SUBSET Item
    BY DEF TypeOK, ProducerState
  <1>7. \A pcs : AddingAt(pcs) \in SUBSET Item
    BY <1>6 DEF AddingAt
  <1>8. batch \in SUBSET Item
    BY DEF TypeOK
  <1> QED
    BY <1>1, <1>2, <1>3, <1>4, <1>5, <1>6, <1>7, <1>8 DEF Pipeline

\* A step that moves no item and touches no byte count preserves the
\* invariant, whatever it does to counters, flags and history.
LEMMA QuietStep ==
  ASSUME ByteInv,
         TypeOK',
         UNCHANGED <<ch, batch, batchBytes, outbox, flushQ, bufBytes>>,
         \A w \in Flusher : flusher'[w].batch = flusher[w].batch,
         \A w \in Flusher : flusher'[w].pc \in {"take", "done"}
                              => flusher[w].pc \in {"take", "done"},
         stage' = "idle" => stage = "idle",
         offered \subseteq offered',
         \A p \in Producer : \/ producer'[p] = producer[p]
                             \/ /\ producer'[p] = Idle
                                /\ producer[p].pc \in {"accept", "drop"}
  PROVE  ByteInv'
  <1> USE DEF ByteInv
  <1>1. AllInFlight' = AllInFlight /\ \A w \in Flusher : InFlight(w)' = InFlight(w)
    BY DEF AllInFlight, InFlight
  <1>2. Elems(ch)' = Elems(ch) /\ QueuedItems' = QueuedItems
    BY DEF Elems, QueuedItems
  <1>3. Pipeline' = Pipeline
    BY <1>1, <1>2 DEF Pipeline
  <1>4. \A p \in Producer : producer'[p].arg \subseteq producer[p].arg
    BY DEF Idle
  <1>5. \A p \in Producer : producer'[p].pc \in {"send", "release", "drop"}
                             => producer'[p] = producer[p]
    BY DEF Idle
  <1>6. \A p \in Producer : producer[p].pc \in {"send", "release"}
                             => producer'[p] = producer[p]
    BY DEF Idle
  <1>7. /\ AddingAt({"send", "release", "drop"})' \subseteq AddingAt({"send", "release", "drop"})
        /\ AddingAt({"send"})' \subseteq AddingAt({"send"})
    BY <1>5 DEF AddingAt
  <1>8. AddingAt({"send", "release"})' = AddingAt({"send", "release"})
    BY <1>5, <1>6 DEF AddingAt
  <1>9. Shape'
    <2>1. \A p \in Producer : IF producer'[p].pc = "idle" THEN producer'[p].arg = {}
                         ELSE \E i \in Item : producer'[p].arg = {i}
      BY DEF Shape, Idle
    <2> QED
      BY <1>3, <1>4, <2>1 DEF Shape
  <1>10. OnePlace'
    BY <1>1, <1>2, <1>3, <1>4, <1>7 DEF OnePlace
  <1>11. SumsExact'
    BY <1>1 DEF SumsExact
  <1>12. BytesExact'
    BY <1>3, <1>8 DEF BytesExact
  <1>13. AdmittedFit'
    <2>1. Pipeline \union AddingAt({"send"}) \in SUBSET Item
      BY PlacesAreItems
    <2>2. Pipeline' \union AddingAt({"send"})' \in SUBSET (Pipeline \union AddingAt({"send"}))
      BY <1>3, <1>7
    <2>3. BytesOf(Pipeline' \union AddingAt({"send"})') <= BytesOf(Pipeline \union AddingAt({"send"}))
      BY <2>1, <2>2, BytesMonotone
    <2>4. /\ BytesOf(Pipeline' \union AddingAt({"send"})') \in Nat
          /\ BytesOf(Pipeline \union AddingAt({"send"})) \in Nat
      BY <2>1, <2>2, BytesType
    <2>5. SUFFICES ASSUME sizingEnabled
                   PROVE  BytesOf(Pipeline' \union AddingAt({"send"})') <= ByteBudget
      BY DEF AdmittedFit
    <2>6. BytesOf(Pipeline \union AddingAt({"send"})) <= ByteBudget
      BY <2>5 DEF AdmittedFit
    <2> QED
      BY <2>3, <2>4, <2>6, ByteAssumption
  <1> QED
    BY <1>9, <1>10, <1>11, <1>12, <1>13
\* What a step of one handler does to the items at some points of Add.
LEMMA AddingStep ==
  ASSUME OnePlace, NEW p \in Producer, NEW r, NEW pcs,
         \A q \in Producer : producer'[q] = IF q = p THEN r ELSE producer[q]
  PROVE  /\ producer[p].pc \in pcs /\ r.pc \notin pcs
              => AddingAt(pcs)' = AddingAt(pcs) \ producer[p].arg
         /\ producer[p].pc \notin pcs /\ r.pc \in pcs
              => AddingAt(pcs)' = AddingAt(pcs) \union r.arg
         /\ producer[p].pc \notin pcs /\ r.pc \notin pcs
              => AddingAt(pcs)' = AddingAt(pcs)
         /\ producer[p].pc \in pcs /\ r.pc \in pcs /\ r.arg = producer[p].arg
              => AddingAt(pcs)' = AddingAt(pcs)
  <1>1. \A q, s \in Producer : q # s => producer[q].arg \intersect producer[s].arg = {}
    BY DEF OnePlace
  <1>2. AddingAt(pcs)' =
           (AddingAt(pcs) \ (IF producer[p].pc \in pcs THEN producer[p].arg ELSE {}))
             \union (IF r.pc \in pcs THEN r.arg ELSE {})
    BY <1>1 DEF AddingAt
  <1>3. producer[p].pc \in pcs => producer[p].arg \subseteq AddingAt(pcs)
    BY DEF AddingAt
  <1> QED
    BY <1>2, <1>3

\* What a step of one flusher does to the items being flushed.
LEMMA FlightStep ==
  ASSUME OnePlace, NEW w \in Flusher, NEW r,
         \A v \in Flusher : flusher'[v] = IF v = w THEN r ELSE flusher[v]
  PROVE  AllInFlight' = (AllInFlight \ InFlight(w)) \union r.batch.items
  <1>1. \A u, v \in Flusher : u # v =>
          flusher[u].batch.items \intersect flusher[v].batch.items = {}
    BY DEF OnePlace, InFlight
  <1> QED
    BY <1>1 DEF AllInFlight, InFlight

\* A reservation: the item is new to every place, and if the atomic add
\* found the budget kept, everything already admitted fits beside it.
LEMMA ReserveStep ==
  ASSUME ByteInv, NEW p \in Producer, NEW i \in Item, Reserve(p, i)
  PROVE  ByteInv'
  <1> USE DEF ByteInv
  <1> DEFINE over == sizingEnabled /\ bufBytes + sizeOf(i) > ByteBudget
             r == [pc |-> IF over THEN "release" ELSE "send", arg |-> {i}]
             Held == Pipeline \union AddingAt({"send", "release"})
  <1>1. /\ producer[p].pc = "idle" /\ i \notin offered
        /\ offered' = offered \union {i} /\ bufBytes' = bufBytes + sizeOf(i)
        /\ producer' = [producer EXCEPT ![p] = r]
        /\ fate' \in [Item -> Fate]
        /\ UNCHANGED <<ch, loopVars, flushQ, flusher, accepted, dropped, writeFailed,
                       shutdownVars, copies>>
    BY DEF Reserve, SetFate, Fate, TypeOK
  <1>2. \A q \in Producer : producer'[q] = IF q = p THEN r ELSE producer[q]
    BY <1>1 DEF TypeOK
  <1>3. producer[p].arg = {}
    BY <1>1 DEF Shape
  <1>4. sizeOf(i) \in Nat
    BY SizeType
  <1>5. TypeOK'
    <2>1. r \in ProducerState
      BY DEF ProducerState
    <2>2. producer' \in [Producer -> ProducerState]
      BY <1>1, <2>1 DEF TypeOK
    <2>3. bufBytes' \in Nat /\ offered' \in SUBSET Item
      BY <1>1, <1>4 DEF TypeOK
    <2> QED
      BY <1>1, <2>2, <2>3 DEF TypeOK, loopVars, shutdownVars
  <1>6. Pipeline' = Pipeline /\ Elems(ch)' = Elems(ch) /\ QueuedItems' = QueuedItems
        /\ AllInFlight' = AllInFlight /\ \A w \in Flusher : InFlight(w)' = InFlight(w)
    BY <1>1 DEF Pipeline, Elems, QueuedItems, AllInFlight, InFlight, loopVars
  <1>7. i \notin Pipeline /\ \A pcs : i \notin AddingAt(pcs)
    BY <1>1 DEF Shape, AddingAt
  <1>8. /\ AddingAt({"send", "release", "drop"})' = AddingAt({"send", "release", "drop"}) \union {i}
        /\ AddingAt({"send", "release"})' = AddingAt({"send", "release"}) \union {i}
        /\ over => AddingAt({"send"})' = AddingAt({"send"})
        /\ ~over => AddingAt({"send"})' = AddingAt({"send"}) \union {i}
    <2>1. producer[p].pc = "idle" /\ r.arg = {i} /\ r.pc = IF over THEN "release" ELSE "send"
      BY <1>1
    <2> HIDE DEF r, over
    <2>2. ASSUME NEW pcs, "idle" \notin pcs, r.pc \in pcs
          PROVE  AddingAt(pcs)' = AddingAt(pcs) \union {i}
      BY <2>2, <1>2, <2>1, AddingStep
    <2>3. ASSUME NEW pcs, "idle" \notin pcs, r.pc \notin pcs
          PROVE  AddingAt(pcs)' = AddingAt(pcs)
      BY <2>3, <1>2, <2>1, AddingStep
    <2> QED
      BY <2>1, <2>2, <2>3
  <1>9. Shape'
    <2>1. \A q \in Producer : IF producer'[q].pc = "idle" THEN producer'[q].arg = {}
                         ELSE \E j \in Item : producer'[q].arg = {j}
      BY <1>2 DEF Shape
    <2>2. \A q \in Producer : producer'[q].arg \subseteq offered'
      BY <1>1, <1>2 DEF Shape
    <2> QED
      BY <1>1, <1>6, <2>1, <2>2 DEF Shape, loopVars
  <1>10. OnePlace'
    <2>1. \A q, s \in Producer : q # s => producer'[q].arg \intersect producer'[s].arg = {}
      <3>1. \A q \in Producer : i \notin producer[q].arg
        BY <1>1 DEF Shape
      <3> QED
        BY <1>2, <3>1 DEF OnePlace
    <2>2. AddingAt({"send", "release", "drop"})' \intersect Pipeline' = {}
      BY <1>6, <1>7, <1>8 DEF OnePlace
    <2> QED
      BY <1>1, <1>6, <2>1, <2>2 DEF OnePlace, loopVars
  <1>11. SumsExact'
    BY <1>1, <1>6 DEF SumsExact, loopVars
  <1>12. Held \in SUBSET Item /\ BytesOf(Held') = BytesOf(Held) + sizeOf(i)
    <2>1. Held \in SUBSET Item
      BY PlacesAreItems
    <2>2. Held' = Held \union {i} /\ Held \intersect {i} = {}
      BY <1>6, <1>7, <1>8
    <2>3. BytesOf(Held \union {i}) = BytesOf(Held) + BytesOf({i})
      <3> HIDE DEF Held
      <3> QED BY <2>1, <2>2, BytesUnion
    <2> QED
      BY <2>1, <2>2, <2>3, BytesSingle
  <1>13. BytesExact'
    BY <1>1, <1>12 DEF BytesExact
  <1>14. AdmittedFit'
    <2> SUFFICES ASSUME sizingEnabled
                 PROVE  BytesOf(Pipeline' \union AddingAt({"send"})') <= ByteBudget
      BY DEF AdmittedFit
    <2>1. CASE over
      <3>1. Pipeline' \union AddingAt({"send"})' = Pipeline \union AddingAt({"send"})
        BY <2>1, <1>6, <1>8
      <3>2. BytesOf(Pipeline \union AddingAt({"send"})) <= ByteBudget
        BY DEF AdmittedFit
      <3> QED
        BY <3>1, <3>2
    <2>2. CASE ~over
      <3>1. AddingAt({"send"}) \subseteq AddingAt({"send", "release"})
        BY DEF AddingAt
      <3>2. Pipeline' \union AddingAt({"send"})' \in SUBSET (Held')
        BY <2>2, <1>6, <1>8, <3>1
      <3>3. Held' \in SUBSET Item
        BY <1>6, <1>8, <1>12
      <3>4. BytesOf(Held') <= ByteBudget
        <4>1. bufBytes + sizeOf(i) <= ByteBudget
          BY <2>2, <1>4, ByteAssumption DEF TypeOK
        <4> QED
          BY <4>1, <1>1, <1>13, Zenon DEF BytesExact
      <3>5. BytesOf(Pipeline' \union AddingAt({"send"})') <= BytesOf(Held')
        <4> HIDE DEF Held
        <4> QED BY <3>2, <3>3, BytesMonotone
      <3>6. BytesOf(Pipeline' \union AddingAt({"send"})') \in Nat /\ BytesOf(Held') \in Nat
        <4> HIDE DEF Held
        <4> QED BY <3>2, <3>3, BytesType
      <3> QED
        BY <3>4, <3>5, <3>6, ByteAssumption
    <2> QED
      BY <2>1, <2>2
  <1> QED
    BY <1>5, <1>9, <1>10, <1>11, <1>13, <1>14
\* A step that only moves items between places keeps the byte facts.
LEMMA MovedBytes ==
  ASSUME ByteInv, UNCHANGED bufBytes,
         (Pipeline \union AddingAt({"send", "release"}))'
           = Pipeline \union AddingAt({"send", "release"}),
         (Pipeline \union AddingAt({"send"}))' \subseteq Pipeline \union AddingAt({"send"})
  PROVE  BytesExact' /\ AdmittedFit'
  <1> USE DEF ByteInv
  <1>1. BytesExact'
    BY DEF BytesExact
  <1>2. AdmittedFit'
    <2> DEFINE A == Pipeline \union AddingAt({"send"})
    <2>1. A \in SUBSET Item
      BY PlacesAreItems
    <2>2. A' \in SUBSET A
      OBVIOUS
    <2>3. BytesOf(A') <= BytesOf(A) /\ BytesOf(A') \in Nat /\ BytesOf(A) \in Nat
      <3> HIDE DEF A
      <3>1. A' \in SUBSET Item
        BY <2>1, <2>2
      <3> QED BY <2>1, <2>2, <3>1, BytesMonotone, BytesType
    <2>4. sizingEnabled => BytesOf(A) <= ByteBudget
      BY DEF AdmittedFit
    <2>5. sizingEnabled => BytesOf(A') <= ByteBudget
      <3> HIDE DEF A
      <3> QED BY <2>3, <2>4, ByteAssumption
    <2> QED
      BY <2>5 DEF AdmittedFit
  <1> QED
    BY <1>1, <1>2

\* The channel send: the item moves from the handler to the channel, or the
\* handler turns to giving its reservation back.
LEMMA SendStep ==
  ASSUME ByteInv, NEW p \in Producer, Send(p)
  PROVE  ByteInv'
  <1> USE DEF ByteInv
  <1>1. PICK i \in Item : producer[p].arg = {i}
    BY DEF Send, Shape
  <1>a. /\ producer[p].pc = "send"
        /\ UNCHANGED <<batch, batchBytes, outbox, stage, flushQ, flusher, bufBytes, offered>>
        /\ UNCHANGED <<mode, closed, draining, accepted, dropped, writeFailed, receivers,
                       cancelled, copies>>
    BY DEF Send, loopVars, shutdownVars
  <1>b. i \in AddingAt({"send"}) /\ i \in AddingAt({"send", "release", "drop"})
        /\ i \in AddingAt({"send", "release"})
    BY <1>1, <1>a DEF AddingAt
  <1>c. i \notin Pipeline
    BY <1>b DEF OnePlace
  <1>d. QueuedItems' = QueuedItems /\ AllInFlight' = AllInFlight
        /\ \A w \in Flusher : InFlight(w)' = InFlight(w)
    BY <1>a DEF QueuedItems, AllInFlight, InFlight
  <1>2. CASE Len(ch) < BufferSize
    <2>1. ch' = Append(ch, i) /\ fate' = fate
          /\ producer' = [producer EXCEPT ![p].pc = "accept"]
      BY <1>1, <1>2, ConsumerAssumption DEF Send, TypeOK
    <2> DEFINE r == [producer[p] EXCEPT !.pc = "accept"]
    <2>2. r \in ProducerState /\ r.pc = "accept" /\ r.arg = {i}
      BY <1>1 DEF TypeOK, ProducerState
    <2>3. \A q \in Producer : producer'[q] = IF q = p THEN r ELSE producer[q]
      BY <2>1 DEF TypeOK
    <2> HIDE DEF r
    <2>4. /\ ch' \in Seq(Item) /\ Len(ch') = Len(ch) + 1
          /\ Elems(ch)' = Elems(ch) \union {i}
          /\ \A j, k \in DOMAIN ch' : ch'[j] = ch'[k] => j = k
      <3>1. ch \in Seq(Item)
        BY DEF TypeOK
      <3>2. i \notin Elems(ch) /\ \A j, k \in DOMAIN ch : ch[j] = ch[k] => j = k
        BY <1>c DEF Pipeline, OnePlace
      <3> QED
        BY <2>1, <3>1, <3>2, ElemsAppend
    <2>5. Pipeline' = Pipeline \union {i}
      BY <1>a, <1>d, <2>4 DEF Pipeline
    <2>6. /\ AddingAt({"send", "release", "drop"})' = AddingAt({"send", "release", "drop"}) \ {i}
          /\ AddingAt({"send", "release"})' = AddingAt({"send", "release"}) \ {i}
          /\ AddingAt({"send"})' = AddingAt({"send"}) \ {i}
      <3>1. ASSUME NEW pcs, "send" \in pcs, "accept" \notin pcs
            PROVE  AddingAt(pcs)' = AddingAt(pcs) \ {i}
        BY <3>1, <1>1, <1>a, <2>2, <2>3, AddingStep
      <3> QED
        BY <3>1
    <2>8. TypeOK'
      <3>1. producer' \in [Producer -> ProducerState]
        BY <2>1, <2>2 DEF TypeOK, r
      <3>2. Len(ch') <= BufferSize
        BY <1>2, <2>4, ConsumerAssumption DEF TypeOK
      <3> QED
        BY <1>a, <2>1, <2>4, <3>1, <3>2 DEF TypeOK
    <2>9. Shape'
      <3>1. \A q \in Producer : /\ IF producer'[q].pc = "idle" THEN producer'[q].arg = {}
                                   ELSE \E j \in Item : producer'[q].arg = {j}
                                /\ producer'[q].arg \subseteq offered'
        BY <1>1, <1>a, <2>2, <2>3 DEF Shape
      <3>2. i \in offered
        BY <1>1 DEF Shape
      <3> QED
        BY <1>a, <2>5, <3>1, <3>2 DEF Shape
    <2>10. OnePlace'
      <3>1. \A q, s \in Producer : q # s => producer'[q].arg \intersect producer'[s].arg = {}
        BY <1>1, <2>2, <2>3 DEF OnePlace
      <3>2. AddingAt({"send", "release", "drop"})' \intersect Pipeline' = {}
        BY <2>5, <2>6 DEF OnePlace
      <3>3. Elems(ch)' \intersect (batch \union outbox.items \union QueuedItems \union AllInFlight) = {}
        BY <1>c, <2>4 DEF OnePlace, Pipeline
      <3> QED
        BY <1>a, <1>d, <2>4, <3>1, <3>2, <3>3 DEF OnePlace
    <2>11. SumsExact'
      BY <1>a, <1>d DEF SumsExact
    <2>12. BytesExact' /\ AdmittedFit'
      <3>1. /\ (Pipeline \union AddingAt({"send", "release"}))'
                 = Pipeline \union AddingAt({"send", "release"})
            /\ (Pipeline \union AddingAt({"send"}))' \subseteq Pipeline \union AddingAt({"send"})
        BY <1>b, <2>5, <2>6
      <3> QED
        BY <1>a, <3>1, MovedBytes
    <2> QED
      BY <2>8, <2>9, <2>10, <2>11, <2>12
  <1>3. CASE Len(ch) >= BufferSize
    <2>1. ch' = ch /\ fate' \in [Item -> Fate]
          /\ producer' = [producer EXCEPT ![p].pc = "release"]
      <3>1. ch' = ch /\ SetFate(producer[p].arg, "refused")
            /\ producer' = [producer EXCEPT ![p].pc = "release"]
        BY <1>3, ConsumerAssumption DEF Send, TypeOK
      <3> QED
        BY <3>1 DEF SetFate, Fate, TypeOK
    <2> DEFINE r == [producer[p] EXCEPT !.pc = "release"]
    <2>2. r \in ProducerState /\ r.pc = "release" /\ r.arg = {i} /\ r.arg = producer[p].arg
      BY <1>1 DEF TypeOK, ProducerState
    <2>3. \A q \in Producer : producer'[q] = IF q = p THEN r ELSE producer[q]
      BY <2>1 DEF TypeOK
    <2> HIDE DEF r
    <2>4. Elems(ch)' = Elems(ch) /\ Pipeline' = Pipeline
      BY <1>a, <1>d, <2>1 DEF Pipeline, Elems
    <2>5. /\ AddingAt({"send", "release", "drop"})' = AddingAt({"send", "release", "drop"})
          /\ AddingAt({"send", "release"})' = AddingAt({"send", "release"})
      <3>1. ASSUME NEW pcs, "send" \in pcs, "release" \in pcs
            PROVE  AddingAt(pcs)' = AddingAt(pcs)
        <4>1. producer[p].pc \in pcs /\ r.pc \in pcs /\ r.arg = producer[p].arg
          BY <3>1, <1>a, <2>2
        <4> QED
          BY <2>3, <4>1, AddingStep, Zenon
      <3> QED
        BY <3>1
    <2>6. AddingAt({"send"})' \subseteq AddingAt({"send"})
      <3>1. ASSUME NEW pcs, "send" \in pcs, "release" \notin pcs
            PROVE  AddingAt(pcs)' \subseteq AddingAt(pcs)
        BY <3>1, <1>1, <1>a, <2>2, <2>3, AddingStep
      <3> QED
        BY <3>1
    <2>7. TypeOK'
      <3>1. producer' \in [Producer -> ProducerState]
        BY <2>1, <2>2 DEF TypeOK, r
      <3> QED
        BY <1>a, <2>1, <3>1 DEF TypeOK
    <2>8. Shape'
      <3>1. \A q \in Producer : /\ IF producer'[q].pc = "idle" THEN producer'[q].arg = {}
                                   ELSE \E j \in Item : producer'[q].arg = {j}
                                /\ producer'[q].arg \subseteq offered'
        BY <1>1, <1>a, <2>2, <2>3 DEF Shape
      <3> QED
        BY <1>a, <2>4, <3>1 DEF Shape
    <2>9. OnePlace'
      <3>1. \A q, s \in Producer : q # s => producer'[q].arg \intersect producer'[s].arg = {}
        BY <1>1, <2>2, <2>3 DEF OnePlace
      <3> QED
        BY <1>a, <1>d, <2>1, <2>4, <2>5, <3>1 DEF OnePlace
    <2>10. SumsExact'
      BY <1>a, <1>d DEF SumsExact
    <2>11. BytesExact' /\ AdmittedFit'
      BY <1>a, <2>4, <2>5, <2>6, MovedBytes
    <2> QED
      BY <2>7, <2>8, <2>9, <2>10, <2>11
  <1>4. Len(ch) \in Nat /\ BufferSize \in Nat
    BY ConsumerAssumption DEF TypeOK
  <1>5. Len(ch) < BufferSize \/ Len(ch) >= BufferSize
    BY <1>4
  <1> QED
    BY <1>2, <1>3, <1>5
\* A step that takes the items S out and gives their bytes back keeps the
\* byte facts.
LEMMA ReturnedBytes ==
  ASSUME ByteInv, NEW S, S \subseteq Pipeline \union AddingAt({"send", "release"}),
         bufBytes' = bufBytes - BytesOf(S),
         (Pipeline \union AddingAt({"send", "release"}))'
           = (Pipeline \union AddingAt({"send", "release"})) \ S,
         (Pipeline \union AddingAt({"send"}))' \subseteq Pipeline \union AddingAt({"send"})
  PROVE  BytesExact' /\ AdmittedFit' /\ bufBytes' \in Nat
  <1> USE DEF ByteInv
  <1> DEFINE H == Pipeline \union AddingAt({"send", "release"})
             A == Pipeline \union AddingAt({"send"})
  <1>1. H \in SUBSET Item /\ A \in SUBSET Item
    BY PlacesAreItems
  <1>2. H' = H \ S /\ S \in SUBSET H /\ bufBytes = BytesOf(H) /\ A' \in SUBSET A
    BY DEF BytesExact
  <1>3. BytesOf(H') = BytesOf(H) - BytesOf(S) /\ BytesOf(H') \in Nat
    <2> HIDE DEF H
    <2>1. H \ S \in SUBSET Item
      BY <1>1
    <2> QED BY <1>1, <1>2, <2>1, BytesMinus, BytesType
  <1>4. BytesExact' /\ bufBytes' \in Nat
    BY <1>2, <1>3 DEF BytesExact
  <1>5. BytesOf(A') <= BytesOf(A) /\ BytesOf(A') \in Nat /\ BytesOf(A) \in Nat
    <2> HIDE DEF A
    <2>1. A' \in SUBSET Item
      BY <1>1, <1>2
    <2> QED BY <1>1, <1>2, <2>1, BytesMonotone, BytesType
  <1>6. sizingEnabled => BytesOf(A) <= ByteBudget
    BY DEF AdmittedFit
  <1>7. sizingEnabled => BytesOf(A') <= ByteBudget
    <2> HIDE DEF A
    <2> QED BY <1>5, <1>6, ByteAssumption
  <1>8. AdmittedFit'
    BY <1>7 DEF AdmittedFit
  <1> QED
    BY <1>4, <1>8

\* A refused Add gives back what it reserved.
LEMMA UnreserveStep ==
  ASSUME ByteInv, NEW p \in Producer, Unreserve(p)
  PROVE  ByteInv'
  <1> USE DEF ByteInv
  <1> DEFINE r == [producer[p] EXCEPT !.pc = "drop"]
  <1>1. /\ producer[p].pc = "release"
        /\ bufBytes' = bufBytes - BytesOf(producer[p].arg)
        /\ producer' = [producer EXCEPT ![p].pc = "drop"]
        /\ UNCHANGED <<ch, batch, batchBytes, outbox, stage, flushQ, flusher, offered>>
        /\ UNCHANGED <<mode, closed, draining, accepted, dropped, writeFailed, receivers,
                       cancelled, copies, fate>>
    BY DEF Unreserve, loopVars, shutdownVars
  <1>2. r \in ProducerState /\ r.pc = "drop" /\ r.arg = producer[p].arg
    BY DEF TypeOK, ProducerState
  <1>3. \A q \in Producer : producer'[q] = IF q = p THEN r ELSE producer[q]
    BY <1>1 DEF TypeOK
  <1>4. producer' \in [Producer -> ProducerState]
    BY <1>1, <1>2 DEF TypeOK
  <1> HIDE DEF r
  <1>5. Elems(ch)' = Elems(ch) /\ QueuedItems' = QueuedItems /\ AllInFlight' = AllInFlight
        /\ Pipeline' = Pipeline /\ \A w \in Flusher : InFlight(w)' = InFlight(w)
    BY <1>1 DEF Pipeline, Elems, QueuedItems, AllInFlight, InFlight
  <1>6. AddingAt({"send", "release"})' = AddingAt({"send", "release"}) \ producer[p].arg
    <2>1. ASSUME NEW pcs, "release" \in pcs, "drop" \notin pcs
          PROVE  AddingAt(pcs)' = AddingAt(pcs) \ producer[p].arg
      BY <2>1, <1>1, <1>2, <1>3, AddingStep
    <2> QED BY <2>1
  <1>7. AddingAt({"send", "release", "drop"})' = AddingAt({"send", "release", "drop"})
    <2>1. ASSUME NEW pcs, "release" \in pcs, "drop" \in pcs
          PROVE  AddingAt(pcs)' = AddingAt(pcs)
      <3>1. producer[p].pc \in pcs /\ r.pc \in pcs /\ r.arg = producer[p].arg
        BY <2>1, <1>1, <1>2
      <3> QED BY <1>3, <3>1, AddingStep, Zenon
    <2> QED BY <2>1
  <1>8. AddingAt({"send"})' = AddingAt({"send"})
    <2>1. ASSUME NEW pcs, "release" \notin pcs, "drop" \notin pcs
          PROVE  AddingAt(pcs)' = AddingAt(pcs)
      BY <2>1, <1>1, <1>2, <1>3, AddingStep
    <2> QED BY <2>1
  <1>9. producer[p].arg \subseteq AddingAt({"send", "release", "drop"})
        /\ producer[p].arg \subseteq AddingAt({"send", "release"})
    BY <1>1 DEF AddingAt
  <1>10. BytesExact' /\ AdmittedFit' /\ bufBytes' \in Nat
    <2>1. producer[p].arg \intersect Pipeline = {}
      BY <1>9 DEF OnePlace
    <2>2. (Pipeline \union AddingAt({"send", "release"}))'
            = (Pipeline \union AddingAt({"send", "release"})) \ producer[p].arg
      BY <1>5, <1>6, <2>1
    <2>3. (Pipeline \union AddingAt({"send"}))' = Pipeline \union AddingAt({"send"})
      BY <1>5, <1>8
    <2> QED
      BY <1>1, <1>9, <2>2, <2>3, ReturnedBytes
  <1>11. TypeOK'
    BY <1>1, <1>4, <1>10 DEF TypeOK
  <1>12. Shape'
    <2>1. \A q \in Producer : /\ IF producer'[q].pc = "idle" THEN producer'[q].arg = {}
                                 ELSE \E j \in Item : producer'[q].arg = {j}
                              /\ producer'[q].arg \subseteq offered'
      BY <1>1, <1>2, <1>3 DEF Shape
    <2> QED
      BY <1>1, <1>5, <2>1 DEF Shape
  <1>13. OnePlace'
    <2>1. \A q, s \in Producer : q # s => producer'[q].arg \intersect producer'[s].arg = {}
      BY <1>2, <1>3 DEF OnePlace
    <2> QED
      BY <1>1, <1>5, <1>7, <2>1 DEF OnePlace
  <1>14. SumsExact'
    BY <1>1, <1>5 DEF SumsExact
  <1> QED
    BY <1>10, <1>11, <1>12, <1>13, <1>14

\* A step of the loop or of a flusher leaves the handlers where they are.
LEMMA HandlersUnchanged ==
  ASSUME UNCHANGED addVars
  PROVE  producer' = producer /\ offered' = offered /\ accepted' = accepted
         /\ \A pcs : AddingAt(pcs)' = AddingAt(pcs)
  BY DEF addVars, AddingAt

\* The loop takes an item from the channel into the batch, and hands the
\* batch to the outbox when it is full.
LEMMA AccumulateStep ==
  ASSUME ByteInv, Accumulate
  PROVE  ByteInv'
  <1> USE DEF ByteInv
  <1> DEFINE i == Head(ch)
             items == batch \union {i}
             bytes == batchBytes + sizeOf(i)
  <1>1. /\ stage = "idle" /\ ch # <<>> /\ ch' = Tail(ch)
        /\ UNCHANGED <<flushQ, flusher, bufBytes>>
        /\ UNCHANGED <<mode, closed, draining, dropped, writeFailed, receivers, cancelled,
                       fate, copies>>
        /\ UNCHANGED addVars
    BY DEF Accumulate, shutdownVars
  <1>2. \/ /\ batch' = items /\ batchBytes' = bytes
           /\ outbox' = outbox /\ stage' = stage
        \/ /\ batch' = {} /\ batchBytes' = 0
           /\ outbox' = [items |-> items, bytes |-> bytes] /\ stage' = "send"
    BY DEF Accumulate, Dispatch
  <1>3. outbox = NoBatch /\ outbox.items = {} /\ outbox.bytes = 0
    BY <1>1 DEF Shape, NoBatch
  <1>4. /\ ch' \in Seq(Item) /\ Len(ch') = Len(ch) - 1
        /\ i \in Item /\ i \in Elems(ch)
        /\ Elems(ch)' = Elems(ch) \ {i}
        /\ \A j, k \in DOMAIN ch' : ch'[j] = ch'[k] => j = k
    <2>1. ch \in Seq(Item) /\ \A j, k \in DOMAIN ch : ch[j] = ch[k] => j = k
      BY DEF TypeOK, OnePlace
    <2> QED
      BY <1>1, <2>1, ElemsTail
  <1>5. QueuedItems' = QueuedItems /\ AllInFlight' = AllInFlight
        /\ \A w \in Flusher : InFlight(w)' = InFlight(w)
    BY <1>1 DEF QueuedItems, AllInFlight, InFlight
  <1>6. items \in SUBSET Item /\ bytes \in Nat /\ bytes = BytesOf(items)
        /\ BytesOf({}) = 0
    <2>1. items \in SUBSET Item /\ batch \in SUBSET Item /\ {i} \in SUBSET Item
      BY <1>4 DEF TypeOK
    <2>2. batch \intersect {i} = {}
      BY <1>4 DEF OnePlace
    <2>3. BytesOf(items) = BytesOf(batch) + BytesOf({i})
      BY <2>1, <2>2, BytesUnion
    <2>4. BytesOf({i}) = sizeOf(i) /\ sizeOf(i) \in Nat
      BY <1>4, BytesSingle, SizeType
    <2>5. batchBytes = BytesOf(batch) /\ batchBytes \in Nat
      BY DEF SumsExact, TypeOK
    <2> QED
      BY <2>1, <2>3, <2>4, <2>5, BytesEmpty
  <1> HIDE DEF i, items, bytes
  <1>7. outbox'.items \union batch' = batch \union {i} /\ outbox'.items \intersect batch' = {}
    BY <1>2, <1>3 DEF items
  <1>8. Pipeline' = Pipeline
    BY <1>3, <1>4, <1>5, <1>7 DEF Pipeline
  <1>9. TypeOK'
    <2>1. batch' \in SUBSET Item /\ batchBytes' \in Nat /\ outbox' \in Batch
          /\ stage' \in {"idle", "send", "handoff", "giveback"}
      BY <1>1, <1>2, <1>6 DEF TypeOK, Batch
    <2>2. Len(ch') <= BufferSize
      BY <1>4, ConsumerAssumption DEF TypeOK
    <2> QED
      BY <1>1, <1>4, <2>1, <2>2, HandlersUnchanged DEF TypeOK
  <1>10. Shape'
    <2>1. stage' = "idle" => outbox' = NoBatch
      BY <1>2, <1>3
    <2> QED
      BY <1>1, <1>8, <2>1, HandlersUnchanged DEF Shape
  <1>11. OnePlace'
    <2>1. /\ Elems(ch)' \intersect (batch' \union outbox'.items) = {}
          /\ Elems(ch)' \intersect (QueuedItems \union AllInFlight) = {}
          /\ (batch' \union outbox'.items) \intersect (QueuedItems \union AllInFlight) = {}
      BY <1>4, <1>7 DEF OnePlace
    <2>2. AddingAt({"send", "release", "drop"})' \intersect Pipeline' = {}
      BY <1>1, <1>8, HandlersUnchanged DEF OnePlace
    <2> QED
      BY <1>1, <1>4, <1>5, <1>7, <2>1, <2>2, HandlersUnchanged DEF OnePlace
  <1>12. SumsExact'
    <2>1. batchBytes' = BytesOf(batch')
      BY <1>2, <1>6
    <2>2. outbox'.bytes = BytesOf(outbox'.items)
      BY <1>2, <1>3, <1>6
    <2> QED
      BY <1>1, <1>5, <2>1, <2>2 DEF SumsExact
  <1>13. BytesExact' /\ AdmittedFit'
    BY <1>1, <1>8, HandlersUnchanged, MovedBytes
  <1> QED
    BY <1>9, <1>10, <1>11, <1>12, <1>13
\* The ticker, and the end of the drain, hand over the batch as it stands.
LEMMA DispatchStep ==
  ASSUME ByteInv, TypeOK', stage = "idle", Dispatch(batch, batchBytes),
         UNCHANGED <<ch, flushQ, flusher, bufBytes>>, UNCHANGED addVars
  PROVE  ByteInv'
  <1> USE DEF ByteInv
  <1>1. outbox = NoBatch /\ outbox.items = {} /\ outbox.bytes = 0 /\ NoBatch.items = {}
    BY DEF Shape, NoBatch
  <1>2. \/ /\ batch = {} /\ batch' = {} /\ batchBytes' = 0 /\ outbox' = outbox /\ stage' = stage
        \/ /\ batch' = {} /\ batchBytes' = 0 /\ stage' = "send"
           /\ outbox' = [items |-> batch, bytes |-> batchBytes]
    BY DEF Dispatch
  <1>3. batch' = {} /\ outbox'.items = batch
    BY <1>1, <1>2
  <1>4. Elems(ch)' = Elems(ch) /\ QueuedItems' = QueuedItems /\ AllInFlight' = AllInFlight
        /\ \A w \in Flusher : InFlight(w)' = InFlight(w)
    BY DEF Elems, QueuedItems, AllInFlight, InFlight
  <1>5. Pipeline' = Pipeline
    BY <1>1, <1>3, <1>4 DEF Pipeline
  <1>6. Shape'
    <2>1. stage' = "idle" => outbox' = NoBatch
      BY <1>1, <1>2
    <2> QED
      BY <1>5, <2>1, HandlersUnchanged DEF Shape
  <1>7. OnePlace'
    <2>1. AddingAt({"send", "release", "drop"})' \intersect Pipeline' = {}
      BY <1>5, HandlersUnchanged DEF OnePlace
    <2>2. Elems(ch) \intersect batch = {} /\ batch \intersect (QueuedItems \union AllInFlight) = {}
      BY DEF OnePlace
    <2> QED
      BY <1>3, <1>4, <2>1, <2>2, HandlersUnchanged DEF OnePlace
  <1>8. SumsExact'
    <2>1. batchBytes' = BytesOf(batch')
      BY <1>2, BytesEmpty
    <2>2. outbox'.bytes = BytesOf(outbox'.items)
      BY <1>2 DEF SumsExact
    <2> QED
      BY <1>4, <2>1, <2>2 DEF SumsExact
  <1>9. BytesExact' /\ AdmittedFit'
    BY <1>5, HandlersUnchanged, MovedBytes
  <1> QED
    BY <1>6, <1>7, <1>8, <1>9

\* Handing the outbox to the dispatch queue.
LEMMA HandOffStep ==
  ASSUME ByteInv, HandOff
  PROVE  ByteInv'
  <1> USE DEF ByteInv
  <1>1. /\ Len(flushQ) < FlushQCap /\ flushQ' = Append(flushQ, outbox)
        /\ outbox' = NoBatch /\ stage' = "idle"
        /\ UNCHANGED <<ch, batch, batchBytes, flusher, bufBytes>>
        /\ UNCHANGED <<mode, closed, draining, dropped, writeFailed, receivers, cancelled,
                       fate, copies>>
        /\ UNCHANGED addVars
    BY DEF HandOff, shutdownVars
  <1>2. NoBatch \in Batch /\ NoBatch.items = {} /\ NoBatch.bytes = 0
    BY DEF NoBatch, Batch
  <1>3. QueuedItems = ItemsOf(flushQ) /\ QueuedItems' = ItemsOf(flushQ')
    BY DEF QueuedItems, ItemsOf
  <1>4. /\ flushQ' \in Seq(Batch) /\ Len(flushQ') = Len(flushQ) + 1
        /\ QueuedItems' = QueuedItems \union outbox.items
        /\ \A k \in DOMAIN flushQ' :
             flushQ'[k] = outbox \/ (k \in DOMAIN flushQ /\ flushQ'[k] = flushQ[k])
        /\ \A j, k \in DOMAIN flushQ' : j # k => flushQ'[j].items \intersect flushQ'[k].items = {}
    <2>1. flushQ \in Seq(Batch) /\ outbox \in Batch
      BY DEF TypeOK
    <2>2. /\ \A j, k \in DOMAIN flushQ : j # k => flushQ[j].items \intersect flushQ[k].items = {}
          /\ outbox.items \intersect ItemsOf(flushQ) = {}
      BY <1>3 DEF OnePlace
    <2> QED
      BY <1>1, <1>3, <2>1, <2>2, ItemsAppend
  <1>5. Elems(ch)' = Elems(ch) /\ AllInFlight' = AllInFlight
        /\ \A w \in Flusher : InFlight(w)' = InFlight(w)
    BY <1>1 DEF Elems, AllInFlight, InFlight
  <1>6. Pipeline' = Pipeline
    BY <1>1, <1>2, <1>4, <1>5 DEF Pipeline
  <1>7. TypeOK'
    <2>1. Len(flushQ') <= FlushQCap
      <3>1. FlushQCap \in Nat
        BY ConsumerAssumption, FS_CardinalityType DEF FlushQCap
      <3>2. Len(flushQ) \in Nat
        BY DEF TypeOK
      <3> QED
        BY <1>1, <1>4, <3>1, <3>2
    <2> QED
      BY <1>1, <1>2, <1>4, <2>1, HandlersUnchanged DEF TypeOK
  <1>8. Shape'
    BY <1>1, <1>6, HandlersUnchanged DEF Shape
  <1>9. OnePlace'
    <2>1. AddingAt({"send", "release", "drop"})' \intersect Pipeline' = {}
      BY <1>1, <1>6, HandlersUnchanged DEF OnePlace
    <2>2. /\ Elems(ch)' \intersect (batch' \union outbox'.items \union QueuedItems' \union AllInFlight') = {}
          /\ batch' \intersect (outbox'.items \union QueuedItems' \union AllInFlight') = {}
          /\ outbox'.items \intersect (QueuedItems' \union AllInFlight') = {}
          /\ QueuedItems' \intersect AllInFlight' = {}
      BY <1>1, <1>2, <1>4, <1>5 DEF OnePlace
    <2> QED
      BY <1>1, <1>4, <1>5, <2>1, <2>2, HandlersUnchanged DEF OnePlace
  <1>10. SumsExact'
    <2>1. \A k \in DOMAIN flushQ' : flushQ'[k].bytes = BytesOf(flushQ'[k].items)
      BY <1>4 DEF SumsExact
    <2>2. outbox'.bytes = BytesOf(outbox'.items)
      BY <1>1, <1>2, BytesEmpty
    <2> QED
      BY <1>1, <1>5, <2>1, <2>2 DEF SumsExact
  <1>11. BytesExact' /\ AdmittedFit'
    BY <1>1, <1>6, HandlersUnchanged, MovedBytes
  <1> QED
    BY <1>7, <1>8, <1>9, <1>10, <1>11

\* An abandoned batch leaves the outbox with its bytes.
LEMMA GiveBackStep ==
  ASSUME ByteInv, GiveBack
  PROVE  ByteInv'
  <1> USE DEF ByteInv
  <1>1. /\ bufBytes' = bufBytes - outbox.bytes /\ outbox' = NoBatch /\ stage' = "idle"
        /\ UNCHANGED <<ch, batch, batchBytes, flushQ, flusher>>
        /\ UNCHANGED <<mode, closed, draining, dropped, writeFailed, receivers, cancelled,
                       fate, copies>>
        /\ UNCHANGED addVars
    BY DEF GiveBack, shutdownVars
  <1>2. NoBatch \in Batch /\ NoBatch.items = {} /\ NoBatch.bytes = 0
    BY DEF NoBatch, Batch
  <1>3. Elems(ch)' = Elems(ch) /\ QueuedItems' = QueuedItems /\ AllInFlight' = AllInFlight
        /\ \A w \in Flusher : InFlight(w)' = InFlight(w)
    BY <1>1 DEF Elems, QueuedItems, AllInFlight, InFlight
  <1>4. Pipeline' = Pipeline \ outbox.items
    BY <1>1, <1>2, <1>3 DEF Pipeline, OnePlace
  <1>5. AddingAt({"send", "release"}) \subseteq AddingAt({"send", "release", "drop"})
        /\ AddingAt({"send"}) \subseteq AddingAt({"send", "release", "drop"})
    BY DEF AddingAt
  <1>6. AddingAt({"send", "release"}) \intersect outbox.items = {}
    BY <1>5 DEF OnePlace, Pipeline
  <1>7. BytesExact' /\ AdmittedFit' /\ bufBytes' \in Nat
    <2>1. bufBytes' = bufBytes - BytesOf(outbox.items)
      BY <1>1 DEF SumsExact
    <2>2. (Pipeline \union AddingAt({"send", "release"}))'
            = (Pipeline \union AddingAt({"send", "release"})) \ outbox.items
      BY <1>1, <1>4, <1>6, HandlersUnchanged
    <2>3. (Pipeline \union AddingAt({"send"}))' \subseteq Pipeline \union AddingAt({"send"})
      BY <1>1, <1>4, HandlersUnchanged
    <2>4. outbox.items \subseteq Pipeline \union AddingAt({"send", "release"})
      BY DEF Pipeline
    <2> QED
      BY <2>1, <2>2, <2>3, <2>4, ReturnedBytes
  <1>8. TypeOK'
    BY <1>1, <1>2, <1>7, HandlersUnchanged DEF TypeOK
  <1>9. Shape'
    BY <1>1, <1>4, HandlersUnchanged DEF Shape
  <1>10. OnePlace'
    <2>1. AddingAt({"send", "release", "drop"})' \intersect Pipeline' = {}
      BY <1>1, <1>4, HandlersUnchanged DEF OnePlace
    <2> QED
      BY <1>1, <1>2, <1>3, <2>1, HandlersUnchanged DEF OnePlace
  <1>11. SumsExact'
    <2>1. outbox'.bytes = BytesOf(outbox'.items)
      BY <1>1, <1>2, BytesEmpty
    <2> QED
      BY <1>1, <1>3, <2>1 DEF SumsExact
  <1> QED
    BY <1>7, <1>8, <1>9, <1>10, <1>11

\* A flusher takes the oldest dispatched batch.
LEMMA TakeStep ==
  ASSUME ByteInv, NEW w \in Flusher, Take(w)
  PROVE  ByteInv'
  <1> USE DEF ByteInv
  <1> DEFINE b == Head(flushQ)
             r == [pc |-> "tries", batch |-> b, left |-> 0]
  <1>1. /\ flusher[w].pc = "take" /\ flushQ # <<>> /\ flushQ' = Tail(flushQ)
        /\ flusher' = [flusher EXCEPT ![w] = r]
        /\ UNCHANGED <<ch, batch, batchBytes, outbox, stage, bufBytes>>
        /\ UNCHANGED <<mode, closed, draining, dropped, writeFailed, receivers, cancelled,
                       fate, copies>>
        /\ UNCHANGED addVars
    BY DEF Take, loopVars, shutdownVars
  <1>2. /\ flushQ' \in Seq(Batch) /\ Len(flushQ') = Len(flushQ) - 1
        /\ b \in Batch /\ b.bytes = BytesOf(b.items)
        /\ b.items \subseteq QueuedItems
        /\ QueuedItems' = QueuedItems \ b.items
        /\ \A k \in DOMAIN flushQ' : k + 1 \in DOMAIN flushQ /\ flushQ'[k] = flushQ[k + 1]
        /\ \A j, k \in DOMAIN flushQ' : j # k => flushQ'[j].items \intersect flushQ'[k].items = {}
    <2>1. flushQ \in Seq(Batch) /\ flushQ # <<>>
          /\ \A j, k \in DOMAIN flushQ : j # k => flushQ[j].items \intersect flushQ[k].items = {}
      BY <1>1 DEF TypeOK, OnePlace
    <2>2. QueuedItems = ItemsOf(flushQ) /\ QueuedItems' = ItemsOf(flushQ')
      BY DEF QueuedItems, ItemsOf
    <2>3. 1 \in DOMAIN flushQ /\ b = flushQ[1]
      BY <2>1, ItemsTail
    <2>4. b.bytes = BytesOf(b.items)
      BY <2>3 DEF SumsExact
    <2> QED
      BY <1>1, <2>1, <2>2, <2>4, ItemsTail
  <1>3. flusher[w].batch = NoBatch /\ InFlight(w) = {}
    BY <1>1 DEF Shape, InFlight, NoBatch
  <1>4. r.pc = "tries" /\ r.batch = b /\ r \in FlusherState
    BY <1>2 DEF FlusherState, flushAttempts
  <1>5. \A v \in Flusher : flusher'[v] = IF v = w THEN r ELSE flusher[v]
    BY <1>1 DEF TypeOK
  <1>6. flusher' \in [Flusher -> FlusherState]
    BY <1>1, <1>4 DEF TypeOK
  <1> HIDE DEF r, b
  <1>7. AllInFlight' = AllInFlight \union b.items
    BY <1>3, <1>4, <1>5, FlightStep
  <1>8. \A v \in Flusher : InFlight(v)' = IF v = w THEN b.items ELSE InFlight(v)
    BY <1>4, <1>5 DEF InFlight
  <1>9. Elems(ch)' = Elems(ch)
    BY <1>1 DEF Elems
  <1>10. Pipeline' = Pipeline
    BY <1>1, <1>2, <1>7, <1>9 DEF Pipeline
  <1>11. TypeOK'
    <2>1. Len(flushQ') <= FlushQCap
      <3>1. FlushQCap \in Nat
        BY ConsumerAssumption, FS_CardinalityType DEF FlushQCap
      <3> QED
        BY <1>2, <3>1 DEF TypeOK
    <2> QED
      BY <1>1, <1>2, <1>6, <2>1, HandlersUnchanged DEF TypeOK
  <1>12. Shape'
    <2>1. \A v \in Flusher : flusher'[v].pc \in {"take", "done"} => flusher'[v].batch = NoBatch
      BY <1>4, <1>5 DEF Shape
    <2> QED
      BY <1>1, <1>10, <2>1, HandlersUnchanged DEF Shape
  <1>13. OnePlace'
    <2>1. AddingAt({"send", "release", "drop"})' \intersect Pipeline' = {}
      BY <1>1, <1>10, HandlersUnchanged DEF OnePlace
    <2>2. /\ Elems(ch)' \intersect (batch' \union outbox'.items \union QueuedItems' \union AllInFlight') = {}
          /\ batch' \intersect (outbox'.items \union QueuedItems' \union AllInFlight') = {}
          /\ outbox'.items \intersect (QueuedItems' \union AllInFlight') = {}
          /\ QueuedItems' \intersect AllInFlight' = {}
      BY <1>1, <1>2, <1>7, <1>9 DEF OnePlace
    <2>3. \A u, v \in Flusher : u # v => InFlight(u)' \intersect InFlight(v)' = {}
      <3>1. \A v \in Flusher : InFlight(v) \intersect b.items = {}
        BY <1>2 DEF OnePlace, AllInFlight
      <3> QED
        BY <1>8, <3>1 DEF OnePlace
    <2> QED
      BY <1>1, <1>2, <1>9, <2>1, <2>2, <2>3, HandlersUnchanged DEF OnePlace
  <1>14. SumsExact'
    <2>1. \A k \in DOMAIN flushQ' : flushQ'[k].bytes = BytesOf(flushQ'[k].items)
      BY <1>2 DEF SumsExact
    <2>2. \A v \in Flusher : flusher'[v].batch.bytes = BytesOf(InFlight(v)')
      BY <1>2, <1>4, <1>5, <1>8 DEF SumsExact
    <2> QED
      BY <1>1, <2>1, <2>2 DEF SumsExact
  <1>15. BytesExact' /\ AdmittedFit'
    BY <1>1, <1>10, HandlersUnchanged, MovedBytes
  <1> QED
    BY <1>11, <1>12, <1>13, <1>14, <1>15

\* A flusher done with its batch gives the bytes back.
LEMMA ReleaseStep ==
  ASSUME ByteInv, NEW w \in Flusher, Release(w)
  PROVE  ByteInv'
  <1> USE DEF ByteInv
  <1> DEFINE r == [pc |-> "take", batch |-> NoBatch, left |-> 0]
  <1>1. /\ bufBytes' = bufBytes - flusher[w].batch.bytes
        /\ flusher' = [flusher EXCEPT ![w] = r]
        /\ UNCHANGED <<ch, batch, batchBytes, outbox, stage, flushQ>>
        /\ UNCHANGED <<mode, closed, draining, dropped, writeFailed, receivers, cancelled,
                       fate, copies>>
        /\ UNCHANGED addVars
    BY DEF Release, loopVars, shutdownVars
  <1>2. NoBatch \in Batch /\ NoBatch.items = {} /\ NoBatch.bytes = 0
    BY DEF NoBatch, Batch
  <1>3. r.pc = "take" /\ r.batch = NoBatch /\ r \in FlusherState
    BY <1>2 DEF FlusherState, flushAttempts
  <1>4. \A v \in Flusher : flusher'[v] = IF v = w THEN r ELSE flusher[v]
    BY <1>1 DEF TypeOK
  <1>5. flusher' \in [Flusher -> FlusherState]
    BY <1>1, <1>3 DEF TypeOK
  <1> HIDE DEF r
  <1>6. AllInFlight' = AllInFlight \ InFlight(w)
    BY <1>2, <1>3, <1>4, FlightStep
  <1>7. \A v \in Flusher : InFlight(v)' = IF v = w THEN {} ELSE InFlight(v)
    BY <1>2, <1>3, <1>4 DEF InFlight
  <1>8. Elems(ch)' = Elems(ch) /\ QueuedItems' = QueuedItems
    BY <1>1 DEF Elems, QueuedItems
  <1>9. InFlight(w) \subseteq AllInFlight
    BY DEF AllInFlight
  <1>10. Pipeline' = Pipeline \ InFlight(w)
    BY <1>1, <1>6, <1>8, <1>9 DEF Pipeline, OnePlace
  <1>11. BytesExact' /\ AdmittedFit' /\ bufBytes' \in Nat
    <2>1. bufBytes' = bufBytes - BytesOf(InFlight(w))
      BY <1>1 DEF SumsExact
    <2>2. AddingAt({"send", "release"}) \subseteq AddingAt({"send", "release", "drop"})
      BY DEF AddingAt
    <2>3. AddingAt({"send", "release"}) \intersect InFlight(w) = {}
      BY <1>9, <2>2 DEF OnePlace, Pipeline
    <2>4. (Pipeline \union AddingAt({"send", "release"}))'
            = (Pipeline \union AddingAt({"send", "release"})) \ InFlight(w)
      BY <1>1, <1>10, <2>3, HandlersUnchanged
    <2>5. (Pipeline \union AddingAt({"send"}))' \subseteq Pipeline \union AddingAt({"send"})
      BY <1>1, <1>10, HandlersUnchanged
    <2>6. InFlight(w) \subseteq Pipeline \union AddingAt({"send", "release"})
      BY <1>9 DEF Pipeline
    <2> QED
      BY <2>1, <2>4, <2>5, <2>6, ReturnedBytes
  <1>12. TypeOK'
    BY <1>1, <1>5, <1>11, HandlersUnchanged DEF TypeOK
  <1>13. Shape'
    <2>1. \A v \in Flusher : flusher'[v].pc \in {"take", "done"} => flusher'[v].batch = NoBatch
      BY <1>3, <1>4 DEF Shape
    <2> QED
      BY <1>1, <1>10, <2>1, HandlersUnchanged DEF Shape
  <1>14. OnePlace'
    <2>1. AddingAt({"send", "release", "drop"})' \intersect Pipeline' = {}
      BY <1>1, <1>10, HandlersUnchanged DEF OnePlace
    <2>2. \A u, v \in Flusher : u # v => InFlight(u)' \intersect InFlight(v)' = {}
      BY <1>7 DEF OnePlace
    <2> QED
      BY <1>1, <1>6, <1>8, <2>1, <2>2, HandlersUnchanged DEF OnePlace
  <1>15. SumsExact'
    <2>1. \A v \in Flusher : flusher'[v].batch.bytes = BytesOf(InFlight(v)')
      BY <1>2, <1>3, <1>4, <1>7, BytesEmpty DEF SumsExact
    <2> QED
      BY <1>1, <2>1 DEF SumsExact
  <1> QED
    BY <1>11, <1>12, <1>13, <1>14, <1>15
\* Counters grow by the number of items in a batch.
LEMMA BatchCountType ==
  ASSUME NEW S \in SUBSET Item
  PROVE  Cardinality(S) \in Nat
  BY ByteAssumption, FS_Subset, FS_CardinalityType

\* The handler's two counting steps move no item.
LEMMA AddCounts ==
  ASSUME ByteInv, NEW p \in Producer, CountAccepted(p) \/ CountDropped(p)
  PROVE  ByteInv'
  <1> USE DEF ByteInv
  <1>1. /\ producer[p].pc \in {"accept", "drop"}
        /\ producer' = [producer EXCEPT ![p] = Idle]
        /\ accepted' \in Nat /\ dropped' \in Nat
        /\ UNCHANGED <<ch, batch, batchBytes, outbox, stage, flushQ, flusher, bufBytes, offered>>
        /\ UNCHANGED <<mode, closed, draining, writeFailed, receivers, cancelled, fate, copies>>
    BY DEF CountAccepted, CountDropped, TypeOK, loopVars, shutdownVars
  <1>2. Idle \in ProducerState
    BY DEF Idle, ProducerState
  <1>3. TypeOK'
    BY <1>1, <1>2 DEF TypeOK
  <1>4. \A q \in Producer : \/ producer'[q] = producer[q]
                             \/ /\ producer'[q] = Idle
                                /\ producer[q].pc \in {"accept", "drop"}
    <2>1. \A q \in Producer : producer'[q] = IF q = p THEN Idle ELSE producer[q]
      BY <1>1 DEF TypeOK
    <2> QED
      BY <1>1, <2>1
  <1> QED
    BY <1>1, <1>3, <1>4, QuietStep

\* The loop's steps that only change its control state, and the abandonment
\* of a batch, which counts it before its bytes are given back.
LEMMA LoopControl ==
  ASSUME ByteInv, BeginDrain \/ CloseFlushQ \/ HandOffCancelled \/ HandOffTimeout
  PROVE  ByteInv'
  <1> USE DEF ByteInv
  <1>1. /\ UNCHANGED <<ch, batch, batchBytes, outbox, flushQ, flusher, bufBytes>>
        /\ UNCHANGED <<writeFailed, receivers, cancelled, copies>> /\ UNCHANGED addVars
        /\ stage' \in {"idle", "send", "handoff", "giveback"}
        /\ mode' \in {"run", "drain", "close", "done"}
        /\ closed' \in BOOLEAN /\ draining' \in BOOLEAN
        /\ stage' = "idle" => stage = "idle"
    BY DEF BeginDrain, CloseFlushQ, HandOffCancelled, HandOffTimeout, TypeOK, shutdownVars
  <1>2. dropped' \in Nat
    <2>1. Cardinality(outbox.items) \in Nat
      BY PlacesAreItems, BatchCountType
    <2> QED
      BY <2>1 DEF BeginDrain, CloseFlushQ, HandOffCancelled, HandOffTimeout, TypeOK
  <1>3. fate' \in [Item -> Fate]
    BY DEF BeginDrain, CloseFlushQ, HandOffCancelled, HandOffTimeout, TypeOK, SetFate, Fate
  <1>4. TypeOK'
    BY <1>1, <1>2, <1>3, HandlersUnchanged DEF TypeOK
  <1> QED
    BY <1>1, <1>4, HandlersUnchanged, QuietStep

\* A flusher's steps between taking a batch and releasing it.
LEMMA FlusherQuiet ==
  ASSUME ByteInv, NEW w \in Flusher,
         GrantTries(w) \/ FlushOK(w) \/ FlushError(w) \/ CountFailed(w) \/ FlusherExit(w)
  PROVE  ByteInv'
  <1> USE DEF ByteInv
  <1>1. /\ UNCHANGED <<ch, batch, batchBytes, outbox, stage, flushQ, bufBytes>>
        /\ UNCHANGED <<mode, closed, draining, dropped, receivers, cancelled>>
        /\ UNCHANGED addVars
    BY DEF GrantTries, FlushOK, FlushError, CountFailed, FlusherExit, loopVars, shutdownVars
  <1>2. writeFailed' \in Nat
    <2>1. Cardinality(InFlight(w)) \in Nat
      BY PlacesAreItems, BatchCountType
    <2> QED
      BY <2>1 DEF GrantTries, FlushOK, FlushError, CountFailed, FlusherExit, TypeOK
  <1>3. fate' \in [Item -> Fate] /\ copies' \in [Item -> Nat]
    <2>1. fate \in [Item -> Fate] /\ copies \in [Item -> Nat]
      BY DEF TypeOK
    <2>2. \A S : Landed(S) => copies' \in [Item -> Nat]
      BY <2>1 DEF Landed
    <2>3. \A S : \A f \in Fate : SetFate(S, f) => fate' \in [Item -> Fate]
      BY <2>1 DEF SetFate
    <2>4. "written" \in Fate /\ "lost" \in Fate
      BY DEF Fate
    <2>5. CASE FlushOK(w)
      BY <2>2, <2>3, <2>4, <2>5 DEF FlushOK
    <2>6. CASE FlushError(w)
      BY <2>1, <2>2, <2>3, <2>4, <2>6 DEF FlushError
    <2>7. CASE GrantTries(w) \/ CountFailed(w) \/ FlusherExit(w)
      BY <2>1, <2>7 DEF GrantTries, CountFailed, FlusherExit
    <2> QED
      BY <2>5, <2>6, <2>7
  <1>4. flusher[w] \in FlusherState
    BY DEF TypeOK
  <1>5. \E r \in FlusherState : /\ flusher' = [flusher EXCEPT ![w] = r]
                                /\ r.batch = flusher[w].batch
                                /\ r.pc \in {"take", "done"} => flusher[w].pc \in {"take", "done"}
    <2>1. CASE FlushOK(w) \/ CountFailed(w)
      <3>1. [flusher[w] EXCEPT !.pc = "release"] \in FlusherState
        BY <1>4, <2>1 DEF FlusherState
      <3>2. /\ flusher' = [flusher EXCEPT ![w] = [flusher[w] EXCEPT !.pc = "release"]]
            /\ [flusher[w] EXCEPT !.pc = "release"].batch = flusher[w].batch
            /\ [flusher[w] EXCEPT !.pc = "release"].pc \in {"take", "done"} => flusher[w].pc \in {"take", "done"}
        BY <1>4, <2>1 DEF FlushOK, CountFailed, FlusherState, TypeOK
      <3> QED
        BY <3>1, <3>2
    <2>2. CASE FlushError(w) /\ flusher[w].left > 1
      <3>1. [flusher[w] EXCEPT !.left = @ - 1] \in FlusherState
        BY <1>4, <2>2 DEF FlusherState, flushAttempts
      <3>2. /\ flusher' = [flusher EXCEPT ![w] = [flusher[w] EXCEPT !.left = @ - 1]]
            /\ [flusher[w] EXCEPT !.left = @ - 1].batch = flusher[w].batch
            /\ [flusher[w] EXCEPT !.left = @ - 1].pc \in {"take", "done"} => flusher[w].pc \in {"take", "done"}
        BY <1>4, <2>2 DEF FlushError, FlusherState, TypeOK
      <3> QED
        BY <3>1, <3>2
    <2>3. CASE FlushError(w) /\ ~(flusher[w].left > 1)
      <3>1. [flusher[w] EXCEPT !.pc = "fail"] \in FlusherState
        BY <1>4, <2>3 DEF FlusherState
      <3>2. /\ flusher' = [flusher EXCEPT ![w] = [flusher[w] EXCEPT !.pc = "fail"]]
            /\ [flusher[w] EXCEPT !.pc = "fail"].batch = flusher[w].batch
            /\ [flusher[w] EXCEPT !.pc = "fail"].pc \in {"take", "done"} => flusher[w].pc \in {"take", "done"}
        BY <1>4, <2>3 DEF FlushError, FlusherState, TypeOK
      <3> QED
        BY <3>1, <3>2
    <2>4. CASE FlusherExit(w)
      <3>1. [flusher[w] EXCEPT !.pc = "done"] \in FlusherState
        BY <1>4, <2>4 DEF FlusherState
      <3>2. /\ flusher' = [flusher EXCEPT ![w] = [flusher[w] EXCEPT !.pc = "done"]]
            /\ [flusher[w] EXCEPT !.pc = "done"].batch = flusher[w].batch
            /\ [flusher[w] EXCEPT !.pc = "done"].pc \in {"take", "done"} => flusher[w].pc \in {"take", "done"}
        BY <1>4, <2>4 DEF FlusherExit, FlusherState, TypeOK
      <3> QED
        BY <3>1, <3>2
    <2>5. CASE GrantTries(w)
      <3> DEFINE n == IF draining THEN 1 ELSE flushAttempts
                 r == [pc |-> "flush", batch |-> flusher[w].batch, left |-> n]
      <3>1. n \in 0..flushAttempts
        BY DEF flushAttempts
      <3>2. r \in FlusherState
        BY <1>4, <3>1 DEF FlusherState
      <3>3. flusher' = [flusher EXCEPT ![w] = r]
        BY <1>4, <2>5 DEF GrantTries, FlusherState, TypeOK
      <3>4. /\ r.batch = flusher[w].batch
            /\ r.pc \in {"take", "done"} => flusher[w].pc \in {"take", "done"}
        OBVIOUS
      <3> HIDE DEF r
      <3> QED
        BY <3>2, <3>3, <3>4
    <2> QED
      BY <2>1, <2>2, <2>3, <2>4, <2>5
  <1>6. PICK r \in FlusherState : /\ flusher' = [flusher EXCEPT ![w] = r]
                                  /\ r.batch = flusher[w].batch
                                  /\ r.pc \in {"take", "done"} => flusher[w].pc \in {"take", "done"}
    BY <1>5
  <1>7. flusher' \in [Flusher -> FlusherState]
    BY <1>6 DEF TypeOK
  <1>8. \A v \in Flusher : flusher'[v] = IF v = w THEN r ELSE flusher[v]
    BY <1>6 DEF TypeOK
  <1>9. /\ \A v \in Flusher : flusher'[v].batch = flusher[v].batch
        /\ \A v \in Flusher : flusher'[v].pc \in {"take", "done"}
                               => flusher[v].pc \in {"take", "done"}
    BY <1>6, <1>8
  <1>10. TypeOK'
    BY <1>1, <1>2, <1>3, <1>7, HandlersUnchanged DEF TypeOK
  <1> QED
    BY <1>1, <1>9, <1>10, HandlersUnchanged, QuietStep

\* Teardown steps only set flags.
LEMMA TeardownQuiet ==
  ASSUME ByteInv, StopReceivers \/ StopDeadline \/ PipeCancel \/ UNCHANGED vars
  PROVE  ByteInv'
  <1> USE DEF ByteInv
  <1>1. /\ UNCHANGED <<ch, batch, batchBytes, outbox, stage, flushQ, bufBytes, flusher>>
        /\ UNCHANGED <<mode, closed, draining, dropped, writeFailed, fate, copies>>
        /\ UNCHANGED addVars
        /\ receivers' \in {"up", "down", "cut"} /\ cancelled' \in BOOLEAN
    BY DEF StopReceivers, StopDeadline, PipeCancel, vars, loopVars, addVars, TypeOK
  <1>2. TypeOK'
    BY <1>1, HandlersUnchanged DEF TypeOK
  <1> QED
    BY <1>1, <1>2, HandlersUnchanged, QuietStep

-----------------------------------------------------------------------------
(* The theorems.                                                           *)

\* The initial state satisfies the inductive invariant.
LEMMA InitBytes == Init => ByteInv
  <1> SUFFICES ASSUME Init PROVE ByteInv
    OBVIOUS
  <1> USE DEF Init
  <1>1. NoBatch \in Batch /\ NoBatch.items = {} /\ NoBatch.bytes = 0
    BY DEF NoBatch, Batch
  <1>2. FlushQCap \in Nat
    BY ConsumerAssumption, FS_CardinalityType DEF FlushQCap
  <1>3. TypeOK
    <2>1. /\ ch \in Seq(Item) /\ Len(ch) <= BufferSize
          /\ flushQ \in Seq(Batch) /\ Len(flushQ) <= FlushQCap
      BY <1>2, ConsumerAssumption
    <2>2. flusher \in [Flusher -> FlusherState]
      BY <1>1 DEF FlusherState, flushAttempts
    <2>3. producer \in [Producer -> ProducerState]
      BY DEF ProducerState, Idle
    <2>4. fate \in [Item -> Fate] /\ copies \in [Item -> Nat]
      BY DEF Fate
    <2> QED
      BY <1>1, <2>1, <2>2, <2>3, <2>4 DEF TypeOK
  <1>4. /\ Elems(ch) = {} /\ QueuedItems = {} /\ AllInFlight = {}
        /\ \A w \in Flusher : InFlight(w) = {} /\ flusher[w].batch = NoBatch
    BY <1>1 DEF Elems, QueuedItems, AllInFlight, InFlight
  <1>5. Pipeline = {} /\ \A pcs : AddingAt(pcs) = {}
    BY <1>1, <1>4 DEF Pipeline, AddingAt, Idle
  <1>6. Shape
    BY <1>1, <1>4, <1>5 DEF Shape, Idle
  <1>7. OnePlace
    <2>1. DOMAIN ch = {} /\ DOMAIN flushQ = {}
      OBVIOUS
    <2>2. \A p \in Producer : producer[p].arg = {}
      BY DEF Idle
    <2> QED
      BY <1>1, <1>4, <1>5, <2>1, <2>2 DEF OnePlace
  <1>8. SumsExact
    <2>1. DOMAIN flushQ = {}
      OBVIOUS
    <2> QED
      BY <1>1, <1>4, <2>1, BytesEmpty DEF SumsExact
  <1>9. BytesExact /\ AdmittedFit
    <2>1. \A pcs : Pipeline \union AddingAt(pcs) = {}
      BY <1>5
    <2>2. \A pcs : BytesOf(Pipeline \union AddingAt(pcs)) = 0
      BY <2>1, BytesEmpty
    <2>3. /\ BytesOf(Pipeline \union AddingAt({"send", "release"})) = 0
          /\ BytesOf(Pipeline \union AddingAt({"send"})) = 0
      BY <2>2
    <2>4. 0 <= ByteBudget
      BY ByteAssumption
    <2> QED
      BY <2>3, <2>4 DEF BytesExact, AdmittedFit
  <1> QED
    BY <1>3, <1>6, <1>7, <1>8, <1>9 DEF ByteInv

\* Every step preserves it.
LEMMA NextBytes == ByteInv /\ [Next]_vars => ByteInv'
  <1> SUFFICES ASSUME ByteInv, [Next]_vars PROVE ByteInv'
    OBVIOUS
  <1>1. ASSUME NEW p \in Producer, Add(p) PROVE ByteInv'
    <2>1. CASE \E i \in Item : Reserve(p, i)
      BY <2>1, ReserveStep
    <2>2. CASE Send(p)
      BY <2>2, SendStep
    <2>3. CASE CountAccepted(p) \/ CountDropped(p)
      BY <2>3, AddCounts
    <2>4. CASE Unreserve(p)
      BY <2>4, UnreserveStep
    <2> QED
      BY <1>1, <2>1, <2>2, <2>3, <2>4 DEF Add
  <1>2. ASSUME Loop PROVE ByteInv'
    <2>1. CASE Accumulate
      BY <2>1, AccumulateStep
    <2>2. CASE Tick \/ EndDrain
      <3>1. /\ stage = "idle" /\ Dispatch(batch, batchBytes)
            /\ UNCHANGED <<ch, flushQ, flusher, bufBytes>> /\ UNCHANGED addVars
            /\ UNCHANGED <<closed, draining, dropped, writeFailed, receivers, cancelled,
                           fate, copies>>
            /\ mode' \in {"run", "drain", "close", "done"}
        BY <2>2 DEF Tick, EndDrain, shutdownVars, ByteInv, TypeOK
      <3>2. /\ batch' \in SUBSET Item /\ batchBytes' \in Nat /\ outbox' \in Batch
            /\ stage' \in {"idle", "send", "handoff", "giveback"}
        BY <3>1 DEF Dispatch, ByteInv, TypeOK, Batch
      <3>3. TypeOK'
        BY <3>1, <3>2, HandlersUnchanged DEF ByteInv, TypeOK
      <3> QED
        BY <3>1, <3>3, DispatchStep
    <2>3. CASE BeginDrain \/ CloseFlushQ \/ HandOffCancelled \/ HandOffTimeout
      BY <2>3, LoopControl
    <2>4. CASE HandOff
      BY <2>4, HandOffStep
    <2>5. CASE GiveBack
      BY <2>5, GiveBackStep
    <2> QED
      BY <1>2, <2>1, <2>2, <2>3, <2>4, <2>5 DEF Loop
  <1>3. ASSUME NEW w \in Flusher, Flush(w) PROVE ByteInv'
    <2>1. CASE Take(w)
      BY <2>1, TakeStep
    <2>2. CASE GrantTries(w) \/ FlushOK(w) \/ FlushError(w) \/ CountFailed(w) \/ FlusherExit(w)
      BY <2>2, FlusherQuiet
    <2>3. CASE Release(w)
      BY <2>3, ReleaseStep
    <2> QED
      BY <1>3, <2>1, <2>2, <2>3 DEF Flush
  <1>4. CASE StopReceivers \/ StopDeadline \/ PipeCancel \/ Exited \/ UNCHANGED vars
    BY <1>4, TeardownQuiet DEF Exited
  <1> QED
    BY <1>1, <1>2, <1>3, <1>4 DEF Next

\* The inductive invariant holds throughout: one place per item, batch sums
\* exact, reservation exact.
THEOREM ConsumerByteInv == Spec => []ByteInv
  BY InitBytes, NextBytes, PTL DEF Spec

\* Type correctness of the consumer; in particular bufBytes never goes
\* negative, however releases and reservations interleave.
THEOREM ConsumerTypeOK == Spec => []TypeOK
  <1>1. ByteInv => TypeOK
    BY DEF ByteInv
  <1> QED
    BY <1>1, ConsumerByteInv, PTL

\* bufBytes equals the bytes in the pipeline plus those of Adds in progress:
\* the budget neither leaks shut nor opens wider, on any path out.
THEOREM ConsumerBytesExact == Spec => []BytesExact
  <1>1. ByteInv => BytesExact
    BY DEF ByteInv
  <1> QED
    BY <1>1, ConsumerByteInv, PTL

\* The items held never exceed ByteBudget, for any number of concurrent Adds.
THEOREM ConsumerWithinBudget == Spec => []WithinBudget
  <1>1. ByteInv => WithinBudget
    <2> SUFFICES ASSUME ByteInv, sizingEnabled PROVE BytesOf(Pipeline) <= ByteBudget
      BY DEF WithinBudget
    <2> DEFINE A == Pipeline \union AddingAt({"send"})
    <2>1. A \in SUBSET Item /\ Pipeline \in SUBSET A /\ Pipeline \in SUBSET Item
      BY PlacesAreItems DEF ByteInv
    <2>2. BytesOf(A) <= ByteBudget
      BY DEF ByteInv, AdmittedFit
    <2> HIDE DEF A
    <2>3. BytesOf(Pipeline) <= BytesOf(A) /\ BytesOf(Pipeline) \in Nat /\ BytesOf(A) \in Nat
      BY <2>1, BytesMonotone, BytesType
    <2> QED
      BY <2>2, <2>3, ByteAssumption
  <1> QED
    BY <1>1, ConsumerByteInv, PTL
=============================================================================

------------------------ MODULE ConsumerLedgerProofs ------------------------
(***************************************************************************)
(* The consumer loses nothing silently, its counters are exact, and it     *)
(* implements IngestLedger, for any number of handlers, flushers and       *)
(* items.                                                                  *)
(***************************************************************************)
EXTENDS ConsumerProofs

-----------------------------------------------------------------------------
(* The order of the teardown.                                              *)

\* No step of any goroutine breaks the order: main stops the receivers, the
\* loop drains and closes flushQ, and only then do flushers leave.
LEMMA NextTeardown == ByteInv /\ Teardown /\ [Next]_vars => Teardown'
  <1> SUFFICES ASSUME ByteInv, Teardown, [Next]_vars PROVE Teardown'
    OBVIOUS
  <1> USE DEF Teardown
  <1>0. /\ flusher \in [Flusher -> FlusherState] /\ producer \in [Producer -> ProducerState]
        /\ stage = "idle" => outbox = NoBatch
        /\ mode \in {"run", "drain", "close", "done"}
        /\ receivers \in {"up", "down", "cut"}
    BY DEF ByteInv, TypeOK, Shape
  <1>1. ASSUME NEW p \in Producer, Add(p) PROVE Teardown'
    <2>1. /\ UNCHANGED <<flushQ, flusher>> /\ UNCHANGED shutdownVars /\ UNCHANGED loopVars
      BY <1>1 DEF Add, Reserve, Send, CountAccepted, Unreserve, CountDropped
    <2>2. receivers # "down"
      <3>1. CASE \E i \in Item : Reserve(p, i)
        BY <3>1 DEF Reserve
      <3>2. CASE producer[p].pc # "idle"
        BY <3>2
      <3> QED
        BY <1>1, <3>1, <3>2 DEF Add, Send, CountAccepted, Unreserve, CountDropped
    <2> QED
      BY <2>1, <2>2 DEF loopVars, shutdownVars
  <1>2. ASSUME Loop PROVE Teardown'
    <2>1. UNCHANGED flusher /\ UNCHANGED shutdownVars /\ UNCHANGED addVars
      BY <1>2 DEF Loop, Accumulate, Tick, BeginDrain, EndDrain, CloseFlushQ, HandOff,
                  HandOffCancelled, HandOffTimeout, GiveBack
    <2>2. CASE Accumulate
      BY <2>1, <2>2 DEF Accumulate, shutdownVars, addVars
    <2>3. CASE Tick
      BY <2>1, <2>3 DEF Tick, shutdownVars, addVars
    <2>4. CASE BeginDrain
      BY <2>1, <2>4 DEF BeginDrain, shutdownVars, addVars
    <2>5. CASE EndDrain
      <3>1. batch' = {} /\ mode' = "close" /\ mode = "drain" /\ ch' = <<>>
            /\ UNCHANGED <<closed, flushQ>>
        BY <2>5 DEF EndDrain, Dispatch
      <3> QED
        BY <2>1, <3>1 DEF shutdownVars, addVars
    <2>6. CASE CloseFlushQ
      BY <2>1, <2>6 DEF CloseFlushQ, shutdownVars, addVars
    <2>7. CASE HandOff \/ HandOffCancelled \/ HandOffTimeout \/ GiveBack
      <3>1. /\ stage # "idle" /\ UNCHANGED <<ch, batch, mode, closed>>
        BY <2>7 DEF HandOff, HandOffCancelled, HandOffTimeout, GiveBack
      <3> QED
        BY <2>1, <3>1 DEF shutdownVars, addVars
    <2> QED
      BY <1>2, <2>2, <2>3, <2>4, <2>5, <2>6, <2>7 DEF Loop
  <1>3. ASSUME NEW w \in Flusher, Flush(w) PROVE Teardown'
    <2>1. /\ UNCHANGED <<ch, batch, stage, mode, closed, producer, receivers, cancelled>>
      BY <1>3 DEF Flush, Take, GrantTries, FlushOK, FlushError, CountFailed, Release,
                  FlusherExit, loopVars, shutdownVars, addVars
    <2>2. \/ UNCHANGED flushQ
          \/ flushQ # <<>>
      BY <1>3 DEF Flush, Take, GrantTries, FlushOK, FlushError, CountFailed, Release,
                  FlusherExit
    <2>3. \A v \in Flusher : flusher'[v].pc = "done" =>
            flusher[v].pc = "done" \/ (closed /\ flushQ = <<>> /\ UNCHANGED flushQ)
      BY <1>0, <1>3 DEF Flush, Take, GrantTries, FlushOK, FlushError, CountFailed, Release,
                  FlusherExit, FlusherState
    <2> QED
      BY <2>1, <2>2, <2>3
  <1>4. CASE StopReceivers \/ StopDeadline \/ PipeCancel \/ Exited \/ UNCHANGED vars
    BY <1>0, <1>4 DEF StopReceivers, StopDeadline, PipeCancel, Exited, vars, loopVars, addVars
  <1> QED
    BY <1>1, <1>2, <1>3, <1>4 DEF Next

-----------------------------------------------------------------------------
(* Counting items.                                                         *)

\* The items of two disjoint places are counted apart.
LEMMA CountJoin ==
  ASSUME NEW A \in SUBSET Item, NEW B \in SUBSET Item, A \intersect B = {}
  PROVE  /\ Cardinality(A \union B) = Cardinality(A) + Cardinality(B)
         /\ Cardinality(A) \in Nat /\ Cardinality(B) \in Nat
  <1>1. IsFiniteSet(A) /\ IsFiniteSet(B)
    BY ByteAssumption, FS_Subset
  <1>2. Cardinality(A \union B) = Cardinality(A) + Cardinality(B) - Cardinality(A \intersect B)
    BY <1>1, FS_Union
  <1>3. Cardinality(A \intersect B) = 0
    BY FS_EmptySet
  <1> QED
    BY <1>2, <1>3, BatchCountType

\* Items that leave a place are subtracted from its count.
LEMMA CountLeave ==
  ASSUME NEW A \in SUBSET Item, NEW B \in SUBSET A
  PROVE  /\ Cardinality(A) = Cardinality(A \ B) + Cardinality(B)
         /\ Cardinality(A \ B) \in Nat /\ Cardinality(B) \in Nat
  <1>1. A = (A \ B) \union B /\ (A \ B) \intersect B = {}
    OBVIOUS
  <1>2. Cardinality((A \ B) \union B) = Cardinality(A \ B) + Cardinality(B)
        /\ Cardinality(A \ B) \in Nat /\ Cardinality(B) \in Nat
    BY <1>1, CountJoin
  <1> QED
    BY <1>1, <1>2, Zenon

\* What a step of one flusher does to the items at some points of a flush.
LEMMA FlushingStep ==
  ASSUME OnePlace, NEW w \in Flusher, NEW r, NEW pcs,
         \A v \in Flusher : flusher'[v] = IF v = w THEN r ELSE flusher[v]
  PROVE  /\ flusher[w].pc \in pcs /\ r.pc \notin pcs
              => Flushing(pcs)' = Flushing(pcs) \ InFlight(w)
         /\ flusher[w].pc \notin pcs /\ r.pc \in pcs
              => /\ Flushing(pcs)' = Flushing(pcs) \union r.batch.items
                 /\ Flushing(pcs) \intersect InFlight(w) = {}
         /\ flusher[w].pc \notin pcs /\ r.pc \notin pcs
              => Flushing(pcs)' = Flushing(pcs)
         /\ flusher[w].pc \in pcs => InFlight(w) \subseteq Flushing(pcs)
  <1>1. \A u, v \in Flusher : u # v =>
          flusher[u].batch.items \intersect flusher[v].batch.items = {}
    BY DEF OnePlace, InFlight
  <1>2. Flushing(pcs)' =
           (Flushing(pcs) \ (IF flusher[w].pc \in pcs THEN InFlight(w) ELSE {}))
             \union (IF r.pc \in pcs THEN r.batch.items ELSE {})
    BY <1>1 DEF Flushing, InFlight
  <1>3. flusher[w].pc \in pcs => InFlight(w) \subseteq Flushing(pcs)
    BY DEF Flushing, InFlight
  <1>4. flusher[w].pc \notin pcs => Flushing(pcs) \intersect InFlight(w) = {}
    BY <1>1 DEF Flushing, InFlight
  <1> QED
    BY <1>2, <1>3, <1>4

\* The items at a point of a flush are items.
LEMMA FlushingAreItems ==
  ASSUME TypeOK, NEW pcs
  PROVE  Flushing(pcs) \in SUBSET Item
  <1>1. \A w \in Flusher : InFlight(w) \in SUBSET Item
    BY PlacesAreItems
  <1> QED
    BY <1>1 DEF Flushing

\* A step that changes no counter, no fate and no set of lagging goroutines
\* leaves the counters exact.
LEMMA CountersKept ==
  ASSUME CountersExact, UNCHANGED <<accepted, dropped, writeFailed, offered, fate>>,
         AddingAt({"release", "drop"})' = AddingAt({"release", "drop"}),
         AddingAt({"send", "accept"})' = AddingAt({"send", "accept"}),
         Flushing({"fail"})' = Flushing({"fail"})
  PROVE  CountersExact'
  BY DEF CountersExact, Settled

\* A step of a handler leaves the batches of the loop and the flushers alone.
LEMMA BatchesUnchanged ==
  ASSUME UNCHANGED <<flushQ, flusher>>
  PROVE  /\ QueuedItems' = QueuedItems /\ AllInFlight' = AllInFlight
         /\ \A w \in Flusher : InFlight(w)' = InFlight(w)
         /\ \A pcs : Flushing(pcs)' = Flushing(pcs)
  BY DEF QueuedItems, AllInFlight, Flushing, InFlight
-----------------------------------------------------------------------------
(* Fates and counters, handler by handler.                                 *)

\* The part of the invariant that each step below is shown to preserve.
FateInv == PlaceFate /\ StoreFate /\ CountersExact

\* An item of the pipeline is in one of its places.
LEMMA InPipeline ==
  /\ Elems(ch) \subseteq Pipeline /\ batch \subseteq Pipeline
  /\ outbox.items \subseteq Pipeline /\ QueuedItems \subseteq Pipeline
  /\ AllInFlight \subseteq Pipeline
  /\ \A w \in Flusher : InFlight(w) \subseteq Pipeline
  BY DEF Pipeline, AllInFlight

\* A step of handler p that decides nothing: its item enters no new place and
\* every fate stays.
LEMMA HandlerQuiet ==
  ASSUME ByteInv, FateInv, NEW p \in Producer,
         CountAccepted(p) \/ Unreserve(p) \/ CountDropped(p)
  PROVE  FateInv'
  <1> USE DEF FateInv
  <1> DEFINE r == IF producer[p].pc = "release" THEN [producer[p] EXCEPT !.pc = "drop"] ELSE Idle
  <1>1. /\ producer[p].pc \in {"accept", "release", "drop"}
        /\ producer' = [producer EXCEPT ![p] = r]
        /\ UNCHANGED <<ch, batch, outbox, stage, flushQ, flusher, writeFailed, offered, fate, copies>>
    BY DEF CountAccepted, Unreserve, CountDropped, loopVars, ByteInv, TypeOK, ProducerState
  <1>2. PICK i \in Item : producer[p].arg = {i}
    BY <1>1 DEF ByteInv, Shape
  <1>3. \A q \in Producer : producer'[q] = IF q = p THEN r ELSE producer[q]
    BY <1>1 DEF ByteInv, TypeOK
  <1>4. /\ producer[p].pc = "release" => r.pc = "drop" /\ r.arg = producer[p].arg
        /\ producer[p].pc # "release" => r.pc = "idle" /\ r.arg = {}
    BY DEF Idle, ByteInv, TypeOK, ProducerState
  <1> HIDE DEF r
  <1>5. Elems(ch)' = Elems(ch) /\ Pipeline' = Pipeline
    BY <1>1, BatchesUnchanged DEF Elems, Pipeline
  <1>6. AddingAt({"send"})' = AddingAt({"send"})
    <2>1. producer[p].pc \notin {"send"} /\ r.pc \notin {"send"}
      BY <1>1, <1>4
    <2> QED
      BY <1>3, <2>1, AddingStep DEF ByteInv
  <1>7. PlaceFate'
    <2>1. \A q \in Producer, j \in Item : j \in producer'[q].arg =>
            /\ producer'[q].pc = "send" => fate'[j] = "none"
            /\ producer'[q].pc \in {"release", "drop"} => fate'[j] = "refused"
      BY <1>1, <1>3, <1>4 DEF PlaceFate
    <2> QED
      BY <1>1, <1>5, <1>6, <2>1, BatchesUnchanged DEF PlaceFate
  <1>8. StoreFate'
    BY <1>1, BatchesUnchanged DEF StoreFate
  <1>9. CountersExact'
    <2>1. CASE producer[p].pc = "release"
      <3>1. /\ AddingAt({"release", "drop"})' = AddingAt({"release", "drop"})
            /\ AddingAt({"send", "accept"})' = AddingAt({"send", "accept"})
        BY <1>3, <1>4, <2>1, AddingStep DEF ByteInv
      <3>2. UNCHANGED <<accepted, dropped>>
        BY <2>1 DEF CountAccepted, Unreserve, CountDropped
      <3> QED
        BY <1>1, <3>1, <3>2, BatchesUnchanged, CountersKept
    <2>2. CASE producer[p].pc = "accept"
      <3> DEFINE A == AddingAt({"send", "accept"})
      <3>1. /\ AddingAt({"release", "drop"})' = AddingAt({"release", "drop"})
            /\ A' = A \ {i}
        BY <1>2, <1>3, <1>4, <2>2, AddingStep DEF ByteInv
      <3>2. accepted' = accepted + 1 /\ dropped' = dropped
        BY <2>2 DEF CountAccepted, Unreserve, CountDropped
      <3>3. A \in SUBSET Item /\ i \in A
        <4>1. i \in A
          BY <1>2, <2>2 DEF AddingAt
        <4> QED
          BY <4>1, PlacesAreItems DEF ByteInv
      <3> HIDE DEF A
      <3>4. Cardinality(A) = Cardinality(A \ {i}) + 1 /\ Cardinality(A \ {i}) \in Nat
        <4>1. Cardinality({i}) = 1
          BY FS_Singleton
        <4> QED
          BY <3>3, <4>1, CountLeave
      <3>5. accepted' + Cardinality(A') = accepted + Cardinality(A)
        BY <3>1, <3>2, <3>4 DEF ByteInv, TypeOK
      <3> QED
        BY <1>1, <3>1, <3>2, <3>5, BatchesUnchanged DEF CountersExact, Settled, A
    <2>3. CASE producer[p].pc = "drop"
      <3> DEFINE A == AddingAt({"release", "drop"})
      <3>1. /\ AddingAt({"send", "accept"})' = AddingAt({"send", "accept"})
            /\ A' = A \ {i}
        BY <1>2, <1>3, <1>4, <2>3, AddingStep DEF ByteInv
      <3>2. dropped' = dropped + 1 /\ accepted' = accepted
        BY <2>3 DEF CountAccepted, Unreserve, CountDropped
      <3>3. A \in SUBSET Item /\ i \in A
        <4>1. i \in A
          BY <1>2, <2>3 DEF AddingAt
        <4> QED
          BY <4>1, PlacesAreItems DEF ByteInv
      <3> HIDE DEF A
      <3>4. Cardinality(A) = Cardinality(A \ {i}) + 1 /\ Cardinality(A \ {i}) \in Nat
        <4>1. Cardinality({i}) = 1
          BY FS_Singleton
        <4> QED
          BY <3>3, <4>1, CountLeave
      <3>5. dropped' + Cardinality(A') = dropped + Cardinality(A)
        BY <3>1, <3>2, <3>4 DEF ByteInv, TypeOK
      <3> QED
        BY <1>1, <3>1, <3>2, <3>5, BatchesUnchanged DEF CountersExact, Settled, A
    <2> QED
      BY <1>1, <2>1, <2>2, <2>3
  <1> QED
    BY <1>7, <1>8, <1>9

\* What Reserve and a refused Send have in common: handler p's item i, in no
\* place of the pipeline and without a fate, is settled as refused.
LEMMA Refusal ==
  ASSUME ByteInv, FateInv, NEW p \in Producer, NEW i \in Item, NEW r,
         i \notin Pipeline, fate[i] = "none", i \in offered', offered' \subseteq offered \union {i},
         producer[p].arg \subseteq {i}, producer[p].pc \in {"idle", "send"},
         producer[p].pc = "idle" => i \notin offered /\ producer[p].arg = {},
         producer[p].pc = "send" => i \in producer[p].arg,
         \A q \in Producer : q # p => i \notin producer[q].arg,
         r.pc = "release", r.arg = {i},
         \A q \in Producer : producer'[q] = IF q = p THEN r ELSE producer[q],
         SetFate({i}, "refused"), offered \subseteq offered',
         UNCHANGED <<ch, batch, outbox, stage, flushQ, flusher, accepted, dropped, writeFailed,
                     copies>>
  PROVE  FateInv'
  <1> USE DEF FateInv
  <1>1. Elems(ch)' = Elems(ch) /\ Pipeline' = Pipeline
    BY BatchesUnchanged DEF Elems, Pipeline
  <1>2. /\ \A j \in Item : fate'[j] = IF j = i THEN "refused" ELSE fate[j]
        /\ Settled("refused")' = Settled("refused") \union {i}
        /\ Settled("abandoned")' = Settled("abandoned")
        /\ Settled("lost")' = Settled("lost")
        /\ i \notin Settled("refused") \union Settled("abandoned")
    <2>1. \A j \in Item : fate'[j] = IF j = i THEN "refused" ELSE fate[j]
      BY DEF SetFate
    <2> QED
      BY <2>1 DEF Settled
  <1>3. AddingAt({"send"})' = AddingAt({"send"}) \ {i}
    <2>1. CASE producer[p].pc = "idle"
      <3>0. OnePlace /\ producer[p].pc \notin {"send"} /\ r.pc \notin {"send"}
        BY <2>1 DEF ByteInv
      <3>1. AddingAt({"send"})' = AddingAt({"send"})
        BY <3>0, AddingStep, Zenon
      <3>2. i \notin AddingAt({"send"})
        BY <2>1 DEF AddingAt
      <3> QED
        BY <3>1, <3>2
    <2>2. CASE producer[p].pc = "send"
      <3>1. AddingAt({"send"})' = AddingAt({"send"}) \ producer[p].arg
        BY <2>2, AddingStep DEF ByteInv
      <3> QED
        BY <2>2, <3>1
    <2> QED
      BY <2>1, <2>2
  <1>4. PlaceFate'
    <2>1. \A q \in Producer, j \in Item : j \in producer'[q].arg =>
            /\ producer'[q].pc = "send" => fate'[j] = "none"
            /\ producer'[q].pc \in {"release", "drop"} => fate'[j] = "refused"
      BY <1>2 DEF PlaceFate
    <2>2. \A j \in Elems(ch) \union batch \union QueuedItems : fate'[j] = "none"
      <3>1. \A j \in Elems(ch) \union batch \union QueuedItems : j \in Item /\ j # i
        BY InPipeline, PlacesAreItems DEF ByteInv
      <3> QED
        BY <1>2, <3>1 DEF PlaceFate
    <2>3. \A j \in outbox.items : fate'[j] = IF stage = "giveback" THEN "abandoned" ELSE "none"
      <3>1. \A j \in outbox.items : j \in Item /\ j # i
        BY InPipeline, PlacesAreItems DEF ByteInv
      <3> QED
        BY <1>2, <3>1 DEF PlaceFate
    <2>4. \A w \in Flusher : i \notin InFlight(w)
      BY InPipeline
    <2>5. \A w \in Flusher, j \in Item : j \in InFlight(w) =>
            /\ flusher[w].pc \in {"tries", "flush"} => fate'[j] = "none"
            /\ flusher[w].pc = "fail" => fate'[j] = "lost"
            /\ flusher[w].pc = "release" => fate'[j] \in {"written", "lost"}
      BY <1>2, <2>4 DEF PlaceFate
    <2>6. \A j \in Item : IF j \in offered'
                     THEN fate'[j] = "none" => j \in Pipeline \union (AddingAt({"send"}) \ {i})
                     ELSE fate'[j] = "none"
      BY <1>2 DEF PlaceFate
    <2> QED
      BY <1>1, <1>3, <2>1, <2>2, <2>3, <2>5, <2>6, BatchesUnchanged DEF PlaceFate
  <1>5. StoreFate'
    <2>1. ~(copies[i] > 0)
      BY InPipeline DEF StoreFate
    <2> QED
      BY <1>2, <2>1, BatchesUnchanged DEF StoreFate
  <1>6. CountersExact'
    <2> DEFINE A == AddingAt({"release", "drop"})
               B == AddingAt({"send", "accept"})
               R == Settled("refused") \union Settled("abandoned")
               N == offered \ Settled("refused")
    <2>1. A' = A \union {i} /\ i \notin A
      <3>1. A' = A \union {i}
        BY AddingStep DEF ByteInv
      <3>2. i \notin A
        BY DEF AddingAt
      <3> QED
        BY <3>1, <3>2
    <2>2. R' = R \union {i} /\ i \notin R
      BY <1>2
    <2>3. A \in SUBSET Item /\ B \in SUBSET Item /\ R \in SUBSET Item /\ N \in SUBSET Item
      <3>1. A \in SUBSET Item /\ B \in SUBSET Item
        BY PlacesAreItems DEF ByteInv
      <3> QED
        BY <3>1 DEF Settled, ByteInv, TypeOK
    <2>4. \/ /\ B' = B /\ N' = N
          \/ /\ B' = B \ {i} /\ i \in B /\ N' = N \ {i} /\ i \in N
      <3>1. CASE producer[p].pc = "idle"
        <4>0. /\ OnePlace /\ producer[p].pc \notin {"send", "accept"}
              /\ r.pc \notin {"send", "accept"}
          BY <3>1 DEF ByteInv
        <4>1. B' = B
          BY <4>0, AddingStep, Zenon
        <4>2. N' = N
          BY <1>2, <3>1
        <4> QED
          BY <4>1, <4>2
      <3>2. CASE producer[p].pc = "send"
        <4>1. B' = B \ producer[p].arg
          BY <3>2, AddingStep DEF ByteInv
        <4>2. i \in offered
          BY <3>2 DEF ByteInv, Shape
        <4>3. i \in B
          BY <3>2 DEF AddingAt
        <4>4. N' = N \ {i} /\ i \in N
          BY <1>2, <4>2
        <4> QED
          BY <3>2, <4>1, <4>3, <4>4
      <3> QED
        BY <3>1, <3>2
    <2>5. /\ dropped + Cardinality(A) = Cardinality(R)
          /\ accepted + Cardinality(B) = Cardinality(N)
          /\ writeFailed + Cardinality(Flushing({"fail"})) = Cardinality(Settled("lost"))
      BY DEF CountersExact
    <2> HIDE DEF A, B, R, N
    <2>6. Cardinality({i}) = 1
      BY FS_Singleton
    <2>7. dropped' + Cardinality(A') = Cardinality(R')
      <3>1. /\ Cardinality(A \union {i}) = Cardinality(A) + 1 /\ Cardinality(A) \in Nat
            /\ Cardinality(R \union {i}) = Cardinality(R) + 1 /\ Cardinality(R) \in Nat
        BY <2>1, <2>2, <2>3, <2>6, CountJoin
      <3> QED
        BY <2>1, <2>2, <2>5, <3>1 DEF ByteInv, TypeOK
    <2>8. accepted' + Cardinality(B') = Cardinality(N')
      <3>1. CASE B' = B /\ N' = N
        BY <2>5, <3>1
      <3>2. CASE B' = B \ {i} /\ i \in B /\ N' = N \ {i} /\ i \in N
        <4>1. {i} \in SUBSET B /\ {i} \in SUBSET N
          BY <3>2
        <4>2. Cardinality(B) = Cardinality(B \ {i}) + 1 /\ Cardinality(B \ {i}) \in Nat
          BY <2>3, <2>6, <4>1, CountLeave
        <4>3. Cardinality(N) = Cardinality(N \ {i}) + 1 /\ Cardinality(N \ {i}) \in Nat
          BY <2>3, <2>6, <4>1, CountLeave
        <4>4. Cardinality(B') = Cardinality(B \ {i}) /\ Cardinality(N') = Cardinality(N \ {i})
          BY <3>2
        <4>5. accepted \in Nat /\ accepted' = accepted
          BY DEF ByteInv, TypeOK
        <4> QED
          BY <2>5, <4>2, <4>3, <4>4, <4>5
      <3> QED
        BY <2>4, <3>1, <3>2
    <2>9. writeFailed' + Cardinality(Flushing({"fail"})') = Cardinality(Settled("lost")')
      BY <1>2, <2>5, BatchesUnchanged
    <2> QED
      BY <2>7, <2>8, <2>9 DEF CountersExact, A, B, R, N
  <1> QED
    BY <1>4, <1>5, <1>6

\* Reserve: an item within the budget goes on to the send undecided and
\* counted as on its way; one over it is refused.
LEMMA ReserveFate ==
  ASSUME ByteInv, FateInv, NEW p \in Producer, NEW i \in Item, Reserve(p, i)
  PROVE  FateInv'
  <1> DEFINE over == sizingEnabled /\ bufBytes + sizeOf(i) > ByteBudget
             r == [pc |-> IF over THEN "release" ELSE "send", arg |-> {i}]
  <1>1. /\ producer[p].pc = "idle" /\ i \notin offered
        /\ offered' = offered \union {i}
        /\ producer' = [producer EXCEPT ![p] = r]
        /\ IF over THEN SetFate({i}, "refused") ELSE UNCHANGED fate
        /\ UNCHANGED <<ch, batch, outbox, stage, flushQ, flusher, accepted, dropped, writeFailed,
                       copies>>
    BY DEF Reserve, loopVars
  <1>2. \A q \in Producer : producer'[q] = IF q = p THEN r ELSE producer[q]
    BY <1>1 DEF ByteInv, TypeOK
  <1>3. i \notin Pipeline /\ fate[i] = "none" /\ \A q \in Producer : i \notin producer[q].arg
    BY <1>1 DEF ByteInv, Shape, FateInv, PlaceFate
  <1>4. producer[p].arg = {}
    BY <1>1 DEF ByteInv, Shape
  <1>5. r.arg = {i} /\ r.pc = IF over THEN "release" ELSE "send"
    OBVIOUS
  <1> HIDE DEF r, over
  <1>6. CASE over
    BY <1>1, <1>2, <1>3, <1>4, <1>5, <1>6, Refusal
  <1>7. CASE ~over
    <2>1. r.pc = "send" /\ UNCHANGED fate
      BY <1>1, <1>5, <1>7
    <2>2. OnePlace
      BY DEF ByteInv
    <2>3. /\ AddingAt({"send"})' = AddingAt({"send"}) \union {i}
          /\ AddingAt({"send", "accept"})' = AddingAt({"send", "accept"}) \union {i}
      <3>1. ASSUME NEW pcs, "idle" \notin pcs, "send" \in pcs
            PROVE  AddingAt(pcs)' = AddingAt(pcs) \union {i}
        BY <3>1, <1>1, <1>2, <1>5, <2>1, <2>2, AddingStep
      <3> QED
        BY <3>1
    <2>4. AddingAt({"release", "drop"})' = AddingAt({"release", "drop"})
      <3>1. producer[p].pc \notin {"release", "drop"} /\ r.pc \notin {"release", "drop"}
        BY <1>1, <2>1
      <3> QED
        BY <1>2, <2>2, <3>1, AddingStep, Zenon
    <2>5. Elems(ch)' = Elems(ch) /\ Pipeline' = Pipeline
      BY <1>1, BatchesUnchanged DEF Elems, Pipeline
    <2>6. PlaceFate'
      <3>1. \A q \in Producer, j \in Item : j \in producer'[q].arg =>
              /\ producer'[q].pc = "send" => fate'[j] = "none"
              /\ producer'[q].pc \in {"release", "drop"} => fate'[j] = "refused"
        BY <1>2, <1>3, <1>5, <2>1 DEF FateInv, PlaceFate
      <3> QED
        BY <1>1, <2>1, <2>3, <2>5, <3>1, BatchesUnchanged DEF FateInv, PlaceFate
    <2>7. StoreFate'
      BY <1>1, <2>1, BatchesUnchanged DEF FateInv, StoreFate
    <2>8. CountersExact'
      <3> DEFINE B == AddingAt({"send", "accept"})
                 N == offered \ Settled("refused")
      <3>1. B \in SUBSET Item /\ N \in SUBSET Item /\ {i} \in SUBSET Item
        <4>1. B \in SUBSET Item
          BY PlacesAreItems DEF ByteInv
        <4> QED
          BY <4>1 DEF ByteInv, TypeOK
      <3>2. i \notin B /\ i \notin N
        BY <1>1, <1>3 DEF AddingAt
      <3>3. B' = B \union {i}
        BY <2>3
      <3>4. N' = N \union {i}
        BY <1>1, <1>3, <2>1 DEF Settled
      <3>5. accepted + Cardinality(B) = Cardinality(N)
        BY DEF FateInv, CountersExact
      <3> HIDE DEF B, N
      <3>6. Cardinality({i}) = 1
        BY FS_Singleton
      <3>7. Cardinality(B \union {i}) = Cardinality(B) + 1 /\ Cardinality(B) \in Nat
        BY <3>1, <3>2, <3>6, CountJoin
      <3>8. Cardinality(N \union {i}) = Cardinality(N) + 1 /\ Cardinality(N) \in Nat
        BY <3>1, <3>2, <3>6, CountJoin
      <3>9. accepted' + Cardinality(B') = Cardinality(N')
        BY <1>1, <3>3, <3>4, <3>5, <3>7, <3>8 DEF ByteInv, TypeOK
      <3> QED
        BY <1>1, <2>1, <2>4, <3>9, BatchesUnchanged DEF FateInv, CountersExact, Settled, B, N
    <2> QED
      BY <2>6, <2>7, <2>8 DEF FateInv
  <1> QED
    BY <1>6, <1>7

\* Send: the item moves into ch undecided, or is refused when ch is full.
LEMMA SendFate ==
  ASSUME ByteInv, FateInv, NEW p \in Producer, Send(p)
  PROVE  FateInv'
  <1>1. PICK i \in Item : producer[p].arg = {i}
    BY DEF Send, ByteInv, Shape
  <1>2. /\ producer[p].pc = "send"
        /\ UNCHANGED <<batch, outbox, stage, flushQ, flusher, offered, accepted, dropped,
                       writeFailed, copies>>
    BY DEF Send, loopVars
  <1>3. OnePlace /\ i \in AddingAt({"send", "release", "drop"})
    BY <1>1, <1>2 DEF ByteInv, AddingAt
  <1>4. /\ i \notin Pipeline /\ fate[i] = "none" /\ i \in offered
        /\ \A q \in Producer : q # p => i \notin producer[q].arg
    BY <1>1, <1>2, <1>3 DEF OnePlace, ByteInv, Shape, FateInv, PlaceFate
  <1>5. CASE Len(ch) < BufferSize
    <2> DEFINE r == [producer[p] EXCEPT !.pc = "accept"]
    <2>1. ch' = Append(ch, i) /\ fate' = fate
          /\ producer' = [producer EXCEPT ![p].pc = "accept"]
      BY <1>1, <1>5, ConsumerAssumption DEF Send, ByteInv, TypeOK
    <2>2. r.pc = "accept" /\ r.arg = {i}
      BY <1>1 DEF ByteInv, TypeOK, ProducerState
    <2>3. \A q \in Producer : producer'[q] = IF q = p THEN r ELSE producer[q]
      BY <2>1 DEF ByteInv, TypeOK
    <2> HIDE DEF r
    <2>4. Elems(ch)' = Elems(ch) \union {i}
      BY <2>1, ElemsAppend DEF ByteInv, TypeOK
    <2>5. Pipeline' = Pipeline \union {i}
      BY <1>2, <2>4, BatchesUnchanged DEF Pipeline
    <2>6. AddingAt({"send"})' = AddingAt({"send"}) \ {i}
      <3>1. producer[p].pc \in {"send"} /\ r.pc \notin {"send"}
        BY <1>2, <2>2
      <3> QED
        BY <1>1, <1>3, <2>3, <3>1, AddingStep
    <2>7. AddingAt({"send", "accept"})' = AddingAt({"send", "accept"})
      <3>1. producer[p].pc \in {"send", "accept"} /\ r.pc \in {"send", "accept"}
            /\ r.arg = producer[p].arg
        BY <1>1, <1>2, <2>2
      <3> QED
        BY <1>3, <2>3, <3>1, AddingStep, Zenon
    <2>8. AddingAt({"release", "drop"})' = AddingAt({"release", "drop"})
      <3>1. producer[p].pc \notin {"release", "drop"} /\ r.pc \notin {"release", "drop"}
        BY <1>2, <2>2
      <3> QED
        BY <1>3, <2>3, <3>1, AddingStep, Zenon
    <2>9. PlaceFate'
      <3>1. \A q \in Producer, j \in Item : j \in producer'[q].arg =>
              /\ producer'[q].pc = "send" => fate'[j] = "none"
              /\ producer'[q].pc \in {"release", "drop"} => fate'[j] = "refused"
        BY <2>1, <2>2, <2>3 DEF FateInv, PlaceFate
      <3> QED
        BY <1>2, <1>4, <2>1, <2>4, <2>5, <2>6, <3>1, BatchesUnchanged DEF FateInv, PlaceFate
    <2>10. StoreFate'
      BY <1>2, <2>1, BatchesUnchanged DEF FateInv, StoreFate
    <2>11. CountersExact'
      BY <1>2, <2>1, <2>7, <2>8, BatchesUnchanged, CountersKept DEF FateInv
    <2> QED
      BY <2>9, <2>10, <2>11 DEF FateInv
  <1>6. CASE Len(ch) >= BufferSize
    <2> DEFINE r == [producer[p] EXCEPT !.pc = "release"]
    <2>1. ch' = ch /\ SetFate({i}, "refused")
          /\ producer' = [producer EXCEPT ![p].pc = "release"]
      BY <1>1, <1>6, ConsumerAssumption DEF Send, ByteInv, TypeOK
    <2>2. r.pc = "release" /\ r.arg = {i}
      BY <1>1 DEF ByteInv, TypeOK, ProducerState
    <2>3. \A q \in Producer : producer'[q] = IF q = p THEN r ELSE producer[q]
      BY <2>1 DEF ByteInv, TypeOK
    <2> HIDE DEF r
    <2> QED
      BY <1>1, <1>2, <1>4, <2>1, <2>2, <2>3, Refusal
  <1>7. Len(ch) \in Nat
    BY DEF ByteInv, TypeOK
  <1> QED
    BY <1>5, <1>6, <1>7, ConsumerAssumption
-----------------------------------------------------------------------------
(* Fates and counters, the loop.                                           *)

\* A step of the loop that decides no fate: what it moves is undecided, and
\* nothing undecided leaves the pipeline.
LEMMA LoopMove ==
  ASSUME ByteInv, FateInv, UNCHANGED <<flusher, fate, copies, dropped, writeFailed>>,
         UNCHANGED addVars,
         \A i \in (Elems(ch) \union batch \union QueuedItems)' : fate[i] = "none",
         \A i \in outbox'.items : fate[i] = IF stage' = "giveback" THEN "abandoned" ELSE "none",
         \A i \in Pipeline : fate[i] = "none" => i \in Pipeline'
  PROVE  FateInv'
  <1>1. /\ \A w \in Flusher : InFlight(w)' = InFlight(w)
        /\ Flushing({"fail"})' = Flushing({"fail"})
    BY DEF Flushing, InFlight
  <1>2. PlaceFate'
    <2>1. \A i \in Item : IF i \in offered
                     THEN fate[i] = "none" => i \in Pipeline' \union AddingAt({"send"})
                     ELSE fate[i] = "none"
      BY DEF FateInv, PlaceFate
    <2> QED
      BY <1>1, <2>1, HandlersUnchanged DEF FateInv, PlaceFate
  <1>3. StoreFate'
    BY <1>1 DEF FateInv, StoreFate
  <1>4. CountersExact'
    BY <1>1, HandlersUnchanged, CountersKept DEF FateInv
  <1> QED
    BY <1>2, <1>3, <1>4 DEF FateInv

\* Accumulate moves the head of ch into the batch, and a full batch into the
\* empty outbox.
LEMMA AccumulateFate ==
  ASSUME ByteInv, FateInv, Accumulate
  PROVE  FateInv'
  <1>1. /\ stage = "idle" /\ ch # <<>> /\ ch' = Tail(ch)
        /\ UNCHANGED <<flushQ, flusher, fate, copies, dropped, writeFailed>>
        /\ UNCHANGED addVars
    BY DEF Accumulate
  <1>2. /\ Elems(ch)' = Elems(ch) \ {Head(ch)} /\ Head(ch) \in Elems(ch)
    BY <1>1, ElemsTail DEF ByteInv, TypeOK, OnePlace
  <1>3. outbox.items = {}
    BY <1>1 DEF ByteInv, Shape, NoBatch
  <1>4. \/ /\ batch' = {} /\ outbox'.items = batch \union {Head(ch)} /\ stage' = "send"
        \/ /\ batch' = batch \union {Head(ch)} /\ outbox' = outbox /\ stage' = stage
    <2>1. CASE Cardinality(batch \union {Head(ch)}) >= BatchSize
      BY <2>1 DEF Accumulate, Dispatch
    <2>2. CASE ~(Cardinality(batch \union {Head(ch)}) >= BatchSize)
      BY <2>2 DEF Accumulate
    <2> QED
      BY <2>1, <2>2
  <1>5. \A i \in Elems(ch) \union batch \union QueuedItems : fate[i] = "none"
    BY DEF FateInv, PlaceFate
  <1>6. QueuedItems' = QueuedItems /\ AllInFlight' = AllInFlight
    BY <1>1, BatchesUnchanged
  <1>7. Pipeline' = Pipeline
    BY <1>2, <1>3, <1>4, <1>6 DEF Pipeline
  <1>8. \A i \in (Elems(ch) \union batch \union QueuedItems)' : fate[i] = "none"
    BY <1>2, <1>4, <1>5, <1>6
  <1>9. \A i \in outbox'.items : fate[i] = IF stage' = "giveback" THEN "abandoned" ELSE "none"
    BY <1>1, <1>2, <1>3, <1>4, <1>5
  <1> QED
    BY <1>1, <1>7, <1>8, <1>9, LoopMove

\* The ticker and the end of the drain move the batch into the outbox.
LEMMA DispatchFate ==
  ASSUME ByteInv, FateInv, Tick \/ EndDrain
  PROVE  FateInv'
  <1>1. /\ stage = "idle" /\ Dispatch(batch, batchBytes)
        /\ UNCHANGED <<ch, flushQ, flusher, fate, copies, dropped, writeFailed>>
        /\ UNCHANGED addVars
    BY DEF Tick, EndDrain
  <1>2. outbox.items = {}
    BY <1>1 DEF ByteInv, Shape, NoBatch
  <1>3. batch' = {} /\ outbox'.items = batch /\ stage' # "giveback"
    BY <1>1, <1>2 DEF Dispatch
  <1>4. \A i \in Elems(ch) \union batch \union QueuedItems : fate[i] = "none"
    BY DEF FateInv, PlaceFate
  <1>5. QueuedItems' = QueuedItems /\ AllInFlight' = AllInFlight /\ Elems(ch)' = Elems(ch)
    BY <1>1, BatchesUnchanged DEF Elems
  <1>6. Pipeline' = Pipeline
    BY <1>2, <1>3, <1>5 DEF Pipeline
  <1>7. \A i \in (Elems(ch) \union batch \union QueuedItems)' : fate[i] = "none"
    BY <1>3, <1>4, <1>5
  <1> QED
    BY <1>1, <1>3, <1>4, <1>6, <1>7, LoopMove

\* The loop's control steps move nothing.
LEMMA ControlFate ==
  ASSUME ByteInv, FateInv, BeginDrain \/ CloseFlushQ \/ HandOffCancelled
  PROVE  FateInv'
  <1>1. /\ UNCHANGED <<ch, batch, outbox, flushQ, flusher, fate, copies, dropped, writeFailed>>
        /\ UNCHANGED addVars
        /\ stage' = "giveback" <=> stage = "giveback"
    BY DEF BeginDrain, CloseFlushQ, HandOffCancelled
  <1>2. QueuedItems' = QueuedItems /\ AllInFlight' = AllInFlight /\ Elems(ch)' = Elems(ch)
    BY <1>1, BatchesUnchanged DEF Elems
  <1>3. Pipeline' = Pipeline
    BY <1>1, <1>2 DEF Pipeline
  <1>4. \A i \in (Elems(ch) \union batch \union QueuedItems)' : fate[i] = "none"
    BY <1>1, <1>2 DEF FateInv, PlaceFate
  <1>5. \A i \in outbox'.items : fate[i] = IF stage' = "giveback" THEN "abandoned" ELSE "none"
    BY <1>1 DEF FateInv, PlaceFate
  <1> QED
    BY <1>1, <1>3, <1>4, <1>5, LoopMove

\* HandOff moves the undecided outbox into flushQ.
LEMMA HandOffFate ==
  ASSUME ByteInv, FateInv, HandOff
  PROVE  FateInv'
  <1>1. /\ stage \in {"send", "handoff"} /\ flushQ' = Append(flushQ, outbox)
        /\ outbox' = NoBatch
        /\ UNCHANGED <<ch, batch, flusher, fate, copies, dropped, writeFailed>>
        /\ UNCHANGED addVars
    BY DEF HandOff
  <1>2. outbox'.items = {}
    BY <1>1 DEF NoBatch
  <1>3. QueuedItems' = QueuedItems \union outbox.items
    <2>1. flushQ \in Seq(Batch) /\ outbox \in Batch
      BY DEF ByteInv, TypeOK
    <2>2. ItemsOf(flushQ') = ItemsOf(flushQ) \union outbox.items
      BY <1>1, <2>1, ItemsAppend
    <2> QED
      BY <2>2 DEF QueuedItems, ItemsOf
  <1>4. AllInFlight' = AllInFlight /\ Elems(ch)' = Elems(ch)
    BY <1>1 DEF AllInFlight, InFlight, Elems
  <1>5. Pipeline' = Pipeline
    BY <1>1, <1>2, <1>3, <1>4 DEF Pipeline
  <1>6. \A i \in (Elems(ch) \union batch \union QueuedItems)' : fate[i] = "none"
    BY <1>1, <1>3, <1>4 DEF FateInv, PlaceFate
  <1> QED
    BY <1>1, <1>2, <1>5, <1>6, LoopMove

\* GiveBack forgets an outbox that is already counted as abandoned.
LEMMA GiveBackFate ==
  ASSUME ByteInv, FateInv, GiveBack
  PROVE  FateInv'
  <1>1. /\ stage = "giveback" /\ outbox' = NoBatch
        /\ UNCHANGED <<ch, batch, flushQ, flusher, fate, copies, dropped, writeFailed>>
        /\ UNCHANGED addVars
    BY DEF GiveBack
  <1>2. outbox'.items = {}
    BY <1>1 DEF NoBatch
  <1>3. QueuedItems' = QueuedItems /\ AllInFlight' = AllInFlight /\ Elems(ch)' = Elems(ch)
    BY <1>1, BatchesUnchanged DEF Elems
  <1>4. \A i \in outbox.items : fate[i] = "abandoned"
    BY <1>1 DEF FateInv, PlaceFate
  <1>5. \A i \in Pipeline : fate[i] = "none" => i \in Pipeline'
    BY <1>1, <1>2, <1>3, <1>4 DEF Pipeline
  <1>6. \A i \in (Elems(ch) \union batch \union QueuedItems)' : fate[i] = "none"
    BY <1>1, <1>3 DEF FateInv, PlaceFate
  <1> QED
    BY <1>1, <1>2, <1>5, <1>6, LoopMove

\* HandOffTimeout: the whole outbox is abandoned and counted as dropped.
LEMMA TimeoutFate ==
  ASSUME ByteInv, FateInv, HandOffTimeout
  PROVE  FateInv'
  <1> DEFINE S == outbox.items
  <1>1. /\ stage = "handoff" /\ stage' = "giveback"
        /\ dropped' = dropped + Cardinality(S) /\ SetFate(S, "abandoned")
        /\ UNCHANGED <<ch, batch, outbox, flushQ, flusher, copies, writeFailed>>
        /\ UNCHANGED addVars
    BY DEF HandOffTimeout
  <1>2. /\ S \in SUBSET Item /\ Elems(ch) \in SUBSET Item /\ batch \in SUBSET Item
        /\ QueuedItems \in SUBSET Item
    BY PlacesAreItems DEF ByteInv
  <1>3. \A i \in S : fate[i] = "none"
    BY <1>1 DEF FateInv, PlaceFate
  <1>4. \A i \in Item : fate'[i] = IF i \in S THEN "abandoned" ELSE fate[i]
    BY <1>1 DEF SetFate
  <1>5. /\ QueuedItems' = QueuedItems /\ AllInFlight' = AllInFlight /\ Elems(ch)' = Elems(ch)
        /\ \A w \in Flusher : InFlight(w)' = InFlight(w)
        /\ Flushing({"fail"})' = Flushing({"fail"})
    BY <1>1, BatchesUnchanged DEF Elems
  <1>6. Pipeline' = Pipeline
    BY <1>1, <1>5 DEF Pipeline
  <1>7. /\ S \intersect (Elems(ch) \union batch \union QueuedItems \union AllInFlight) = {}
        /\ AddingAt({"send", "release", "drop"}) \intersect S = {}
    BY InPipeline DEF ByteInv, OnePlace
  <1>8. \A p \in Producer : producer[p].pc \in {"send", "release", "drop"}
                              => producer[p].arg \intersect S = {}
    BY <1>7 DEF AddingAt
  <1> HIDE DEF S
  <1>9. PlaceFate'
    <2>1. \A i \in Elems(ch) \union batch \union QueuedItems : fate'[i] = "none"
      BY <1>2, <1>4, <1>7 DEF FateInv, PlaceFate
    <2>2. \A i \in S : fate'[i] = "abandoned"
      BY <1>2, <1>4
    <2>3. \A p \in Producer, i \in Item : i \in producer[p].arg =>
            /\ producer[p].pc = "send" => fate'[i] = "none"
            /\ producer[p].pc \in {"release", "drop"} => fate'[i] = "refused"
      BY <1>4, <1>8 DEF FateInv, PlaceFate
    <2>4. \A w \in Flusher : InFlight(w) \intersect S = {}
      BY <1>7 DEF AllInFlight
    <2>5. \A w \in Flusher, i \in Item : i \in InFlight(w) =>
            /\ flusher[w].pc \in {"tries", "flush"} => fate'[i] = "none"
            /\ flusher[w].pc = "fail" => fate'[i] = "lost"
            /\ flusher[w].pc = "release" => fate'[i] \in {"written", "lost"}
      BY <1>4, <2>4 DEF FateInv, PlaceFate
    <2>6. \A i \in Item : IF i \in offered
                     THEN fate'[i] = "none" => i \in Pipeline \union AddingAt({"send"})
                     ELSE fate'[i] = "none"
      <3>1. S \subseteq offered
        BY InPipeline DEF ByteInv, Shape, S
      <3> QED
        BY <1>4, <3>1 DEF FateInv, PlaceFate
    <2> QED
      BY <1>1, <1>5, <1>6, <2>1, <2>2, <2>3, <2>5, <2>6, HandlersUnchanged DEF PlaceFate, S
  <1>10. StoreFate'
    <2>1. ASSUME NEW i \in S PROVE ~(copies[i] > 0)
      <3>1. \A w \in Flusher : i \notin InFlight(w)
        BY <2>1, <1>7 DEF AllInFlight
      <3> QED
        BY <2>1, <1>2, <1>3, <3>1 DEF FateInv, StoreFate
    <2> QED
      BY <1>1, <1>4, <1>5, <2>1 DEF FateInv, StoreFate
  <1>11. CountersExact'
    <2> DEFINE R == Settled("refused") \union Settled("abandoned")
    <2>1. /\ R' = R \union S /\ R \intersect S = {}
          /\ Settled("refused")' = Settled("refused")
          /\ Settled("lost")' = Settled("lost")
      BY <1>2, <1>3, <1>4 DEF Settled
    <2>2. R \in SUBSET Item
      BY DEF Settled
    <2>3. dropped + Cardinality(AddingAt({"release", "drop"})) = Cardinality(R)
      BY DEF FateInv, CountersExact
    <2> HIDE DEF R
    <2>4. Cardinality(R \union S) = Cardinality(R) + Cardinality(S)
          /\ Cardinality(R) \in Nat /\ Cardinality(S) \in Nat
      BY <1>2, <2>1, <2>2, CountJoin
    <2>5. Cardinality(AddingAt({"release", "drop"})) \in Nat
      BY PlacesAreItems, BatchCountType DEF ByteInv
    <2>6. dropped' + Cardinality(AddingAt({"release", "drop"})') = Cardinality(R')
      BY <1>1, <2>1, <2>3, <2>4, <2>5, HandlersUnchanged DEF ByteInv, TypeOK
    <2> QED
      BY <1>1, <1>5, <2>1, <2>6, HandlersUnchanged DEF FateInv, CountersExact, R
  <1> QED
    BY <1>9, <1>10, <1>11 DEF FateInv
-----------------------------------------------------------------------------
(* Fates and counters, the flushers.                                       *)

\* A step of flusher w, other than an insert, that decides no fate: r is w's
\* new state.
LEMMA FlusherMove ==
  ASSUME ByteInv, FateInv, NEW w \in Flusher, NEW r,
         \A v \in Flusher : flusher'[v] = IF v = w THEN r ELSE flusher[v],
         flusher[w].pc # "flush",
         UNCHANGED <<ch, batch, outbox, stage, fate, copies, dropped>>, UNCHANGED addVars,
         QueuedItems' \subseteq QueuedItems,
         \A i \in Item : i \in r.batch.items =>
           /\ r.pc \in {"tries", "flush"} => fate[i] = "none"
           /\ r.pc = "fail" => fate[i] = "lost"
           /\ r.pc = "release" => fate[i] \in {"written", "lost"},
         \A i \in Pipeline : fate[i] = "none" => i \in Pipeline'
  PROVE  PlaceFate' /\ StoreFate'
  <1>1. Elems(ch)' = Elems(ch)
    BY DEF Elems
  <1>2. \A v \in Flusher : InFlight(v)' = IF v = w THEN r.batch.items ELSE InFlight(v)
    BY DEF InFlight
  <1>3. PlaceFate'
    <2>1. \A i \in Elems(ch) \union batch \union QueuedItems' : fate[i] = "none"
      BY DEF FateInv, PlaceFate
    <2>2. \A v \in Flusher, i \in Item : i \in InFlight(v)' =>
            /\ flusher'[v].pc \in {"tries", "flush"} => fate[i] = "none"
            /\ flusher'[v].pc = "fail" => fate[i] = "lost"
            /\ flusher'[v].pc = "release" => fate[i] \in {"written", "lost"}
      BY <1>2 DEF FateInv, PlaceFate
    <2>3. \A i \in Item : IF i \in offered
                     THEN fate[i] = "none" => i \in Pipeline' \union AddingAt({"send"})
                     ELSE fate[i] = "none"
      BY DEF FateInv, PlaceFate
    <2>4. \A i \in outbox.items : fate[i] = IF stage = "giveback" THEN "abandoned" ELSE "none"
      BY DEF FateInv, PlaceFate
    <2>5. \A p \in Producer, i \in Item : i \in producer[p].arg =>
            /\ producer[p].pc = "send" => fate[i] = "none"
            /\ producer[p].pc \in {"release", "drop"} => fate[i] = "refused"
      BY DEF FateInv, PlaceFate
    <2> QED
      BY <1>1, <2>1, <2>2, <2>3, <2>4, <2>5, HandlersUnchanged DEF PlaceFate
  <1>4. StoreFate'
    <2>1. \A v \in Flusher : flusher[v].pc = "flush" =>
            flusher'[v].pc = "flush" /\ InFlight(v)' = InFlight(v)
      BY <1>2
    <2> QED
      BY <2>1 DEF FateInv, StoreFate
  <1> QED
    BY <1>3, <1>4

\* Take moves the head of flushQ to flusher w, undecided.
LEMMA TakeFate ==
  ASSUME ByteInv, FateInv, NEW w \in Flusher, Take(w)
  PROVE  FateInv'
  <1> DEFINE r == [pc |-> "tries", batch |-> Head(flushQ), left |-> 0]
  <1>1. /\ flusher[w].pc = "take" /\ flushQ # <<>> /\ flushQ' = Tail(flushQ)
        /\ flusher' = [flusher EXCEPT ![w] = r]
        /\ UNCHANGED <<ch, batch, outbox, stage, fate, copies, dropped, writeFailed>>
        /\ UNCHANGED addVars
    BY DEF Take, loopVars
  <1>2. \A v \in Flusher : flusher'[v] = IF v = w THEN r ELSE flusher[v]
    BY <1>1 DEF ByteInv, TypeOK
  <1>3. r.pc = "tries" /\ r.batch = Head(flushQ)
    OBVIOUS
  <1> HIDE DEF r
  <1>4. /\ QueuedItems' = QueuedItems \ r.batch.items /\ r.batch.items \subseteq QueuedItems
    <2>1. flushQ \in Seq(Batch)
          /\ \A j, k \in DOMAIN flushQ : j # k => flushQ[j].items \intersect flushQ[k].items = {}
      BY DEF ByteInv, TypeOK, OnePlace
    <2>2. ItemsOf(flushQ') = ItemsOf(flushQ) \ Head(flushQ).items
          /\ Head(flushQ).items \subseteq ItemsOf(flushQ)
      BY <1>1, <2>1, ItemsTail
    <2> QED
      BY <1>3, <2>2 DEF QueuedItems, ItemsOf
  <1>5. InFlight(w) = {} /\ OnePlace
    BY <1>1 DEF ByteInv, Shape, InFlight, NoBatch
  <1>6. AllInFlight' = AllInFlight \union r.batch.items
    BY <1>2, <1>5, FlightStep
  <1>7. Pipeline' = Pipeline
    <2>1. Elems(ch)' = Elems(ch)
      BY <1>1 DEF Elems
    <2> QED
      BY <1>1, <1>4, <1>6, <2>1 DEF Pipeline
  <1>8. \A i \in r.batch.items : fate[i] = "none"
    BY <1>4 DEF FateInv, PlaceFate
  <1>9. PlaceFate' /\ StoreFate'
    BY <1>1, <1>2, <1>3, <1>4, <1>7, <1>8, FlusherMove
  <1>10. Flushing({"fail"})' = Flushing({"fail"})
    <2>1. flusher[w].pc \notin {"fail"} /\ r.pc \notin {"fail"}
      BY <1>1, <1>3
    <2> QED
      BY <1>2, <1>5, <2>1, FlushingStep, Zenon
  <1>11. CountersExact'
    BY <1>1, <1>10, HandlersUnchanged, CountersKept DEF FateInv
  <1> QED
    BY <1>9, <1>11 DEF FateInv

\* GrantTries, Release and FlusherExit: w keeps its batch, or forgets one
\* whose fate is decided.
LEMMA FlusherQuietFate ==
  ASSUME ByteInv, FateInv, NEW w \in Flusher, GrantTries(w) \/ Release(w) \/ FlusherExit(w)
  PROVE  FateInv'
  <1>0. flusher[w] \in FlusherState /\ OnePlace
    BY DEF ByteInv, TypeOK
  <1>1. /\ flusher[w].pc \in {"take", "tries", "release"}
        /\ UNCHANGED <<ch, batch, outbox, stage, flushQ, fate, copies, dropped, writeFailed>>
        /\ UNCHANGED addVars
    BY DEF GrantTries, Release, FlusherExit, loopVars
  <1>2. PICK r : /\ flusher' = [flusher EXCEPT ![w] = r]
                 /\ r.pc \in {"flush", "take", "done"}
                 /\ r.batch.items \subseteq InFlight(w)
                 /\ r.pc = "flush" => flusher[w].pc = "tries"
                 /\ flusher[w].pc # "release" => r.batch.items = InFlight(w)
    <2>1. CASE GrantTries(w)
      <3> DEFINE n == IF draining THEN 1 ELSE flushAttempts
                 g == [pc |-> "flush", batch |-> flusher[w].batch, left |-> n]
      <3>1. flusher' = [flusher EXCEPT ![w] = g] /\ flusher[w].pc = "tries"
        BY <2>1 DEF GrantTries
      <3>2. g.pc = "flush" /\ g.batch.items = InFlight(w)
        BY DEF InFlight
      <3> HIDE DEF g
      <3> QED
        BY <3>1, <3>2
    <2>2. CASE Release(w)
      BY <1>0, <2>2 DEF Release, InFlight, NoBatch
    <2>3. CASE FlusherExit(w)
      <3>1. flusher' = [flusher EXCEPT ![w] = [flusher[w] EXCEPT !.pc = "done"]]
            /\ [flusher[w] EXCEPT !.pc = "done"].pc = "done"
            /\ [flusher[w] EXCEPT !.pc = "done"].batch = flusher[w].batch
            /\ flusher[w].pc = "take"
        BY <1>0, <2>3 DEF FlusherExit, FlusherState, ByteInv, TypeOK
      <3> QED
        BY <3>1 DEF InFlight
    <2> QED
      BY <2>1, <2>2, <2>3
  <1>3. \A v \in Flusher : flusher'[v] = IF v = w THEN r ELSE flusher[v]
    BY <1>2 DEF ByteInv, TypeOK
  <1>4. QueuedItems' = QueuedItems /\ Elems(ch)' = Elems(ch)
    BY <1>1 DEF QueuedItems, Elems
  <1>5. AllInFlight' = (AllInFlight \ InFlight(w)) \union r.batch.items
    BY <1>0, <1>3, FlightStep
  <1>6. InFlight(w) \in SUBSET Item
    BY PlacesAreItems DEF ByteInv
  <1>7. /\ flusher[w].pc = "tries" => \A i \in InFlight(w) : fate[i] = "none"
        /\ flusher[w].pc = "release" => \A i \in InFlight(w) : fate[i] # "none"
    BY <1>6 DEF FateInv, PlaceFate
  <1>8. \A i \in Pipeline : fate[i] = "none" => i \in Pipeline'
    BY <1>1, <1>2, <1>4, <1>5, <1>7 DEF Pipeline
  <1>9. PlaceFate' /\ StoreFate'
    <2>1. \A i \in Item : i \in r.batch.items =>
           /\ r.pc \in {"tries", "flush"} => fate[i] = "none"
           /\ r.pc = "fail" => fate[i] = "lost"
           /\ r.pc = "release" => fate[i] \in {"written", "lost"}
      BY <1>2, <1>7
    <2>2. flusher[w].pc # "flush" /\ QueuedItems' \subseteq QueuedItems
      BY <1>1, <1>4
    <2> QED
      BY <1>1, <1>3, <1>8, <2>1, <2>2, FlusherMove
  <1>10. Flushing({"fail"})' = Flushing({"fail"})
    <2>1. flusher[w].pc \notin {"fail"} /\ r.pc \notin {"fail"}
      BY <1>1, <1>2
    <2> QED
      BY <1>0, <1>3, <2>1, FlushingStep, Zenon
  <1>11. CountersExact'
    BY <1>1, <1>10, HandlersUnchanged, CountersKept DEF FateInv
  <1> QED
    BY <1>9, <1>11 DEF FateInv

\* CountFailed: the lost batch is counted as its flusher leaves the failing
\* point.
LEMMA CountFailedFate ==
  ASSUME ByteInv, FateInv, NEW w \in Flusher, CountFailed(w)
  PROVE  FateInv'
  <1> DEFINE r == [flusher[w] EXCEPT !.pc = "release"]
  <1>0. flusher[w] \in FlusherState /\ OnePlace
    BY DEF ByteInv, TypeOK
  <1>1. /\ flusher[w].pc = "fail" /\ writeFailed' = writeFailed + Cardinality(InFlight(w))
        /\ flusher' = [flusher EXCEPT ![w].pc = "release"]
        /\ UNCHANGED <<ch, batch, outbox, stage, flushQ, fate, copies, dropped>>
        /\ UNCHANGED addVars
    BY DEF CountFailed, loopVars
  <1>2. \A v \in Flusher : flusher'[v] = IF v = w THEN r ELSE flusher[v]
    BY <1>1 DEF ByteInv, TypeOK
  <1>3. r.pc = "release" /\ r.batch = flusher[w].batch
    BY <1>0 DEF FlusherState
  <1> HIDE DEF r
  <1>4. QueuedItems' = QueuedItems /\ Elems(ch)' = Elems(ch)
    BY <1>1 DEF QueuedItems, Elems
  <1>5. AllInFlight' = AllInFlight
    BY <1>2, <1>3 DEF AllInFlight, InFlight
  <1>6. Pipeline' = Pipeline
    BY <1>1, <1>4, <1>5 DEF Pipeline
  <1>7. PlaceFate' /\ StoreFate'
    <2>1. \A i \in Item : i \in r.batch.items => fate[i] = "lost"
      BY <1>1, <1>3 DEF FateInv, PlaceFate, InFlight
    <2> QED
      BY <1>1, <1>2, <1>3, <1>4, <1>6, <2>1, FlusherMove
  <1>8. CountersExact'
    <2> DEFINE F == Flushing({"fail"})
    <2>1. F' = F \ InFlight(w) /\ InFlight(w) \in SUBSET F
      <3>1. flusher[w].pc \in {"fail"} /\ r.pc \notin {"fail"}
        BY <1>1, <1>3
      <3> QED
        BY <1>0, <1>2, <3>1, FlushingStep
    <2>2. F \in SUBSET Item
      BY FlushingAreItems DEF ByteInv
    <2>3. writeFailed + Cardinality(F) = Cardinality(Settled("lost"))
      BY DEF FateInv, CountersExact
    <2> HIDE DEF F
    <2>4. Cardinality(F) = Cardinality(F \ InFlight(w)) + Cardinality(InFlight(w))
          /\ Cardinality(F \ InFlight(w)) \in Nat /\ Cardinality(InFlight(w)) \in Nat
      BY <2>1, <2>2, CountLeave
    <2>5. writeFailed' + Cardinality(F') = Cardinality(Settled("lost"))
      BY <1>1, <2>1, <2>3, <2>4 DEF ByteInv, TypeOK
    <2> QED
      BY <1>1, <2>5, HandlersUnchanged DEF FateInv, CountersExact, Settled, F
  <1> QED
    BY <1>7, <1>8 DEF FateInv

\* A failed insert with tries left decides no fate: what it landed is in the
\* batch w is still inserting.
LEMMA InsertRetries ==
  ASSUME ByteInv, FateInv, NEW w \in Flusher, FlushError(w), flusher[w].left > 1
  PROVE  FateInv'
  <1> DEFINE r == [flusher[w] EXCEPT !.left = @ - 1]
  <1>0. flusher[w] \in FlusherState /\ OnePlace
    BY DEF ByteInv, TypeOK
  <1>1. /\ flusher[w].pc = "flush"
        /\ flusher' = [flusher EXCEPT ![w].left = @ - 1]
        /\ UNCHANGED <<ch, batch, outbox, stage, flushQ, fate, dropped, writeFailed>>
        /\ UNCHANGED addVars
    BY <1>0 DEF FlushError, loopVars, FlusherState, flushAttempts
  <1>2. \A v \in Flusher : flusher'[v] = IF v = w THEN r ELSE flusher[v]
    BY <1>1 DEF ByteInv, TypeOK
  <1>3. r.pc = "flush" /\ r.batch = flusher[w].batch
    BY <1>0, <1>1 DEF FlusherState
  <1> HIDE DEF r
  <1>4. \A v \in Flusher : flusher'[v].pc = flusher[v].pc /\ flusher'[v].batch = flusher[v].batch
    BY <1>1, <1>2, <1>3
  <1>5. /\ QueuedItems' = QueuedItems /\ Elems(ch)' = Elems(ch) /\ AllInFlight' = AllInFlight
        /\ \A v \in Flusher : InFlight(v)' = InFlight(v)
        /\ Flushing({"fail"})' = Flushing({"fail"})
    BY <1>1, <1>4 DEF QueuedItems, Elems, AllInFlight, InFlight, Flushing
  <1>6. Pipeline' = Pipeline
    BY <1>1, <1>5 DEF Pipeline
  <1>7. PlaceFate'
    BY <1>1, <1>4, <1>5, <1>6, HandlersUnchanged DEF FateInv, PlaceFate
  <1>8. StoreFate'
    <2>1. PICK L \in SUBSET InFlight(w) : Landed(L)
      BY DEF FlushError
    <2>2. \A i \in Item : copies'[i] > 0 => copies[i] > 0 \/ i \in InFlight(w)
      BY <2>1 DEF Landed
    <2>3. flusher'[w].pc = "flush"
      BY <1>1, <1>4
    <2> QED
      BY <1>1, <1>4, <1>5, <2>2, <2>3 DEF FateInv, StoreFate
  <1>9. CountersExact'
    BY <1>1, <1>5, HandlersUnchanged, CountersKept DEF FateInv
  <1> QED
    BY <1>7, <1>8, <1>9 DEF FateInv

\* The insert that ends the tries of flusher w's batch decides the whole
\* batch: written, or lost and due to be counted.
LEMMA InsertSettles ==
  ASSUME ByteInv, FateInv, NEW w \in Flusher, NEW f \in {"written", "lost"}, NEW r,
         NEW L \in SUBSET InFlight(w), Landed(L), SetFate(InFlight(w), f),
         flusher[w].pc = "flush",
         r.pc = IF f = "written" THEN "release" ELSE "fail", r.batch = flusher[w].batch,
         \A v \in Flusher : flusher'[v] = IF v = w THEN r ELSE flusher[v],
         UNCHANGED <<ch, batch, outbox, stage, flushQ, dropped, writeFailed>>,
         UNCHANGED addVars
  PROVE  FateInv'
  <1> DEFINE S == InFlight(w)
  <1>1. /\ S \in SUBSET Item /\ Elems(ch) \in SUBSET Item /\ batch \in SUBSET Item
        /\ outbox.items \in SUBSET Item /\ QueuedItems \in SUBSET Item
    BY PlacesAreItems DEF ByteInv
  <1>2. \A i \in S : fate[i] = "none"
    BY <1>1 DEF FateInv, PlaceFate
  <1>3. \A i \in Item : fate'[i] = IF i \in S THEN f ELSE fate[i]
    BY DEF SetFate
  <1>4. /\ QueuedItems' = QueuedItems /\ Elems(ch)' = Elems(ch) /\ AllInFlight' = AllInFlight
        /\ \A v \in Flusher : InFlight(v)' = InFlight(v)
    BY DEF QueuedItems, Elems, AllInFlight, InFlight
  <1>5. Pipeline' = Pipeline
    BY <1>4 DEF Pipeline
  <1>6. /\ S \intersect (Elems(ch) \union batch \union outbox.items \union QueuedItems) = {}
        /\ AddingAt({"send", "release", "drop"}) \intersect S = {}
        /\ \A v \in Flusher : v # w => InFlight(v) \intersect S = {}
    <2>1. S \subseteq AllInFlight
      BY DEF AllInFlight
    <2> QED
      BY <2>1, InPipeline DEF ByteInv, OnePlace
  <1>7. \A p \in Producer : producer[p].pc \in {"send", "release", "drop"}
                              => producer[p].arg \intersect S = {}
    BY <1>6 DEF AddingAt
  <1>8. S \subseteq offered
    BY InPipeline DEF ByteInv, Shape
  <1>9. \A i \in Item : copies'[i] > 0 => copies[i] > 0 \/ i \in S
    BY DEF Landed
  <1>10. InFlight(w) = S
    OBVIOUS
  <1> HIDE DEF S
  <1>11. PlaceFate'
    <2>1. \A i \in Elems(ch) \union batch \union QueuedItems : fate'[i] = "none"
      BY <1>1, <1>3, <1>6 DEF FateInv, PlaceFate
    <2>2. \A i \in outbox.items : fate'[i] = IF stage = "giveback" THEN "abandoned" ELSE "none"
      BY <1>1, <1>3, <1>6 DEF FateInv, PlaceFate
    <2>3. \A p \in Producer, i \in Item : i \in producer[p].arg =>
            /\ producer[p].pc = "send" => fate'[i] = "none"
            /\ producer[p].pc \in {"release", "drop"} => fate'[i] = "refused"
      BY <1>3, <1>7 DEF FateInv, PlaceFate
    <2>4. ASSUME NEW v \in Flusher, NEW i \in Item, i \in InFlight(v)
          PROVE  /\ flusher'[v].pc \in {"tries", "flush"} => fate'[i] = "none"
                 /\ flusher'[v].pc = "fail" => fate'[i] = "lost"
                 /\ flusher'[v].pc = "release" => fate'[i] \in {"written", "lost"}
      <3>1. CASE v = w
        BY <1>3, <1>10, <2>4, <3>1
      <3>2. CASE v # w
        BY <1>3, <1>6, <2>4, <3>2 DEF FateInv, PlaceFate
      <3> QED
        BY <3>1, <3>2
    <2>5. \A i \in Item : IF i \in offered
                     THEN fate'[i] = "none" => i \in Pipeline \union AddingAt({"send"})
                     ELSE fate'[i] = "none"
      BY <1>3, <1>8 DEF FateInv, PlaceFate
    <2> QED
      BY <1>4, <1>5, <2>1, <2>2, <2>3, <2>4, <2>5, HandlersUnchanged DEF PlaceFate
  <1>12. StoreFate'
    <2> SUFFICES ASSUME NEW i \in Item, copies'[i] > 0
                 PROVE  \/ fate'[i] \in {"written", "lost"}
                        \/ \E v \in Flusher : flusher'[v].pc = "flush" /\ i \in InFlight(v)'
      BY DEF StoreFate
    <2>1. CASE i \in S
      BY <1>3, <2>1
    <2>2. CASE i \notin S
      <3>1. fate'[i] = fate[i] /\ copies[i] > 0
        BY <1>3, <1>9, <2>2
      <3>2. \/ fate[i] \in {"written", "lost"}
            \/ \E v \in Flusher : flusher[v].pc = "flush" /\ i \in InFlight(v)
        BY <3>1 DEF FateInv, StoreFate
      <3> QED
        BY <1>4, <1>10, <2>2, <3>1, <3>2
    <2> QED
      BY <2>1, <2>2
  <1>13. CountersExact'
    <2> DEFINE F == Flushing({"fail"})
    <2>0. OnePlace
      BY DEF ByteInv
    <2>1. /\ Settled("refused")' = Settled("refused")
          /\ Settled("abandoned")' = Settled("abandoned")
          /\ f = "written" => Settled("lost")' = Settled("lost")
          /\ f = "lost" => Settled("lost")' = Settled("lost") \union S
          /\ Settled("lost") \intersect S = {}
      BY <1>1, <1>2, <1>3 DEF Settled
    <2>2. writeFailed + Cardinality(F) = Cardinality(Settled("lost"))
      BY DEF FateInv, CountersExact
    <2>3. writeFailed + Cardinality(F') = Cardinality(Settled("lost")')
      <3>1. CASE f = "written"
        <4>1. flusher[w].pc \notin {"fail"} /\ r.pc \notin {"fail"}
          BY <3>1
        <4>2. F' = F
          BY <2>0, <4>1, FlushingStep, Zenon
        <4> QED
          BY <2>1, <2>2, <3>1, <4>2
      <3>2. CASE f = "lost"
        <4>1. flusher[w].pc \notin {"fail"} /\ r.pc \in {"fail"} /\ r.batch.items = S
          BY <3>2, <1>10 DEF InFlight
        <4>2. F' = F \union S /\ F \intersect S = {}
          BY <1>10, <2>0, <4>1, FlushingStep
        <4>3. F \in SUBSET Item /\ Settled("lost") \in SUBSET Item
          <5>1. F \in SUBSET Item
            BY FlushingAreItems DEF ByteInv
          <5> QED
            BY <5>1 DEF Settled
        <4> HIDE DEF F
        <4>4. Cardinality(F \union S) = Cardinality(F) + Cardinality(S)
              /\ Cardinality(F) \in Nat /\ Cardinality(S) \in Nat
          BY <1>1, <4>2, <4>3, CountJoin
        <4>5. Cardinality(Settled("lost") \union S) = Cardinality(Settled("lost")) + Cardinality(S)
              /\ Cardinality(Settled("lost")) \in Nat
          BY <1>1, <2>1, <4>3, CountJoin
        <4>6. /\ Cardinality(F') = Cardinality(F) + Cardinality(S)
              /\ Cardinality(Settled("lost")') = Cardinality(Settled("lost")) + Cardinality(S)
          BY <2>1, <3>2, <4>2, <4>4, <4>5
        <4>7. writeFailed \in Nat /\ Cardinality(F) \in Nat /\ Cardinality(S) \in Nat
              /\ Cardinality(Settled("lost")) \in Nat
          BY <4>4, <4>5 DEF ByteInv, TypeOK
        <4> QED
          BY <2>2, <4>6, <4>7
      <3> QED
        BY <3>1, <3>2
    <2> QED
      BY <2>1, <2>3, HandlersUnchanged DEF FateInv, CountersExact
  <1> QED
    BY <1>11, <1>12, <1>13 DEF FateInv

\* FlushOK and the last FlushError settle the batch, an earlier one retries.
LEMMA InsertFate ==
  ASSUME ByteInv, FateInv, NEW w \in Flusher, FlushOK(w) \/ FlushError(w)
  PROVE  FateInv'
  <1>0. flusher[w] \in FlusherState
    BY DEF ByteInv, TypeOK
  <1>1. CASE FlushOK(w)
    <2> DEFINE r == [flusher[w] EXCEPT !.pc = "release"]
    <2>1. /\ flusher[w].pc = "flush" /\ Landed(InFlight(w)) /\ SetFate(InFlight(w), "written")
          /\ flusher' = [flusher EXCEPT ![w].pc = "release"]
          /\ UNCHANGED <<ch, batch, outbox, stage, flushQ, dropped, writeFailed>>
          /\ UNCHANGED addVars
      BY <1>1 DEF FlushOK, loopVars
    <2>2. \A v \in Flusher : flusher'[v] = IF v = w THEN r ELSE flusher[v]
      BY <2>1 DEF ByteInv, TypeOK
    <2>3. r.pc = "release" /\ r.batch = flusher[w].batch
      BY <1>0 DEF FlusherState
    <2> HIDE DEF r
    <2> QED
      BY <2>1, <2>2, <2>3, InsertSettles
  <1>2. CASE FlushError(w) /\ flusher[w].left > 1
    BY <1>2, InsertRetries
  <1>3. CASE FlushError(w) /\ ~(flusher[w].left > 1)
    <2> DEFINE r == [flusher[w] EXCEPT !.pc = "fail"]
    <2>1. /\ flusher[w].pc = "flush" /\ SetFate(InFlight(w), "lost")
          /\ flusher' = [flusher EXCEPT ![w].pc = "fail"]
          /\ UNCHANGED <<ch, batch, outbox, stage, flushQ, dropped, writeFailed>>
          /\ UNCHANGED addVars
      BY <1>3 DEF FlushError, loopVars
    <2>2. PICK L \in SUBSET InFlight(w) : Landed(L)
      BY <1>3 DEF FlushError
    <2>3. \A v \in Flusher : flusher'[v] = IF v = w THEN r ELSE flusher[v]
      BY <2>1 DEF ByteInv, TypeOK
    <2>4. r.pc = "fail" /\ r.batch = flusher[w].batch
      BY <1>0 DEF FlusherState
    <2> HIDE DEF r
    <2> QED
      BY <2>1, <2>2, <2>3, <2>4, InsertSettles
  <1> QED
    BY <1>1, <1>2, <1>3
-----------------------------------------------------------------------------
(* The ledger invariant.                                                   *)

\* Nothing has a fate, a copy or a counter at the start.
LEMMA InitLedger == Init => LedgerInv
  <1> SUFFICES ASSUME Init PROVE LedgerInv
    OBVIOUS
  <1>1. ByteInv
    BY InitBytes
  <1>2. /\ \A pcs : AddingAt(pcs) = {} /\ Flushing({"fail"}) = {}
        /\ \A w \in Flusher : InFlight(w) = {}
        /\ Elems(ch) = {} /\ QueuedItems = {} /\ outbox.items = {} /\ batch = {}
    BY DEF Init, AddingAt, Flushing, InFlight, NoBatch, Idle, Elems, QueuedItems
  <1>3. PlaceFate /\ StoreFate /\ Teardown
    BY <1>2 DEF Init, PlaceFate, StoreFate, Teardown, Idle
  <1>4. CountersExact
    <2>1. /\ AddingAt({"release", "drop"}) = {} /\ AddingAt({"send", "accept"}) = {}
          /\ Settled("refused") \union Settled("abandoned") = {} /\ Settled("lost") = {}
          /\ offered \ Settled("refused") = {}
      BY <1>2 DEF Init, Settled
    <2>2. Cardinality({}) = 0
      BY FS_EmptySet
    <2>3. accepted = 0 /\ dropped = 0 /\ writeFailed = 0 /\ 0 + 0 = 0
      BY DEF Init
    <2> QED
      BY <1>2, <2>1, <2>2, <2>3 DEF CountersExact
  <1> QED
    BY <1>1, <1>3, <1>4 DEF LedgerInv

\* A teardown step, or none, changes no fate, no place and no counter.
LEMMA TeardownFate ==
  ASSUME ByteInv, FateInv, StopReceivers \/ StopDeadline \/ PipeCancel \/ UNCHANGED vars
  PROVE  FateInv'
  <1>1. /\ UNCHANGED <<ch, batch, outbox, stage, flushQ, flusher, dropped, writeFailed, fate, copies>>
        /\ UNCHANGED addVars
    BY DEF StopReceivers, StopDeadline, PipeCancel, vars, loopVars, addVars
  <1>2. QueuedItems' = QueuedItems /\ AllInFlight' = AllInFlight /\ Elems(ch)' = Elems(ch)
    BY <1>1, BatchesUnchanged DEF Elems
  <1>3. Pipeline' = Pipeline
    BY <1>1, <1>2 DEF Pipeline
  <1>4. /\ \A i \in (Elems(ch) \union batch \union QueuedItems)' : fate[i] = "none"
        /\ \A i \in outbox'.items : fate[i] = IF stage' = "giveback" THEN "abandoned" ELSE "none"
    BY <1>1, <1>2 DEF FateInv, PlaceFate
  <1> QED
    BY <1>1, <1>3, <1>4, LoopMove

\* Every step of every goroutine preserves fates and counters.
LEMMA NextFate == ByteInv /\ FateInv /\ [Next]_vars => FateInv'
  <1> SUFFICES ASSUME ByteInv, FateInv, [Next]_vars PROVE FateInv'
    OBVIOUS
  <1>1. ASSUME NEW p \in Producer, Add(p) PROVE FateInv'
    <2>1. CASE \E i \in Item : Reserve(p, i)
      BY <2>1, ReserveFate
    <2>2. CASE Send(p)
      BY <2>2, SendFate
    <2>3. CASE CountAccepted(p) \/ Unreserve(p) \/ CountDropped(p)
      BY <2>3, HandlerQuiet
    <2> QED
      BY <1>1, <2>1, <2>2, <2>3 DEF Add
  <1>2. ASSUME Loop PROVE FateInv'
    <2>1. CASE Accumulate
      BY <2>1, AccumulateFate
    <2>2. CASE Tick \/ EndDrain
      BY <2>2, DispatchFate
    <2>3. CASE BeginDrain \/ CloseFlushQ \/ HandOffCancelled
      BY <2>3, ControlFate
    <2>4. CASE HandOff
      BY <2>4, HandOffFate
    <2>5. CASE HandOffTimeout
      BY <2>5, TimeoutFate
    <2>6. CASE GiveBack
      BY <2>6, GiveBackFate
    <2> QED
      BY <1>2, <2>1, <2>2, <2>3, <2>4, <2>5, <2>6 DEF Loop
  <1>3. ASSUME NEW w \in Flusher, Flush(w) PROVE FateInv'
    <2>1. CASE Take(w)
      BY <2>1, TakeFate
    <2>2. CASE GrantTries(w) \/ Release(w) \/ FlusherExit(w)
      BY <2>2, FlusherQuietFate
    <2>3. CASE FlushOK(w) \/ FlushError(w)
      BY <2>3, InsertFate
    <2>4. CASE CountFailed(w)
      BY <2>4, CountFailedFate
    <2> QED
      BY <1>3, <2>1, <2>2, <2>3, <2>4 DEF Flush
  <1>4. CASE StopReceivers \/ StopDeadline \/ PipeCancel \/ Exited \/ UNCHANGED vars
    BY <1>4, TeardownFate DEF Exited
  <1> QED
    BY <1>1, <1>2, <1>3, <1>4 DEF Next

\* The inductive invariant behind the theorems below: one place per item, a
\* fate that its place explains, counters that lag only behind goroutines
\* about to add to them, and an ordered teardown.
THEOREM ConsumerLedgerInv == Spec => []LedgerInv
  <1>1. LedgerInv /\ [Next]_vars => LedgerInv'
    BY NextBytes, NextFate, NextTeardown DEF LedgerInv, FateInv
  <1> QED
    BY <1>1, InitLedger, PTL DEF Spec

\* The published counters are exact up to the goroutines between an event and
\* its atomic add, on every path: refused, abandoned, lost, accepted.
THEOREM ConsumerCountersExact == Spec => []CountersExact
  <1>1. LedgerInv => CountersExact
    BY DEF LedgerInv
  <1> QED
    BY <1>1, ConsumerLedgerInv, PTL

\* When Stop has returned and no Add runs, every item has a fate or is in ch;
\* the reservation left is that of ch; and ch is empty after a graceful stop.
THEOREM ConsumerNoSilentLoss == Spec => []NoSilentLoss
  <1>1. LedgerInv => NoSilentLoss
    <2> SUFFICES ASSUME LedgerInv, Quiet
                 PROVE  /\ \A i \in offered : fate[i] = "none" <=> i \in Elems(ch)
                        /\ bufBytes = BytesOf(Elems(ch))
                        /\ receivers = "down" => ch = <<>>
      BY DEF NoSilentLoss
    <2> USE DEF LedgerInv, ByteInv
    <2>1. /\ mode = "done" /\ \A w \in Flusher : flusher[w].pc = "done"
          /\ \A p \in Producer : producer[p].pc = "idle"
      BY DEF Quiet, Stopped
    <2>2. batch = {} /\ outbox.items = {} /\ flushQ = <<>>
      BY <2>1, ConsumerAssumption DEF Teardown, Shape, NoBatch
    <2>3. QueuedItems = {}
      BY <2>2 DEF QueuedItems
    <2>4. \A w \in Flusher : InFlight(w) = {}
      BY <2>1 DEF Shape, InFlight, NoBatch
    <2>5. Pipeline = Elems(ch)
      BY <2>2, <2>3, <2>4 DEF Pipeline, AllInFlight
    <2>6. AddingAt({"send"}) = {} /\ AddingAt({"send", "release"}) = {}
      BY <2>1 DEF AddingAt
    <2>7. bufBytes = BytesOf(Elems(ch))
      <3>1. Pipeline \union AddingAt({"send", "release"}) = Elems(ch)
        BY <2>5, <2>6
      <3> QED
        BY <3>1 DEF BytesExact
    <2>8. \A i \in offered : fate[i] = "none" <=> i \in Elems(ch)
      BY <2>5, <2>6 DEF PlaceFate, TypeOK
    <2> QED
      BY <2>1, <2>7, <2>8 DEF Teardown
  <1> QED
    BY <1>1, ConsumerLedgerInv, PTL
=============================================================================

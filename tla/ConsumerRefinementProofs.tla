---------------------- MODULE ConsumerRefinementProofs ----------------------
(***************************************************************************)
(* The consumer implements IngestLedger: every step of a handler, the loop *)
(* or a flusher is one step of the ledger or changes nothing of it.        *)
(***************************************************************************)
EXTENDS ConsumerLedgerProofs

\* A step that decides no fate, offers nothing, sends nothing and inserts
\* nothing is invisible to the ledger.
LEMMA LedgerStutter ==
  ASSUME UNCHANGED <<fate, offered, copies>>, AddingAt({"send"})' = AddingAt({"send"})
  PROVE  UNCHANGED Ledger!ledgerVars
  <1>1. LedgerStatus' = LedgerStatus
    BY DEF LedgerStatus
  <1>2. LedgerStored' = LedgerStored
    BY DEF LedgerStored
  <1> QED
    BY <1>1, <1>2 DEF Ledger!ledgerVars

\* The ledger starts empty.
LEMMA InitImplements == Init => Ledger!LedgerInit
  <1> SUFFICES ASSUME Init PROVE Ledger!LedgerInit
    OBVIOUS
  <1>1. AddingAt({"send"}) = {}
    BY DEF Init, AddingAt, Idle
  <1>2. LedgerStatus = [i \in Item |-> "new"]
    BY <1>1 DEF Init, LedgerStatus
  <1>3. LedgerStored = {}
    BY DEF Init, LedgerStored
  <1> QED
    BY <1>2, <1>3 DEF Ledger!LedgerInit

\* How an item's status follows from its fate and from where its Add is.
LEMMA StatusOf ==
  ASSUME NEW i \in Item
  PROVE  LedgerStatus[i] = IF fate[i] # "none" THEN fate[i]
                           ELSE IF i \in AddingAt({"send"}) THEN "offered"
                           ELSE IF i \in offered THEN "held"
                           ELSE "new"
  BY DEF LedgerStatus

\* The ledger's budget test and weights are the consumer's.
LEMMA SameBytes == /\ Ledger!sizingEnabled <=> sizingEnabled
                   /\ \A S : Ledger!BytesOf(S) = BytesOf(S)
  <1>1. Ledger!sizingEnabled <=> sizingEnabled
    BY DEF Ledger!sizingEnabled, sizingEnabled
  <1>2. \A i : Ledger!sizeOf(i) = sizeOf(i)
    BY <1>1 DEF Ledger!sizeOf, sizeOf
  <1>3. \A S : Ledger!ByteUnits(S) = ByteUnits(S)
    BY <1>2 DEF Ledger!ByteUnits, ByteUnits
  <1>4. \A U : Ledger!Cardinality(U) = Cardinality(U)
    BY DEF Ledger!Cardinality, Cardinality
  <1>5. \A S : Ledger!BytesOf(S) = BytesOf(S)
    BY <1>3, <1>4 DEF Ledger!BytesOf, BytesOf
  <1> QED
    BY <1>1, <1>5

\* The items the ledger holds are the pipeline's undecided ones.
LEMMA HeldItems ==
  ASSUME LedgerInv
  PROVE  /\ Ledger!With("held") \subseteq Pipeline
         /\ \A i \in Pipeline : fate[i] = "none" => i \in Ledger!With("held")
  <1>1. \A i \in Item : LedgerStatus[i] = "held" <=>
          fate[i] = "none" /\ i \notin AddingAt({"send"}) /\ i \in offered
    <2>1. \A i \in Item : fate[i] # "held"
      BY DEF LedgerInv, ByteInv, TypeOK, Fate
    <2> QED
      BY <2>1, StatusOf
  <1>2. \A i \in Item : fate[i] = "none" /\ i \in offered => i \in Pipeline \union AddingAt({"send"})
    BY DEF LedgerInv, PlaceFate
  <1>3. \A i \in Pipeline : i \in Item /\ i \in offered /\ i \notin AddingAt({"send"})
    <2>1. Pipeline \in SUBSET Item /\ Pipeline \subseteq offered
      BY PlacesAreItems DEF LedgerInv, ByteInv, Shape
    <2>2. AddingAt({"send"}) \subseteq AddingAt({"send", "release", "drop"})
      BY DEF AddingAt
    <2>3. AddingAt({"send", "release", "drop"}) \intersect Pipeline = {}
      BY DEF LedgerInv, ByteInv, OnePlace
    <2> QED
      BY <2>1, <2>2, <2>3
  <1> QED
    BY <1>1, <1>2, <1>3 DEF Ledger!With

\* Reserve offers the item or refuses it on the spot.
LEMMA ReserveImplements ==
  ASSUME LedgerInv, NEW p \in Producer, NEW i \in Item, Reserve(p, i)
  PROVE  Ledger!LedgerNext
  <1> DEFINE over == sizingEnabled /\ bufBytes + sizeOf(i) > ByteBudget
             r == [pc |-> IF over THEN "release" ELSE "send", arg |-> {i}]
  <1>1. /\ producer[p].pc = "idle" /\ i \notin offered
        /\ offered' = offered \union {i}
        /\ producer' = [producer EXCEPT ![p] = r]
        /\ IF over THEN SetFate({i}, "refused") ELSE UNCHANGED fate
        /\ UNCHANGED copies
    BY DEF Reserve
  <1>2. \A q \in Producer : producer'[q] = IF q = p THEN r ELSE producer[q]
    BY <1>1 DEF LedgerInv, ByteInv, TypeOK
  <1>3. fate[i] = "none" /\ \A pcs : i \notin AddingAt(pcs)
    BY <1>1 DEF LedgerInv, ByteInv, Shape, PlaceFate, AddingAt
  <1>4. r.arg = {i} /\ r.pc = (IF over THEN "release" ELSE "send") /\ OnePlace
    BY DEF LedgerInv, ByteInv
  <1> HIDE DEF r, over
  <1>5. LedgerStored' = LedgerStored
    BY <1>1 DEF LedgerStored
  <1>6. LedgerStatus[i] = "new"
    BY <1>1, <1>3, StatusOf
  <1>7. CASE over
    <2>1. AddingAt({"send"})' = AddingAt({"send"})
      <3>1. producer[p].pc \notin {"send"} /\ r.pc \notin {"send"}
        BY <1>1, <1>4, <1>7
      <3> QED
        BY <1>2, <1>4, <3>1, AddingStep, Zenon
    <2>2. \A j \in Item : fate'[j] = IF j = i THEN "refused" ELSE fate[j]
      BY <1>1, <1>7 DEF SetFate
    <2>3. LedgerStatus' = [LedgerStatus EXCEPT ![i] = "refused"]
      BY <1>1, <2>1, <2>2 DEF LedgerStatus
    <2>4. Ledger!Refuse(i)
      BY <1>5, <1>6, <2>3 DEF Ledger!Refuse
    <2> QED
      BY <2>4 DEF Ledger!LedgerNext
  <1>8. CASE ~over
    <2>1. AddingAt({"send"})' = AddingAt({"send"}) \union {i}
      <3>1. producer[p].pc \notin {"send"} /\ r.pc \in {"send"}
        BY <1>1, <1>4, <1>8
      <3> QED
        BY <1>2, <1>4, <3>1, AddingStep
    <2>2. LedgerStatus' = [LedgerStatus EXCEPT ![i] = "offered"]
      BY <1>1, <1>3, <1>8, <2>1 DEF LedgerStatus
    <2>3. Ledger!Offer(i)
      BY <1>5, <1>6, <2>2 DEF Ledger!Offer
    <2> QED
      BY <2>3 DEF Ledger!LedgerNext
  <1> QED
    BY <1>7, <1>8

\* Send accepts the offered item, within the budget, or refuses it.
LEMMA SendImplements ==
  ASSUME LedgerInv, NEW p \in Producer, Send(p)
  PROVE  Ledger!LedgerNext
  <1>1. PICK i \in Item : producer[p].arg = {i}
    BY DEF Send, LedgerInv, ByteInv, Shape
  <1>2. producer[p].pc = "send" /\ UNCHANGED <<offered, copies>>
    BY DEF Send
  <1>3. /\ OnePlace /\ i \in AddingAt({"send"}) /\ fate[i] = "none" /\ i \in offered
    BY <1>1, <1>2 DEF LedgerInv, ByteInv, Shape, PlaceFate, AddingAt
  <1>4. LedgerStatus[i] = "offered" /\ LedgerStored' = LedgerStored
    BY <1>2, <1>3, StatusOf DEF LedgerStored
  <1>5. ASSUME NEW pc \in {"accept", "release"}, producer' = [producer EXCEPT ![p].pc = pc]
        PROVE  AddingAt({"send"})' = AddingAt({"send"}) \ {i}
    <2> DEFINE r == [producer[p] EXCEPT !.pc = pc]
    <2>1. r.pc = pc
      BY DEF LedgerInv, ByteInv, TypeOK, ProducerState
    <2>2. \A q \in Producer : producer'[q] = IF q = p THEN r ELSE producer[q]
      BY <1>5 DEF LedgerInv, ByteInv, TypeOK
    <2>3. producer[p].pc \in {"send"} /\ r.pc \notin {"send"}
      BY <1>2, <1>5, <2>1
    <2> HIDE DEF r
    <2> QED
      BY <1>1, <1>3, <2>2, <2>3, AddingStep
  <1>6. CASE Len(ch) < BufferSize
    <2>1. fate' = fate /\ producer' = [producer EXCEPT ![p].pc = "accept"]
      BY <1>6, ConsumerAssumption DEF Send, LedgerInv, ByteInv, TypeOK
    <2>2. AddingAt({"send"})' = AddingAt({"send"}) \ {i}
      BY <1>5, <2>1
    <2>3. LedgerStatus' = [LedgerStatus EXCEPT ![i] = "held"]
      BY <1>2, <1>3, <2>1, <2>2 DEF LedgerStatus
    <2>4. Ledger!sizingEnabled => Ledger!BytesOf(Ledger!With("held") \union {i}) <= ByteBudget
      <3> DEFINE A == Pipeline \union AddingAt({"send"})
                 H == Ledger!With("held") \union {i}
      <3>1. A \in SUBSET Item /\ H \in SUBSET A
        BY <1>3, HeldItems, PlacesAreItems DEF LedgerInv, ByteInv
      <3>2. sizingEnabled => BytesOf(A) <= ByteBudget
        BY DEF LedgerInv, ByteInv, AdmittedFit
      <3> HIDE DEF A, H
      <3>3. BytesOf(H) <= BytesOf(A) /\ BytesOf(H) \in Nat /\ BytesOf(A) \in Nat
        BY <3>1, BytesMonotone, BytesType
      <3>4. sizingEnabled => BytesOf(H) <= ByteBudget
        BY <3>2, <3>3, ByteAssumption
      <3> QED
        BY <3>4, SameBytes DEF H
    <2>5. Ledger!Accept(i)
      BY <1>4, <2>3, <2>4 DEF Ledger!Accept
    <2> QED
      BY <2>5 DEF Ledger!LedgerNext
  <1>7. CASE Len(ch) >= BufferSize
    <2>1. SetFate({i}, "refused") /\ producer' = [producer EXCEPT ![p].pc = "release"]
      BY <1>1, <1>7, ConsumerAssumption DEF Send, LedgerInv, ByteInv, TypeOK
    <2>2. AddingAt({"send"})' = AddingAt({"send"}) \ {i}
      BY <1>5, <2>1
    <2>3. \A j \in Item : fate'[j] = IF j = i THEN "refused" ELSE fate[j]
      BY <2>1 DEF SetFate
    <2>4. LedgerStatus' = [LedgerStatus EXCEPT ![i] = "refused"]
      BY <1>2, <2>2, <2>3 DEF LedgerStatus
    <2>5. Ledger!Refuse(i)
      BY <1>4, <2>4 DEF Ledger!Refuse
    <2> QED
      BY <2>5 DEF Ledger!LedgerNext
  <1>8. Len(ch) \in Nat
    BY DEF LedgerInv, ByteInv, TypeOK
  <1> QED
    BY <1>6, <1>7, <1>8, ConsumerAssumption

\* A batch of held items settles as a whole; landed is what the insert that
\* decided it put in the store.
LEMMA SettleImplements ==
  ASSUME LedgerInv, NEW S \in SUBSET Pipeline, NEW f \in {"written", "lost", "abandoned"},
         NEW L \in SUBSET S, \A i \in S : fate[i] = "none",
         SetFate(S, f), LedgerStored' = LedgerStored \union L,
         f = "written" => L = S,
         f = "abandoned" => L = {} /\ S \intersect LedgerStored = {},
         AddingAt({"send"})' = AddingAt({"send"}), UNCHANGED offered
  PROVE  Ledger!LedgerNext
  <1>1. S \in SUBSET Item /\ S \subseteq Ledger!With("held")
    BY HeldItems, PlacesAreItems DEF LedgerInv, ByteInv
  <1>2. \A i \in Item : fate'[i] = IF i \in S THEN f ELSE fate[i]
    BY DEF SetFate
  <1>3. LedgerStatus' = [i \in Item |-> IF i \in S THEN f ELSE LedgerStatus[i]]
    BY <1>1, <1>2 DEF LedgerStatus
  <1>4. Ledger!Settle(S, f, L)
    BY <1>1, <1>3 DEF Ledger!Settle
  <1>5. f \in Ledger!Outcome
    BY DEF Ledger!Outcome
  <1> QED
    BY <1>1, <1>4, <1>5 DEF Ledger!LedgerNext

\* What an insert that lands S does to the store.
LEMMA StoredStep ==
  ASSUME TypeOK, NEW S \in SUBSET Item, Landed(S)
  PROVE  LedgerStored' = LedgerStored \union S
  <1>1. \A i \in Item : copies[i] \in Nat /\ copies'[i] = IF i \in S THEN copies[i] + 1 ELSE copies[i]
    BY DEF TypeOK, Landed
  <1>2. \A i \in Item : copies'[i] > 0 <=> copies[i] > 0 \/ i \in S
    BY <1>1
  <1> QED
    BY <1>2 DEF LedgerStored

\* HandOffTimeout abandons a batch no insert has seen.
LEMMA TimeoutImplements ==
  ASSUME LedgerInv, HandOffTimeout
  PROVE  Ledger!LedgerNext
  <1> DEFINE S == outbox.items
  <1>1. /\ stage = "handoff" /\ SetFate(S, "abandoned") /\ UNCHANGED copies /\ UNCHANGED addVars
    BY DEF HandOffTimeout
  <1>2. \A i \in S : fate[i] = "none"
    BY <1>1 DEF LedgerInv, PlaceFate
  <1>3. S \in SUBSET Pipeline /\ \A w \in Flusher : S \intersect InFlight(w) = {}
    <2>1. \A w \in Flusher : InFlight(w) \subseteq AllInFlight
      BY DEF AllInFlight
    <2> QED
      BY <2>1, InPipeline DEF LedgerInv, ByteInv, OnePlace
  <1>4. S \intersect LedgerStored = {}
    BY <1>2, <1>3 DEF LedgerInv, StoreFate, LedgerStored
  <1>5. LedgerStored' = LedgerStored \union {} /\ {} \in SUBSET S
    BY <1>1 DEF LedgerStored
  <1>6. AddingAt({"send"})' = AddingAt({"send"}) /\ UNCHANGED offered
    BY <1>1, HandlersUnchanged
  <1> HIDE DEF S
  <1> QED
    BY <1>1, <1>2, <1>3, <1>4, <1>5, <1>6, SettleImplements

\* An insert writes its whole batch, loses it, or lands some of it and is
\* tried again.
LEMMA InsertImplements ==
  ASSUME LedgerInv, NEW w \in Flusher, FlushOK(w) \/ FlushError(w)
  PROVE  Ledger!LedgerNext
  <1> DEFINE S == InFlight(w)
  <1>1. /\ flusher[w].pc = "flush" /\ UNCHANGED addVars
    BY DEF FlushOK, FlushError
  <1>2. S \in SUBSET Pipeline /\ S \in SUBSET Item /\ TypeOK
    BY InPipeline, PlacesAreItems DEF LedgerInv, ByteInv
  <1>3. \A i \in S : fate[i] = "none"
    BY <1>1, <1>2 DEF LedgerInv, PlaceFate
  <1>4. AddingAt({"send"})' = AddingAt({"send"}) /\ UNCHANGED offered
    BY <1>1, HandlersUnchanged
  <1>5. CASE FlushOK(w)
    <2>1. Landed(S) /\ SetFate(S, "written")
      BY <1>5 DEF FlushOK
    <2>2. LedgerStored' = LedgerStored \union S /\ S \in SUBSET S
      BY <1>2, <2>1, StoredStep
    <2> HIDE DEF S
    <2> QED
      BY <1>2, <1>3, <1>4, <2>1, <2>2, SettleImplements
  <1>6. CASE FlushError(w)
    <2>1. PICK L \in SUBSET S : Landed(L)
      BY <1>6 DEF FlushError
    <2>2. LedgerStored' = LedgerStored \union L
      BY <1>2, <2>1, StoredStep
    <2>3. UNCHANGED fate \/ SetFate(S, "lost")
      BY <1>6 DEF FlushError
    <2> HIDE DEF S
    <2>4. CASE SetFate(S, "lost")
      BY <1>2, <1>3, <1>4, <2>1, <2>2, <2>4, SettleImplements
    <2>5. CASE UNCHANGED fate
      <3>1. LedgerStatus' = LedgerStatus
        BY <1>4, <2>5 DEF LedgerStatus
      <3>2. L \in SUBSET Item /\ L \subseteq Ledger!With("held")
        BY <1>2, <1>3, <2>1, HeldItems
      <3>3. Ledger!Land(L)
        BY <2>2, <3>1, <3>2 DEF Ledger!Land
      <3> QED
        BY <3>2, <3>3 DEF Ledger!LedgerNext
    <2> QED
      BY <2>3, <2>4, <2>5
  <1> QED
    BY <1>5, <1>6

\* Every step of the consumer is a step of the ledger or leaves it as it was.
LEMMA NextImplements == LedgerInv /\ [Next]_vars => [Ledger!LedgerNext]_(Ledger!ledgerVars)
  <1> SUFFICES ASSUME LedgerInv, [Next]_vars PROVE Ledger!LedgerNext \/ UNCHANGED Ledger!ledgerVars
    OBVIOUS
  <1>1. ASSUME NEW p \in Producer, Add(p) PROVE Ledger!LedgerNext \/ UNCHANGED Ledger!ledgerVars
    <2>1. CASE \E i \in Item : Reserve(p, i)
      BY <2>1, ReserveImplements
    <2>2. CASE Send(p)
      BY <2>2, SendImplements
    <2>3. CASE CountAccepted(p) \/ Unreserve(p) \/ CountDropped(p)
      <3>1. /\ producer[p].pc # "send" /\ UNCHANGED <<fate, offered, copies>>
            /\ \A q \in Producer : q # p => producer'[q] = producer[q]
            /\ producer'[p].pc # "send"
        BY <2>3 DEF CountAccepted, Unreserve, CountDropped, Idle, LedgerInv, ByteInv, TypeOK,
                    ProducerState
      <3>2. AddingAt({"send"})' = AddingAt({"send"})
        BY <3>1 DEF AddingAt
      <3> QED
        BY <3>1, <3>2, LedgerStutter
    <2> QED
      BY <1>1, <2>1, <2>2, <2>3 DEF Add
  <1>2. ASSUME Loop PROVE Ledger!LedgerNext \/ UNCHANGED Ledger!ledgerVars
    <2>1. CASE HandOffTimeout
      BY <2>1, TimeoutImplements
    <2>2. CASE ~HandOffTimeout
      <3>1. UNCHANGED <<fate, copies>> /\ UNCHANGED addVars
        BY <1>2, <2>2 DEF Loop, Accumulate, Tick, BeginDrain, EndDrain, CloseFlushQ, HandOff,
                          HandOffCancelled, GiveBack
      <3> QED
        BY <3>1, HandlersUnchanged, LedgerStutter
    <2> QED
      BY <2>1, <2>2
  <1>3. ASSUME NEW w \in Flusher, Flush(w) PROVE Ledger!LedgerNext \/ UNCHANGED Ledger!ledgerVars
    <2>1. CASE FlushOK(w) \/ FlushError(w)
      BY <2>1, InsertImplements
    <2>2. CASE Take(w) \/ GrantTries(w) \/ CountFailed(w) \/ Release(w) \/ FlusherExit(w)
      <3>1. UNCHANGED <<fate, copies>> /\ UNCHANGED addVars
        BY <2>2 DEF Take, GrantTries, CountFailed, Release, FlusherExit
      <3> QED
        BY <3>1, HandlersUnchanged, LedgerStutter
    <2> QED
      BY <1>3, <2>1, <2>2 DEF Flush
  <1>4. CASE StopReceivers \/ StopDeadline \/ PipeCancel \/ Exited \/ UNCHANGED vars
    <2>1. UNCHANGED <<fate, copies>> /\ UNCHANGED addVars
      BY <1>4 DEF StopReceivers, StopDeadline, PipeCancel, Exited, vars, addVars
    <2> QED
      BY <2>1, HandlersUnchanged, LedgerStutter
  <1> QED
    BY <1>1, <1>2, <1>3, <1>4 DEF Next

\* The consumer implements the ledger: each item is decided once, a batch
\* leaves as a whole, refused and abandoned items never reach the store, and
\* what is held stays within the budget.
THEOREM ConsumerImplementsLedger == Spec => ImplementsLedger
  <1>1. Spec => []LedgerInv
    BY ConsumerLedgerInv
  <1> QED
    BY <1>1, InitImplements, NextImplements, PTL DEF Spec, ImplementsLedger, Ledger!LedgerSpec
=============================================================================

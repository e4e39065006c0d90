--------------------------- MODULE SreDrainProofs ---------------------------
(***************************************************************************)
(* The drain never runs an item twice under its lock, leaves the record of *)
(* a locked item to its executor, and gives up an item that keeps killing  *)
(* its pods: for any number of pods, items, requests and events.           *)
(***************************************************************************)
EXTENDS SreDrain, FiniteSetTheorems, TLAPS

PollState == [pc : {"idle", "listed", "reclaim", "claim"}, rows : [Item -> Record],
              mine : SUBSET Item, todo : SUBSET Item, hold : Item \union {NoItem}]
FlightState == [pc : {"none", "run", "leave"}, inv : Record]
Request == [item : Item \union {NoItem}, inv : Record]

-----------------------------------------------------------------------------
(* Types.                                                                  *)

\* There is always a claim number nobody carries: records and executors use
\* at most one each.
LEMMA FreshClaimType ==
  ASSUME TypeOK
  PROVE  FreshClaim \in Claim
  <1> DEFINE A == {row[i].claim : i \in Item}
             B == {flight[p][i].inv.claim : p \in Pod, i \in Item}
             g == [x \in Pod \X Item |-> flight[x[1]][x[2]].inv.claim]
             f == [i \in Item |-> row[i].claim]
  <1>1. IsFiniteSet(Item) /\ IsFiniteSet(Pod) /\ IsFiniteSet(Claim)
        /\ Cardinality(Item) \in Nat /\ Cardinality(Pod) \in Nat /\ Cardinality(Claim) \in Nat
    BY DrainAssumption, FS_CardinalityType
  <1>2. IsFiniteSet(A) /\ Cardinality(A) <= Cardinality(Item)
    <2>1. f \in Surjection(Item, A)
      BY DEF Surjection
    <2> QED
      BY <1>1, <2>1, FS_Surjection
  <1>3. IsFiniteSet(B) /\ Cardinality(B) <= Cardinality(Pod) * Cardinality(Item)
    <2>1. g \in Surjection(Pod \X Item, B)
      <3>1. ASSUME NEW x \in Pod \X Item PROVE g[x] \in B
        <4>1. x[1] \in Pod /\ x[2] \in Item
          OBVIOUS
        <4> QED
          BY <4>1
      <3>2. ASSUME NEW y \in B PROVE \E x \in Pod \X Item : g[x] = y
        <4>1. PICK p \in Pod, i \in Item : y = flight[p][i].inv.claim
          OBVIOUS
        <4>2. <<p, i>> \in Pod \X Item /\ g[<<p, i>>] = flight[p][i].inv.claim
          OBVIOUS
        <4> QED
          BY <4>1, <4>2
      <3>3. g = [x \in Pod \X Item |-> g[x]]
        OBVIOUS
      <3> HIDE DEF g, B
      <3>4. g \in [Pod \X Item -> B]
        BY <3>1, <3>3
      <3> QED
        BY <3>2, <3>4 DEF Surjection
    <2>2. IsFiniteSet(Pod \X Item) /\ Cardinality(Pod \X Item) = Cardinality(Pod) * Cardinality(Item)
      BY <1>1, FS_Product
    <2> QED
      BY <2>1, <2>2, FS_Surjection
  <1>4. IsFiniteSet(InUse) /\ Cardinality(InUse) < Cardinality(Claim)
    <2>1. InUse = A \union B
      BY DEF InUse
    <2> HIDE DEF A, B
    <2>2. /\ IsFiniteSet(A \union B) /\ IsFiniteSet(A \intersect B)
          /\ Cardinality(A \union B) = Cardinality(A) + Cardinality(B) - Cardinality(A \intersect B)
      BY <1>2, <1>3, FS_Union, FS_Intersection
    <2>3. Cardinality(A) \in Nat /\ Cardinality(B) \in Nat /\ Cardinality(A \intersect B) \in Nat
          /\ Cardinality(A \union B) \in Nat
      BY <1>2, <1>3, <2>2, FS_CardinalityType
    <2>4. Cardinality(A \union B) <= Cardinality(A) + Cardinality(B)
      BY <2>2, <2>3
    <2>5. Cardinality(Item) * (1 + Cardinality(Pod))
            = Cardinality(Item) + Cardinality(Pod) * Cardinality(Item)
      BY <1>1, Z3
    <2>6. Cardinality(Pod) * Cardinality(Item) \in Nat
      BY <1>1
    <2>7. Cardinality(Item) + Cardinality(Pod) * Cardinality(Item) < Cardinality(Claim)
      BY <2>5, <1>1, <2>6, DrainAssumption
    <2> QED
      BY <1>1, <1>2, <1>3, <2>1, <2>2, <2>3, <2>4, <2>6, <2>7
  <1>5. \E c \in Claim : c \notin InUse
    <2>1. SUFFICES ASSUME Claim \subseteq InUse PROVE FALSE
      OBVIOUS
    <2>2. Cardinality(Claim) <= Cardinality(InUse)
      BY <1>4, <2>1, FS_Subset
    <2>3. Cardinality(InUse) \in Nat
      BY <1>4, FS_CardinalityType
    <2> QED
      BY <1>1, <1>4, <2>2, <2>3
  <1> QED
    BY <1>5 DEF FreshClaim

\* What every step does to ages and spans: a pod that was in a tick when the
\* lock lost its holder stays in the span until its tick ends.
LEMMA TimeKept ==
  ASSUME TypeOK, KeepTime
  PROVE  /\ old' \subseteq Claim /\ span' \in [Item -> SUBSET Pod]
         /\ \A i \in Item, p \in Pod :
              lock'[i] = Orphan /\ poll'[p].pc # "idle" /\ (lock[i] = Orphan => p \in span[i])
                => p \in span'[i]
  <1>1. old' \subseteq Claim
    BY DEF TypeOK, KeepTime
  <1>2. span' \in [Item -> SUBSET Pod]
    BY DEF TypeOK, KeepTime, Polling
  <1>3. \A i \in Item, p \in Pod :
              lock'[i] = Orphan /\ poll'[p].pc # "idle" /\ (lock[i] = Orphan => p \in span[i])
                => p \in span'[i]
    BY DEF KeepTime, Polling
  <1> QED
    BY <1>1, <1>2, <1>3

\* The empty values have the right types.
LEMMA EmptyTypes ==
  /\ NoRow \in Record /\ NoRow.claim = NoClaim /\ NoRow.st = "none" /\ NoAsk \in Request
  /\ NoPoll \in PollState /\ NoPoll.pc = "idle" /\ NoPoll.hold = NoItem /\ NoPoll.todo = {}
  /\ NoFlight \in FlightState /\ NoFlight.pc = "none" /\ NoFlight.inv = NoRow
  <1>1. NoRow \in Record /\ NoRow.claim = NoClaim /\ NoRow.st = "none"
    BY DrainAssumption DEF NoRow, Record, NoClaim
  <1> QED
    BY <1>1 DEF NoPoll, NoFlight, NoAsk, PollState, FlightState, Request

\* Saving a record under another state keeps it a record and its attempts.
LEMMA AsType ==
  ASSUME NEW inv \in Record, NEW st \in {"none", "queued", "running", "over"}
  PROVE  /\ As(inv, st) \in Record /\ As(inv, st).st = st
         /\ As(inv, st).attempts = inv.attempts /\ As(inv, st).run = inv.run
  BY DEF As, Record, NoClaim

\* A finished record is a record, and neither queued nor running.
LEMMA OverType ==
  ASSUME NEW inv \in Record
  PROVE  Over(inv) \in Record /\ Over(inv).st = "over"
  <1>1. 0 \in 0..MaxAttempts
    BY DrainAssumption
  <1> QED
    BY <1>1 DEF Over, Record, NoClaim

\* A claimed record has one attempt more.
LEMMA ClaimedType ==
  ASSUME TypeOK, NEW inv \in Record, inv.attempts < MaxAttempts
  PROVE  /\ Claimed(inv) \in Record /\ Claimed(inv).st = "running"
         /\ Claimed(inv).attempts = inv.attempts + 1 /\ Claimed(inv).run = inv.run
  <1>1. FreshClaim \in Claim
    BY FreshClaimType
  <1>2. inv.attempts + 1 \in 0..MaxAttempts
    BY DrainAssumption DEF Record
  <1> QED
    BY <1>1, <1>2 DEF Claimed, Record

\* The tick of pod p goes on, or ends: nothing is held, the lists are the same.
Narrowed(p) ==
  /\ \A q \in Pod : q # p => poll'[q] = poll[q]
  /\ poll'[p].hold = NoItem
  /\ \/ poll'[p] = NoPoll
     \/ /\ poll'[p].pc = poll[p].pc /\ poll'[p].rows = poll[p].rows
        /\ poll'[p].mine = poll[p].mine

\* Done drops i from the tick, and ends a claim loop that has no more to do.
LEMMA DoneStep ==
  ASSUME TypeOK, NEW p \in Pod, NEW i \in Item, Done(p, i)
  PROVE  /\ poll' \in [Pod -> PollState]
         /\ Narrowed(p)
         /\ poll'[p].todo \subseteq poll[p].todo \ {i}
  <1> DEFINE r == [poll[p] EXCEPT !.todo = @ \ {i}, !.hold = NoItem]
  <1>1. poll \in [Pod -> PollState] /\ poll[p] \in PollState
    BY DEF TypeOK, PollState
  <1>2. r \in PollState /\ r.todo = poll[p].todo \ {i} /\ r.hold = NoItem /\ r.pc = poll[p].pc
        /\ r.rows = poll[p].rows /\ r.mine = poll[p].mine
    BY <1>1 DEF PollState
  <1>3. poll' = [poll EXCEPT ![p] = IF poll[p].pc = "claim" /\ poll[p].todo = {i} THEN NoPoll
                                    ELSE r]
    BY DEF Done
  <1> HIDE DEF r
  <1>4. \E n \in PollState : /\ poll' = [poll EXCEPT ![p] = n]
                             /\ n = NoPoll \/ n = r
    BY <1>2, <1>3, EmptyTypes
  <1>5. PICK n \in PollState : poll' = [poll EXCEPT ![p] = n] /\ (n = NoPoll \/ n = r)
    BY <1>4
  <1>6. poll' \in [Pod -> PollState] /\ poll'[p] = n /\ \A q \in Pod : q # p => poll'[q] = poll[q]
    BY <1>1, <1>5
  <1> QED
    BY <1>2, <1>5, <1>6, EmptyTypes DEF Narrowed

\* The parts of the state, typed.
LEMMA Parts ==
  TypeOK <=> /\ row \in [Item -> Record] /\ lock \in [Item -> Pod \union {NoPod, Orphan}]
             /\ old \subseteq Claim /\ span \in [Item -> SUBSET Pod]
             /\ pod \in [Pod -> {"up", "drain", "cut"}]
             /\ poll \in [Pod -> PollState] /\ flight \in [Pod -> [Item -> FlightState]]
             /\ ask \in [Operator -> Request] /\ mark \in [Operator -> Request]
             /\ events \in 0..MaxEvents /\ lapsed \subseteq Pod \X Item
             /\ deaths \in [Item -> Nat] /\ disturbed \subseteq Item
  BY DEF TypeOK, PollState, FlightState, Request

\* Release leaves a lock value in the lock, and counts at most one fault.
LEMMA ReleaseType ==
  ASSUME TypeOK, NEW p \in Pod, NEW i \in Item, Release(p, i)
  PROVE  /\ lock' \in [Item -> Pod \union {NoPod, Orphan}] /\ events' \in 0..MaxEvents
         /\ \A j \in Item : lock'[j] = lock[j] \/ (j = i /\ lock[i] = p)
         /\ \A j \in Item : lock'[j] \in {lock[j], NoPod, Orphan}
  <1>1. lock \in [Item -> Pod \union {NoPod, Orphan}] /\ events \in 0..MaxEvents
    BY Parts
  <1>2. events' \in 0..MaxEvents
    BY <1>1, DrainAssumption DEF Release, Event
  <1>3. \/ lock' = [lock EXCEPT ![i] = IF lock[i] = p THEN NoPod ELSE lock[i]]
        \/ lock[i] = p /\ lock' = [lock EXCEPT ![i] = Orphan]
    BY DEF Release
  <1> QED
    BY <1>1, <1>2, <1>3

\* The request side keeps types: requests read finished records, and write
\* fresh queued ones or the finished ones they read.
LEMMA RequestTypes ==
  ASSUME TypeOK, RecordsOK, NEW o \in Operator,
         \/ \E i \in Item : EnqueueLoad(o, i) \/ MarkLoad(o, i)
         \/ EnqueueSave(o) \/ MarkSave(o)
  PROVE  TypeOK' /\ RecordsOK'
  <1>0. /\ row \in [Item -> Record] /\ ask \in [Operator -> Request]
        /\ mark \in [Operator -> Request] /\ NoAsk \in Request
    BY Parts, EmptyTypes
  <1>1. ASSUME NEW i \in Item, EnqueueLoad(o, i) PROVE TypeOK' /\ RecordsOK'
    <2> DEFINE n == [st |-> "queued", claim |-> NoClaim, attempts |-> 0, run |-> row[i].run + 1]
               a == [item |-> i, inv |-> n]
    <2>1. /\ row[i].run < MaxRun /\ ask' = [ask EXCEPT ![o] = a] /\ KeepTime
          /\ UNCHANGED <<row, lock, pod, poll, flight, mark, lapsed, deaths, disturbed>>
          /\ events' = events \/ Event
      BY <1>1 DEF EnqueueLoad, storeVars
    <2>2. n \in Record /\ n.st = "queued" /\ n.attempts = 0
      <3>1. row[i].run + 1 \in 0..MaxRun
        BY <1>0, <2>1, DrainAssumption DEF Record
      <3> QED
        BY <3>1, DrainAssumption DEF Record
    <2> HIDE DEF n
    <2>3. a \in Request /\ a.item \in Item /\ a.inv = n
      BY <2>2 DEF Request
    <2> HIDE DEF a
    <2>4. ask' \in [Operator -> Request] /\ events' \in 0..MaxEvents
      BY <1>0, <2>1, <2>3, Parts, DrainAssumption DEF Event
    <2>5. TypeOK'
      BY <2>1, <2>4, Parts, TimeKept DEF TypeOK, Request
    <2>6. \A x \in Operator : ask'[x] # NoAsk =>
            ask'[x].item \in Item /\ ask'[x].inv.st = "queued" /\ ask'[x].inv.attempts = 0
      BY <1>0, <2>1, <2>2, <2>3 DEF RecordsOK
    <2> QED
      BY <2>1, <2>5, <2>6 DEF RecordsOK, Running
  <1>2. ASSUME NEW i \in Item, MarkLoad(o, i) PROVE TypeOK' /\ RecordsOK'
    <2> DEFINE a == [item |-> i, inv |-> row[i]]
    <2>1. /\ row[i].st = "over" /\ mark' = [mark EXCEPT ![o] = a] /\ KeepTime /\ Event
          /\ UNCHANGED <<row, lock, pod, poll, flight, ask, lapsed, deaths, disturbed>>
      BY <1>2 DEF MarkLoad, storeVars
    <2>2. a \in Request /\ a.item \in Item /\ a.inv = row[i]
      BY <1>0 DEF Request
    <2> HIDE DEF a
    <2>3. mark' \in [Operator -> Request] /\ events' \in 0..MaxEvents
      BY <1>0, <2>1, <2>2, Parts, DrainAssumption DEF Event
    <2>4. TypeOK'
      BY <2>1, <2>3, Parts, TimeKept DEF TypeOK, Request
    <2>5. \A x \in Operator : mark'[x] # NoAsk =>
            mark'[x].item \in Item /\ mark'[x].inv.st = "over"
      BY <1>0, <2>1, <2>2 DEF RecordsOK
    <2> QED
      BY <2>1, <2>4, <2>5 DEF RecordsOK, Running
  <1>3. CASE EnqueueSave(o)
    <2> DEFINE i == ask[o].item
               n == ask[o].inv
    <2>1. /\ ask[o] # NoAsk /\ row' = [row EXCEPT ![i] = n] /\ KeepTime
          /\ deaths' = [deaths EXCEPT ![i] = 0] /\ ask' = [ask EXCEPT ![o] = NoAsk]
          /\ disturbed' = (disturbed \ {i}) \union {j \in {i} : \E p \in Pod : Running(p, j)}
          /\ UNCHANGED <<lock, pod, poll, flight, mark, events, lapsed>>
      BY <1>3 DEF EnqueueSave
    <2>2. i \in Item /\ n \in Record /\ n.attempts = 0
      BY <1>0, <2>1 DEF RecordsOK, Request
    <2> HIDE DEF i, n
    <2>3. row' \in [Item -> Record] /\ deaths' \in [Item -> Nat] /\ disturbed' \subseteq Item
          /\ ask' \in [Operator -> Request]
      BY <1>0, <2>1, <2>2, Parts
    <2>4. TypeOK'
      BY <2>1, <2>3, Parts, TimeKept DEF TypeOK, Request
    <2>5. \A j \in Item : row'[j].st = "queued" => row'[j].attempts < MaxAttempts
      BY <1>0, <2>1, <2>2, DrainAssumption DEF RecordsOK
    <2>6. \A x \in Operator : ask'[x] # NoAsk => ask'[x] = ask[x]
      BY <1>0, <2>1
    <2>7. \A q \in Pod, j \in Item : Running(q, j)' => flight'[q][j].inv.st = "running"
      BY <2>1 DEF RecordsOK, Running
    <2> QED
      BY <2>1, <2>4, <2>5, <2>6, <2>7 DEF RecordsOK
  <1>4. CASE MarkSave(o)
    <2> DEFINE i == mark[o].item
               n == mark[o].inv
    <2>1. /\ mark[o] # NoAsk /\ row' = [row EXCEPT ![i] = n] /\ KeepTime
          /\ mark' = [mark EXCEPT ![o] = NoAsk]
          /\ disturbed' = disturbed \union {j \in {i} : row[j] # n}
          /\ UNCHANGED <<lock, pod, poll, flight, ask, events, lapsed, deaths>>
      BY <1>4 DEF MarkSave
    <2>2. i \in Item /\ n \in Record /\ n.st = "over"
      BY <1>0, <2>1 DEF RecordsOK, Request
    <2> HIDE DEF i, n
    <2>3. row' \in [Item -> Record] /\ disturbed' \subseteq Item /\ mark' \in [Operator -> Request]
      BY <1>0, <2>1, <2>2, Parts
    <2>4. TypeOK'
      BY <2>1, <2>3, Parts, TimeKept DEF TypeOK, Request
    <2>5. \A j \in Item : row'[j].st = "queued" => row'[j].attempts < MaxAttempts
      BY <1>0, <2>1, <2>2 DEF RecordsOK
    <2>6. \A x \in Operator : mark'[x] # NoAsk => mark'[x] = mark[x]
      BY <1>0, <2>1
    <2>7. \A q \in Pod, j \in Item : Running(q, j)' => flight'[q][j].inv.st = "running"
      BY <2>1 DEF RecordsOK, Running
    <2> QED
      BY <2>1, <2>4, <2>5, <2>6, <2>7 DEF RecordsOK
  <1> QED
    BY <1>1, <1>2, <1>3, <1>4

\* A tick's look at the store, its triage and its choice change the tick only.
\* What a tick lists is a record; what it will try is what was running on an
\* old claim; nothing is held.
LEMMA TickMoves ==
  ASSUME TypeOK, NEW p \in Pod, List(p) \/ Triage(p) \/ Pick(p), LockCover
  PROVE  /\ poll' \in [Pod -> PollState] /\ KeepTime
         /\ UNCHANGED <<row, lock, pod, flight, ask, mark, events, lapsed, deaths, disturbed>>
         /\ \A q \in Pod : q # p => poll'[q] = poll[q]
         /\ poll'[p].hold = NoItem
         /\ poll'[p].pc \in {"reclaim", "claim"} =>
              \A i \in poll'[p].todo : flight[p][i].pc = "none"
         /\ poll'[p].pc = "reclaim" => InFlight(p) \subseteq poll'[p].mine
         /\ poll'[p].pc \in {"listed", "reclaim"} =>
              \A i \in poll'[p].todo : \/ row[i].st # "over" /\ poll'[p].rows[i].attempts = row[i].attempts
                                       \/ /\ poll[p].pc = "listed" /\ i \in poll[p].todo
                                          /\ poll'[p].rows = poll[p].rows
  <1>0. poll \in [Pod -> PollState] /\ poll[p] \in PollState /\ row \in [Item -> Record]
    BY Parts
  <1>1. CASE List(p)
    <2> DEFINE L == [i \in Item |-> IF row[i].st \in {"queued", "running"}
                                    THEN As(row[i], row[i].st) ELSE NoRow]
               T == {i \in Item : row[i].st = "running" /\ staleClaim(row[i])}
               n == [NoPoll EXCEPT !.pc = "listed", !.rows = L, !.todo = T]
    <2>1. poll' = [poll EXCEPT ![p] = n] /\ KeepTime
          /\ UNCHANGED <<row, lock, pod, flight, ask, mark, events, lapsed, deaths, disturbed>>
      BY <1>1 DEF List, storeVars
    <2>2. \A i \in Item : L[i] \in Record /\ (row[i].st = "running" => L[i].attempts = row[i].attempts)
      BY <1>0, AsType, EmptyTypes
    <2>3. L \in [Item -> Record] /\ T \in SUBSET Item
      BY <2>2
    <2>4. \A i \in T : row[i].st # "over" /\ L[i].attempts = row[i].attempts
      BY <2>2
    <2> HIDE DEF L, T
    <2>5. n \in PollState /\ n.pc = "listed" /\ n.hold = NoItem /\ n.rows = L /\ n.todo = T
      BY <2>3, EmptyTypes DEF PollState
    <2> HIDE DEF n
    <2>6. poll' \in [Pod -> PollState] /\ poll'[p] = n /\ \A q \in Pod : q # p => poll'[q] = poll[q]
      BY <1>0, <2>1, <2>5
    <2> QED
      BY <2>1, <2>4, <2>5, <2>6
  <1>2. CASE Triage(p)
    <2> DEFINE n == [poll[p] EXCEPT !.pc = "reclaim", !.mine = InFlight(p), !.todo = @ \ InFlight(p)]
    <2>1. /\ poll[p].pc = "listed" /\ KeepTime
          /\ UNCHANGED <<row, lock, pod, flight, ask, mark, events, lapsed, deaths, disturbed>>
      BY <1>2 DEF Triage, storeVars
    <2>2. poll' = [poll EXCEPT ![p] = n]
      BY <1>0, <1>2 DEF Triage, PollState
    <2>3. InFlight(p) \in SUBSET Item /\ \A i \in Item \ InFlight(p) : flight[p][i].pc = "none"
      BY DEF InFlight
    <2>4. poll[p].hold = NoItem
      BY <2>1 DEF LockCover
    <2>5. /\ n \in PollState /\ n.pc = "reclaim" /\ n.hold = NoItem /\ n.rows = poll[p].rows
          /\ n.todo = poll[p].todo \ InFlight(p) /\ n.mine = InFlight(p)
      BY <1>0, <2>3, <2>4 DEF PollState
    <2> HIDE DEF n
    <2>6. poll' \in [Pod -> PollState] /\ poll'[p] = n /\ \A q \in Pod : q # p => poll'[q] = poll[q]
      BY <1>0, <2>2, <2>5
    <2>7. n.todo \subseteq Item
      BY <2>5 DEF PollState
    <2> QED
      BY <2>1, <2>3, <2>5, <2>6, <2>7
  <1>3. CASE Pick(p)
    <2>1. /\ poll[p].pc = "reclaim" /\ KeepTime
          /\ UNCHANGED <<row, lock, pod, flight, ask, mark, events, lapsed, deaths, disturbed>>
      BY <1>3 DEF Pick, storeVars
    <2>2. PICK S \in SUBSET (Item \ poll[p].mine) :
            poll' = [poll EXCEPT ![p] = IF S = {} THEN NoPoll
                                        ELSE [NoPoll EXCEPT !.pc = "claim", !.todo = S]]
      BY <1>3 DEF Pick
    <2> DEFINE m == [NoPoll EXCEPT !.pc = "claim", !.todo = S]
               n == IF S = {} THEN NoPoll ELSE m
    <2>3. m \in PollState /\ m.pc = "claim" /\ m.hold = NoItem /\ m.todo = S
      BY <2>2, EmptyTypes DEF PollState
    <2> HIDE DEF m
    <2>4. n \in PollState /\ n.hold = NoItem /\ n.pc \in {"idle", "claim"} /\ n.todo \subseteq S
      BY <2>3, EmptyTypes
    <2>5. \A i \in S : flight[p][i].pc = "none"
      BY <2>1, <2>2 DEF LockCover, InFlight
    <2>6. poll' = [poll EXCEPT ![p] = n]
      BY <2>2 DEF m
    <2> HIDE DEF n
    <2>7. poll' \in [Pod -> PollState] /\ poll'[p] = n /\ \A q \in Pod : q # p => poll'[q] = poll[q]
      BY <1>0, <2>4, <2>6
    <2> QED
      BY <2>1, <2>4, <2>5, <2>7
  <1> QED
    BY <1>1, <1>2, <1>3

-----------------------------------------------------------------------------
(* The parts of the invariant, one by one.                                 *)

FlightsLocked == \A p \in Pod, i \in Item :
                   flight[p][i].pc # "none" /\ <<p, i>> \notin lapsed => lock[i] = p
LapsedIn == \A p \in Pod, i \in Item : <<p, i>> \in lapsed => flight[p][i].pc # "none"
HoldsLocked == \A p \in Pod : poll[p].hold # NoItem =>
                 /\ lock[poll[p].hold] = p
                 /\ poll[p].hold \in poll[p].todo /\ poll[p].pc \in {"reclaim", "claim"}
TodoOut == \A p \in Pod : poll[p].pc \in {"reclaim", "claim"} =>
             \A i \in poll[p].todo : flight[p][i].pc = "none"
MineIn == \A p \in Pod : poll[p].pc = "reclaim" =>
            \A i \in Item : flight[p][i].pc # "none" => i \in poll[p].mine
Counts(n, d) == IF n.st = "over" THEN d <= MaxAttempts ELSE n.attempts >= d
RunsCover == \A i \in Item \ disturbed :
               /\ Counts(row[i], deaths[i])
               /\ \A p \in Pod : Running(p, i) =>
                    /\ row[i].attempts > deaths[i] /\ flight[p][i].inv.attempts > deaths[i]
                    /\ <<p, i>> \notin lapsed
Listed(p, i) == poll[p].pc \in {"listed", "reclaim"} /\ i \in poll[p].todo
ListsCover == \A i \in Item \ disturbed, p \in Pod : Listed(p, i) =>
                \/ poll[p].rows[i].attempts >= deaths[i]
                \/ lock[i] = Orphan /\ p \in span[i]

\* The invariant is the conjunction of these parts.
LEMMA Split ==
  /\ LockCover <=> FlightsLocked /\ LapsedIn /\ HoldsLocked /\ TodoOut /\ MineIn
  /\ AttemptsCover <=> RunsCover /\ ListsCover
  <1>1. LockCover <=> FlightsLocked /\ LapsedIn /\ HoldsLocked /\ TodoOut /\ MineIn
    BY DEF LockCover, FlightsLocked, LapsedIn, HoldsLocked, TodoOut, MineIn, InFlight
  <1>2. AttemptsCover <=> RunsCover /\ ListsCover
    BY DEF AttemptsCover, RunsCover, ListsCover, Listed, Counts
  <1> QED
    BY <1>1, <1>2

\* The same in the next state.
LEMMA SplitNext ==
  /\ LockCover' <=> (FlightsLocked /\ LapsedIn /\ HoldsLocked /\ TodoOut /\ MineIn)'
  /\ AttemptsCover' <=> (RunsCover /\ ListsCover)'
  BY Split, PTL

\* A list stays covered while its tick goes on with what it listed, whatever
\* becomes of a lock, as long as a lock without a known holder stays so.
LEMMA ListsKept ==
  ASSUME TypeOK, KeepTime, ListsCover, deaths' = deaths, disturbed \subseteq disturbed',
         \A i \in Item, q \in Pod : Listed(q, i)' =>
           Listed(q, i) /\ poll'[q].rows = poll[q].rows /\ (lock[i] = Orphan => lock'[i] = Orphan)
  PROVE  ListsCover'
  <1>1. SUFFICES ASSUME NEW i \in Item \ disturbed', NEW q \in Pod, Listed(q, i)'
                 PROVE  \/ poll'[q].rows[i].attempts >= deaths'[i]
                        \/ lock'[i] = Orphan /\ q \in span'[i]
    BY DEF ListsCover
  <1>2. i \in Item \ disturbed /\ Listed(q, i) /\ poll'[q].rows = poll[q].rows
        /\ (lock[i] = Orphan => lock'[i] = Orphan) /\ poll'[q].pc # "idle"
    BY <1>1 DEF Listed
  <1>3. poll[q].rows[i].attempts >= deaths[i] \/ (lock[i] = Orphan /\ q \in span[i])
    BY <1>2 DEF ListsCover
  <1> QED
    BY <1>2, <1>3, TimeKept

-----------------------------------------------------------------------------
(* One lemma per operation: it keeps the invariant.                        *)

\* Listing, triage and the choice of work.
LEMMA TickMovesInv ==
  ASSUME DrainInv, NEW p \in Pod, List(p) \/ Triage(p) \/ Pick(p)
  PROVE  DrainInv'
  <1>0. TypeOK /\ RecordsOK /\ LockCover /\ AttemptsCover
    BY DEF DrainInv
  <1>1. /\ poll' \in [Pod -> PollState] /\ KeepTime
        /\ UNCHANGED <<row, lock, pod, flight, ask, mark, events, lapsed, deaths, disturbed>>
        /\ \A q \in Pod : q # p => poll'[q] = poll[q]
        /\ poll'[p].hold = NoItem
        /\ poll'[p].pc \in {"reclaim", "claim"} =>
              \A i \in poll'[p].todo : flight[p][i].pc = "none"
        /\ poll'[p].pc = "reclaim" => InFlight(p) \subseteq poll'[p].mine
        /\ poll'[p].pc \in {"listed", "reclaim"} =>
              \A i \in poll'[p].todo : \/ row[i].st # "over" /\ poll'[p].rows[i].attempts = row[i].attempts
                                       \/ /\ poll[p].pc = "listed" /\ i \in poll[p].todo
                                          /\ poll'[p].rows = poll[p].rows
    BY <1>0, TickMoves
  <1>2. TypeOK'
    BY <1>0, <1>1, Parts, TimeKept DEF TypeOK, PollState
  <1>3. RecordsOK'
    BY <1>0, <1>1 DEF RecordsOK, Running
  <1>4. LockCover'
    <2>1. FlightsLocked' /\ LapsedIn'
      BY <1>0, <1>1, Split DEF FlightsLocked, LapsedIn
    <2>2. HoldsLocked'
      BY <1>0, <1>1, Split DEF HoldsLocked
    <2>3. TodoOut'
      BY <1>0, <1>1, Split DEF TodoOut
    <2>4. MineIn'
      BY <1>0, <1>1, Split DEF MineIn, InFlight
    <2> QED
      BY <2>1, <2>2, <2>3, <2>4, SplitNext
  <1>5. AttemptsCover'
    <2>1. RunsCover'
      BY <1>0, <1>1, Split DEF RunsCover, Running
    <2>2. ASSUME NEW i \in Item \ disturbed', NEW q \in Pod, Listed(q, i)'
          PROVE  \/ poll'[q].rows[i].attempts >= deaths'[i]
                 \/ lock'[i] = Orphan /\ q \in span'[i]
      <3>1. i \in Item \ disturbed /\ Counts(row[i], deaths[i]) /\ poll'[q].pc # "idle"
        BY <1>0, <1>1, <2>2, Split DEF RunsCover, Listed
      <3>2. CASE q = p /\ row[i].st # "over" /\ poll'[p].rows[i].attempts = row[i].attempts
        BY <1>1, <3>1, <3>2 DEF Counts
      <3>3. CASE Listed(q, i) /\ poll'[q].rows = poll[q].rows
        <4>1. poll[q].rows[i].attempts >= deaths[i] \/ (lock[i] = Orphan /\ q \in span[i])
          BY <1>0, <3>1, <3>3, Split DEF ListsCover
        <4> QED
          BY <1>0, <1>1, <3>1, <3>3, <4>1, TimeKept
      <3> QED
        BY <1>1, <2>2, <3>2, <3>3 DEF Listed
    <2>3. ListsCover'
      BY <2>2 DEF ListsCover
    <2> QED
      BY <2>1, <2>3, SplitNext
  <1> QED
    BY <1>2, <1>3, <1>4, <1>5 DEF DrainInv

\* Whatever the tick of one pod gives up it no longer holds; the rest of the
\* steps that leave the store and the executors alone.
LEMMA QuietInv ==
  ASSUME DrainInv, KeepTime, pod' \in [Pod -> {"up", "drain", "cut"}],
         events' \in 0..MaxEvents, poll' \in [Pod -> PollState],
         UNCHANGED <<row, lock, flight, ask, mark, lapsed, deaths, disturbed>>,
         \A q \in Pod : poll'[q] = poll[q] \/ poll'[q] = NoPoll
  PROVE  DrainInv'
  <1>0. TypeOK /\ RecordsOK /\ LockCover /\ AttemptsCover
    BY DEF DrainInv
  <1>1. \A q \in Pod : poll'[q] = poll[q] \/ (poll'[q].pc = "idle" /\ poll'[q].hold = NoItem)
    BY EmptyTypes
  <1>2. TypeOK'
    BY <1>0, Parts, TimeKept DEF TypeOK, PollState
  <1>3. RecordsOK'
    BY <1>0 DEF RecordsOK, Running
  <1>4. LockCover'
    <2>1. FlightsLocked' /\ LapsedIn' /\ HoldsLocked'
      BY <1>0, <1>1, Split DEF FlightsLocked, LapsedIn, HoldsLocked
    <2>2. TodoOut' /\ MineIn'
      BY <1>0, <1>1, Split DEF TodoOut, MineIn
    <2> QED
      BY <2>1, <2>2, SplitNext
  <1>5. AttemptsCover'
    <2>1. RunsCover'
      BY <1>0, Split DEF RunsCover, Running
    <2>2. ListsCover'
      <3>1. \A i \in Item, q \in Pod : Listed(q, i)' => Listed(q, i) /\ poll'[q].rows = poll[q].rows
        BY <1>1 DEF Listed
      <3> QED
        BY <1>0, <3>1, ListsKept, Split
    <2> QED
      BY <2>1, <2>2, SplitNext
  <1> QED
    BY <1>2, <1>3, <1>4, <1>5 DEF DrainInv

\* Shutdown, but for the end of the process.
LEMMA PodMovesInv ==
  ASSUME DrainInv, NEW p \in Pod, Sigterm(p) \/ GraceOver(p)
  PROVE  DrainInv'
  <1>0. TypeOK
    BY DEF DrainInv
  <1>1. /\ KeepTime /\ UNCHANGED <<row, lock, flight, ask, mark, lapsed, deaths, disturbed>>
        /\ pod' \in [Pod -> {"up", "drain", "cut"}] /\ events' \in 0..MaxEvents
    <2>1. CASE Sigterm(p)
      BY <1>0, <2>1, Parts, DrainAssumption DEF Sigterm, storeVars, Event
    <2>2. CASE GraceOver(p)
      BY <1>0, <2>2, Parts DEF GraceOver, storeVars
    <2> QED
      BY <2>1, <2>2
  <1>2. poll' = poll \/ poll' = [poll EXCEPT ![p] = NoPoll]
    BY DEF Sigterm, GraceOver
  <1>3. poll' \in [Pod -> PollState] /\ \A q \in Pod : poll'[q] = poll[q] \/ poll'[q] = NoPoll
    BY <1>0, <1>2, Parts, EmptyTypes
  <1> QED
    BY <1>1, <1>3, QuietInv

\* A request's read.
LEMMA RequestLoadInv ==
  ASSUME DrainInv, NEW o \in Operator, NEW i \in Item, EnqueueLoad(o, i) \/ MarkLoad(o, i)
  PROVE  DrainInv'
  <1>0. TypeOK /\ RecordsOK /\ LockCover /\ AttemptsCover
    BY DEF DrainInv
  <1>1. KeepTime /\ UNCHANGED <<row, lock, pod, poll, flight, lapsed, deaths, disturbed>>
    BY DEF EnqueueLoad, MarkLoad, storeVars
  <1>2. TypeOK' /\ RecordsOK'
    BY <1>0, RequestTypes
  <1>4. LockCover'
    BY <1>0, <1>1 DEF LockCover, InFlight
  <1>5. AttemptsCover'
    <2>1. RunsCover'
      BY <1>0, <1>1, Split DEF RunsCover, Running
    <2>2. ListsCover'
      <3>1. \A j \in Item, q \in Pod : Listed(q, j)' => Listed(q, j)
        BY <1>1 DEF Listed
      <3> QED
        BY <1>0, <1>1, <3>1, ListsKept, Split
    <2> QED
      BY <2>1, <2>2, SplitNext
  <1> QED
    BY <1>2, <1>4, <1>5 DEF DrainInv

\* A request's write: the count of deaths starts again with the attempts.
LEMMA EnqueueSaveInv ==
  ASSUME DrainInv, NEW o \in Operator, EnqueueSave(o)
  PROVE  DrainInv'
  <1> DEFINE i == ask[o].item
             n == ask[o].inv
  <1>0. TypeOK /\ RecordsOK /\ LockCover /\ AttemptsCover
    BY DEF DrainInv
  <1>1. /\ KeepTime /\ UNCHANGED <<lock, pod, poll, flight, mark, events, lapsed>>
        /\ ask[o] # NoAsk /\ row' = [row EXCEPT ![i] = n] /\ deaths' = [deaths EXCEPT ![i] = 0]
        /\ disturbed' = (disturbed \ {i}) \union {j \in {i} : \E p \in Pod : Running(p, j)}
    BY DEF EnqueueSave
  <1>2. TypeOK' /\ RecordsOK'
    BY <1>0, RequestTypes
  <1>3. i \in Item
    BY <1>0, <1>1 DEF RecordsOK
  <1>4. n.st = "queued" /\ n.attempts = 0
    BY <1>0, <1>1 DEF RecordsOK
  <1> HIDE DEF i, n
  <1>5. /\ row'[i].st = "queued" /\ row'[i].attempts = 0 /\ deaths'[i] = 0
        /\ \A j \in Item : j # i => row'[j] = row[j] /\ deaths'[j] = deaths[j]
    BY <1>0, <1>1, <1>3, <1>4, Parts
  <1>6. LockCover'
    BY <1>0, <1>1 DEF LockCover, InFlight
  <1>7. ASSUME NEW j \in Item \ disturbed'
        PROVE  /\ Counts(row'[j], deaths'[j])
               /\ \A p \in Pod : Running(p, j)' =>
                    /\ row'[j].attempts > deaths'[j] /\ flight'[p][j].inv.attempts > deaths'[j]
                    /\ <<p, j>> \notin lapsed'
    <2>1. CASE j = i
      BY <1>1, <1>5, <2>1, <1>7 DEF Running, Counts
    <2>2. CASE j # i
      <3>1. j \in Item \ disturbed
        BY <1>1, <2>2, <1>7
      <3> QED
        BY <1>0, <1>1, <1>5, <2>2, <3>1, Split DEF RunsCover, Running
    <2> QED
      BY <2>1, <2>2
  <1>8. ASSUME NEW j \in Item \ disturbed', NEW q \in Pod, Listed(q, j)'
        PROVE  \/ poll'[q].rows[j].attempts >= deaths'[j]
               \/ lock'[j] = Orphan /\ q \in span'[j]
    <2>1. CASE j = i
      <3>1. poll[q].rows[i] \in Record
        BY <1>0, <1>3, Parts DEF PollState
      <3> QED
        BY <1>1, <1>5, <2>1, <3>1 DEF Record
    <2>2. CASE j # i
      <3>1. j \in Item \ disturbed /\ Listed(q, j)
        BY <1>1, <2>2, <1>8 DEF Listed
      <3>2. poll[q].rows[j].attempts >= deaths[j] \/ (lock[j] = Orphan /\ q \in span[j])
        BY <1>0, <3>1, Split DEF ListsCover
      <3>3. poll'[q].pc # "idle"
        BY <1>8 DEF Listed
      <3> QED
        BY <1>0, <1>1, <1>5, <2>2, <3>1, <3>2, <3>3, TimeKept
    <2> QED
      BY <2>1, <2>2
  <1>9. AttemptsCover'
    <2>1. RunsCover'
      BY <1>7 DEF RunsCover, Counts
    <2>2. ListsCover'
      BY <1>8 DEF ListsCover
    <2> QED
      BY <2>1, <2>2, SplitNext
  <1> QED
    BY <1>2, <1>6, <1>9 DEF DrainInv

\* A mark's write: either the record is as it was read, or the item counts as
\* disturbed.
LEMMA MarkSaveInv ==
  ASSUME DrainInv, NEW o \in Operator, MarkSave(o)
  PROVE  DrainInv'
  <1>0. TypeOK /\ RecordsOK /\ LockCover /\ AttemptsCover
    BY DEF DrainInv
  <1>1. /\ KeepTime /\ UNCHANGED <<lock, pod, poll, flight, ask, events, lapsed, deaths>>
        /\ row' = [row EXCEPT ![mark[o].item] = mark[o].inv]
        /\ disturbed' = disturbed \union {i \in {mark[o].item} : row[i] # mark[o].inv}
    BY DEF MarkSave
  <1>2. TypeOK' /\ RecordsOK'
    BY <1>0, RequestTypes
  <1>3. \A j \in Item \ disturbed' : row'[j] = row[j] /\ j \notin disturbed
    BY <1>0, <1>1, Parts
  <1>4. LockCover'
    BY <1>0, <1>1 DEF LockCover, InFlight
  <1>5. RunsCover'
    BY <1>0, <1>1, <1>3, Split DEF RunsCover, Counts, Running
  <1>6. ListsCover'
    <2>1. \A j \in Item, q \in Pod : Listed(q, j)' => Listed(q, j)
      BY <1>1 DEF Listed
    <2> QED
      BY <1>0, <1>1, <2>1, ListsKept, Split
  <1> QED
    BY <1>2, <1>4, <1>5, <1>6, SplitNext DEF DrainInv

\* A token nobody knows runs out only after the ticks that saw its holder.
LEMMA ExpireInv ==
  ASSUME DrainInv, NEW i \in Item, Expire(i)
  PROVE  DrainInv'
  <1>0. TypeOK /\ RecordsOK /\ LockCover /\ AttemptsCover
    BY DEF DrainInv
  <1>1. /\ KeepTime /\ UNCHANGED <<row, pod, poll, flight, ask, mark, events, lapsed, deaths, disturbed>>
        /\ lock[i] = Orphan /\ span[i] = {} /\ lock' = [lock EXCEPT ![i] = NoPod]
    BY DEF Expire
  <1>2. lock' \in [Item -> Pod \union {NoPod, Orphan}]
        /\ \A j \in Item : j # i => lock'[j] = lock[j]
    BY <1>0, <1>1, Parts
  <1>3. TypeOK'
    BY <1>0, <1>1, <1>2, Parts, TimeKept DEF TypeOK
  <1>4. RecordsOK'
    BY <1>0, <1>1 DEF RecordsOK, Running
  <1>5. LockCover'
    <2>1. FlightsLocked' /\ LapsedIn'
      BY <1>0, <1>1, <1>2, Split, DrainAssumption DEF FlightsLocked, LapsedIn
    <2>2. HoldsLocked'
      <3>1. \A q \in Pod : poll[q].hold # NoItem => poll[q].hold \in Item
        BY <1>0, Parts DEF PollState
      <3> QED
        BY <1>0, <1>1, <1>2, <3>1, Split, DrainAssumption DEF HoldsLocked
    <2>3. TodoOut' /\ MineIn'
      BY <1>0, <1>1, Split DEF TodoOut, MineIn
    <2> QED
      BY <2>1, <2>2, <2>3, SplitNext
  <1>6. AttemptsCover'
    <2>1. RunsCover'
      BY <1>0, <1>1, Split DEF RunsCover, Running
    <2>2. ASSUME NEW j \in Item \ disturbed', NEW q \in Pod, Listed(q, j)'
          PROVE  \/ poll'[q].rows[j].attempts >= deaths'[j]
                 \/ lock'[j] = Orphan /\ q \in span'[j]
      <3>1. j \in Item \ disturbed /\ Listed(q, j) /\ poll'[q].pc # "idle"
        BY <1>1, <2>2 DEF Listed
      <3>2. poll[q].rows[j].attempts >= deaths[j] \/ (lock[j] = Orphan /\ q \in span[j])
        BY <1>0, <3>1, Split DEF ListsCover
      <3> QED
        BY <1>0, <1>1, <1>2, <3>1, <3>2, TimeKept
    <2>3. ListsCover'
      BY <2>2 DEF ListsCover
    <2> QED
      BY <2>1, <2>3, SplitNext
  <1> QED
    BY <1>3, <1>4, <1>5, <1>6 DEF DrainInv

\* Ageing changes the ages only.
LEMMA AgeInv ==
  ASSUME DrainInv, NEW i \in Item, NEW c \in Claim, Age(i, c)
  PROVE  DrainInv'
  <1>0. TypeOK /\ RecordsOK /\ LockCover /\ AttemptsCover
    BY DEF DrainInv
  <1>1. /\ UNCHANGED <<row, lock, pod, poll, span, flight, ask, mark, events, lapsed, deaths, disturbed>>
        /\ old' = old \union {c}
    BY DEF Age, storeVars
  <1>2. TypeOK'
    BY <1>0, <1>1 DEF TypeOK
  <1>3. RecordsOK' /\ LockCover'
    BY <1>0, <1>1 DEF RecordsOK, LockCover, Running, InFlight
  <1>4. AttemptsCover'
    BY <1>0, <1>1 DEF AttemptsCover, Running
  <1> QED
    BY <1>2, <1>3, <1>4 DEF DrainInv

\* The tick goes on without i, whose lock is left alone, was free or is the
\* pod's own: the other ticks do not notice.
LEMMA DoneTicks ==
  ASSUME DrainInv, KeepTime, NEW p \in Pod, NEW i \in Item, Done(p, i),
         deaths' = deaths, disturbed' = disturbed,
         \A j \in Item : lock'[j] = lock[j] \/ (j = i /\ lock[i] \in {p, NoPod}),
         \A q \in Pod, j \in Item : \/ flight'[q][j] = flight[q][j]
                                    \/ q = p /\ j = i /\ poll[p].pc = "claim"
  PROVE  /\ poll' \in [Pod -> PollState]
         /\ HoldsLocked' /\ TodoOut' /\ MineIn' /\ ListsCover'
  <1>0. TypeOK /\ RecordsOK /\ LockCover /\ AttemptsCover
    BY DEF DrainInv
  <1>1. poll' \in [Pod -> PollState] /\ Narrowed(p) /\ poll'[p].todo \subseteq poll[p].todo \ {i}
    BY <1>0, DoneStep
  <1>2. \A q \in Pod : /\ poll'[q].pc = "idle" \/ poll'[q].pc = poll[q].pc
                       /\ poll'[q].pc # "idle" => /\ poll'[q].rows = poll[q].rows
                                                  /\ poll'[q].mine = poll[q].mine
                       /\ poll'[q].todo \subseteq poll[q].todo
    BY <1>1, EmptyTypes DEF Narrowed
  <1>3. HoldsLocked'
    <2>1. SUFFICES ASSUME NEW q \in Pod, poll'[q].hold # NoItem
                   PROVE  /\ lock'[poll'[q].hold] = q
                          /\ poll'[q].hold \in poll'[q].todo /\ poll'[q].pc \in {"reclaim", "claim"}
      BY DEF HoldsLocked
    <2>2. q # p /\ poll'[q] = poll[q]
      BY <1>1, <2>1 DEF Narrowed
    <2>3. poll[q].hold \in Item
      BY <1>0, <2>1, <2>2, Parts DEF PollState
    <2>4. /\ lock[poll[q].hold] = q
          /\ poll[q].hold \in poll[q].todo /\ poll[q].pc \in {"reclaim", "claim"}
      BY <1>0, <2>1, <2>2, Split DEF HoldsLocked
    <2> QED
      BY <2>2, <2>3, <2>4, DrainAssumption
  <1>4. TodoOut'
    <2>1. SUFFICES ASSUME NEW q \in Pod, poll'[q].pc \in {"reclaim", "claim"}, NEW j \in poll'[q].todo
                   PROVE  flight'[q][j].pc = "none"
      BY DEF TodoOut
    <2>2. poll[q].pc \in {"reclaim", "claim"} /\ j \in poll[q].todo /\ (q = p => j # i)
      BY <1>1, <1>2, <2>1
    <2>3. j \in Item
      BY <1>0, <2>2, Parts DEF PollState
    <2> QED
      BY <1>0, <2>2, <2>3, Split DEF TodoOut
  <1>5. MineIn'
    <2>1. SUFFICES ASSUME NEW q \in Pod, poll'[q].pc = "reclaim",
                          NEW j \in Item, flight'[q][j].pc # "none"
                   PROVE  j \in poll'[q].mine
      BY DEF MineIn
    <2>2. poll[q].pc = "reclaim" /\ poll'[q].mine = poll[q].mine
      BY <1>2, <2>1
    <2> QED
      BY <1>0, <2>1, <2>2, Split DEF MineIn
  <1>6. ListsCover'
    <2>1. ASSUME NEW j \in Item, NEW q \in Pod, Listed(q, j)'
          PROVE  Listed(q, j) /\ poll'[q].rows = poll[q].rows /\ (lock[j] = Orphan => lock'[j] = Orphan)
      <3>1. Listed(q, j) /\ poll'[q].rows = poll[q].rows
        BY <1>2, <2>1 DEF Listed
      <3> QED
        BY <3>1, DrainAssumption
    <2> QED
      BY <1>0, <2>1, ListsKept, Split
  <1> QED
    BY <1>1, <1>3, <1>4, <1>5, <1>6

\* The pod that holds an item in a tick has its lock and does not execute it;
\* nobody does, unless the item was disturbed.
LEMMA HeldItem ==
  ASSUME DrainInv, NEW p \in Pod, poll[p].hold # NoItem
  PROVE  /\ poll[p].hold \in Item /\ lock[poll[p].hold] = p
         /\ flight[p][poll[p].hold].pc = "none" /\ <<p, poll[p].hold>> \notin lapsed
         /\ poll[p].hold \in poll[p].todo
         /\ \A q \in Pod : flight[q][poll[p].hold].pc # "none" => <<q, poll[p].hold>> \in lapsed
         /\ poll[p].hold \notin disturbed => \A q \in Pod : ~Running(q, poll[p].hold)
  <1>0. TypeOK /\ RecordsOK /\ LockCover /\ AttemptsCover
    BY DEF DrainInv
  <1> DEFINE i == poll[p].hold
  <1>1. i \in Item
    BY <1>0, Parts DEF PollState
  <1>2. lock[i] = p /\ i \in poll[p].todo /\ poll[p].pc \in {"reclaim", "claim"}
    BY <1>0, Split DEF HoldsLocked
  <1> HIDE DEF i
  <1>3. flight[p][i].pc = "none"
    BY <1>0, <1>2, Split DEF TodoOut
  <1>4. \A q \in Pod : flight[q][i].pc # "none" => <<q, i>> \in lapsed
    BY <1>0, <1>1, <1>2, <1>3, Split DEF FlightsLocked
  <1>5. <<p, i>> \notin lapsed
    BY <1>0, <1>1, <1>3, Split DEF LapsedIn
  <1>6. i \notin disturbed => \A q \in Pod : ~Running(q, i)
    BY <1>0, <1>1, <1>4, Split DEF RunsCover, Running
  <1> QED
    BY <1>1, <1>2, <1>3, <1>4, <1>5, <1>6 DEF i

\* TryAcquire: a lock that is taken stays with its holder, and a free one had
\* nobody relying on it.
LEMMA TryAcquireInv ==
  ASSUME DrainInv, NEW p \in Pod, NEW i \in Item, TryAcquire(p, i)
  PROVE  DrainInv'
  <1>0. TypeOK /\ RecordsOK /\ LockCover /\ AttemptsCover
    BY DEF DrainInv
  <1>1. /\ KeepTime /\ UNCHANGED <<row, pod, flight, ask, mark, lapsed, deaths, disturbed>>
        /\ poll[p].pc \in {"reclaim", "claim"} /\ poll[p].hold = NoItem /\ i \in poll[p].todo
    BY DEF TryAcquire
  <1>2. CASE lock[i] = NoPod /\ lock' = [lock EXCEPT ![i] = p]
             /\ poll' = [poll EXCEPT ![p].hold = i] /\ UNCHANGED events
    <2> DEFINE n == [poll[p] EXCEPT !.hold = i]
    <2>1. poll[p] \in PollState /\ poll \in [Pod -> PollState]
      BY <1>0, Parts
    <2>2. n \in PollState /\ n.hold = i /\ n.pc = poll[p].pc /\ n.todo = poll[p].todo
          /\ n.rows = poll[p].rows /\ n.mine = poll[p].mine
      BY <2>1 DEF PollState
    <2>3. poll' = [poll EXCEPT ![p] = n]
      BY <1>2
    <2> HIDE DEF n
    <2>4. poll' \in [Pod -> PollState] /\ poll'[p] = n /\ \A q \in Pod : q # p => poll'[q] = poll[q]
      BY <2>1, <2>2, <2>3
    <2>5. /\ lock' \in [Item -> Pod \union {NoPod, Orphan}] /\ lock'[i] = p
          /\ \A j \in Item : j # i => lock'[j] = lock[j]
      BY <1>0, <1>2, Parts
    <2>6. TypeOK'
      BY <1>0, <1>1, <1>2, <2>4, <2>5, Parts, TimeKept DEF TypeOK, PollState
    <2>7. RecordsOK'
      BY <1>0, <1>1 DEF RecordsOK, Running
    <2>8. FlightsLocked' /\ LapsedIn'
      BY <1>0, <1>1, <1>2, <2>5, Split, DrainAssumption DEF FlightsLocked, LapsedIn
    <2>9. HoldsLocked'
      <3>1. SUFFICES ASSUME NEW q \in Pod, poll'[q].hold # NoItem, q # p
                     PROVE  /\ lock'[poll'[q].hold] = q
                            /\ poll'[q].hold \in poll'[q].todo /\ poll'[q].pc \in {"reclaim", "claim"}
        BY <1>1, <2>2, <2>4, <2>5 DEF HoldsLocked
      <3>2. poll'[q] = poll[q] /\ poll[q].hold \in Item
        BY <1>0, <3>1, <2>4, Parts DEF PollState
      <3>3. /\ lock[poll[q].hold] = q
            /\ poll[q].hold \in poll[q].todo /\ poll[q].pc \in {"reclaim", "claim"}
        BY <1>0, <3>1, <3>2, Split DEF HoldsLocked
      <3> QED
        BY <1>2, <2>5, <3>2, <3>3, DrainAssumption
    <2>10. TodoOut' /\ MineIn'
      BY <1>0, <1>1, <2>2, <2>4, Split DEF TodoOut, MineIn
    <2>11. RunsCover'
      BY <1>0, <1>1, Split DEF RunsCover, Running
    <2>12. ListsCover'
      <3>1. \A j \in Item, q \in Pod : Listed(q, j)' =>
              Listed(q, j) /\ poll'[q].rows = poll[q].rows /\ (lock[j] = Orphan => lock'[j] = Orphan)
        BY <1>2, <2>2, <2>4, <2>5, DrainAssumption DEF Listed
      <3> QED
        BY <1>0, <1>1, <3>1, ListsKept, Split
    <2> QED
      BY <2>6, <2>7, <2>8, <2>9, <2>10, <2>11, <2>12, SplitNext DEF DrainInv
  <1>3. CASE Done(p, i) /\ (lock' = lock \/ (lock[i] = NoPod /\ lock' = [lock EXCEPT ![i] = Orphan]))
             /\ (events' = events \/ Event)
    <2>1. /\ lock' \in [Item -> Pod \union {NoPod, Orphan}] /\ events' \in 0..MaxEvents
          /\ \A j \in Item : lock'[j] = lock[j] \/ (j = i /\ lock[i] = NoPod)
      BY <1>0, <1>3, Parts, DrainAssumption DEF Event
    <2>2. poll' \in [Pod -> PollState] /\ HoldsLocked' /\ TodoOut' /\ MineIn' /\ ListsCover'
      BY <1>1, <1>3, <2>1, DoneTicks
    <2>3. TypeOK'
      BY <1>0, <1>1, <2>1, <2>2, Parts, TimeKept DEF TypeOK, PollState
    <2>4. RecordsOK'
      BY <1>0, <1>1 DEF RecordsOK, Running
    <2>5. FlightsLocked' /\ LapsedIn'
      BY <1>0, <1>1, <2>1, Split, DrainAssumption DEF FlightsLocked, LapsedIn
    <2>6. RunsCover'
      BY <1>0, <1>1, Split DEF RunsCover, Running
    <2> QED
      BY <2>2, <2>3, <2>4, <2>5, <2>6, SplitNext DEF DrainInv
  <1> QED
    BY <1>2, <1>3 DEF TryAcquire

\* The held item is dealt with: its lock goes or stays, its record is saved as
\* one that counts what died, and its executor starts at most on this pod.
LEMMA HeldDoneInv ==
  ASSUME DrainInv, NEW p \in Pod, poll[p].hold # NoItem, Done(p, poll[p].hold), KeepTime,
         UNCHANGED <<pod, ask, mark, lapsed, deaths, disturbed>>, events' \in 0..MaxEvents,
         lock' \in [Item -> Pod \union {NoPod, Orphan}],
         \A j \in Item : lock'[j] = lock[j] \/ (j = poll[p].hold /\ flight' = flight),
         NEW n \in Record, row' = [row EXCEPT ![poll[p].hold] = n],
         n.st = "queued" => n.attempts < MaxAttempts,
         poll[p].hold \notin disturbed => Counts(n, deaths[poll[p].hold]),
         \/ flight' = flight
         \/ /\ poll[p].pc = "claim" /\ n.st = "running"
            /\ flight' = [flight EXCEPT ![p][poll[p].hold] = [pc |-> "run", inv |-> n]]
            /\ poll[p].hold \notin disturbed => n.attempts > deaths[poll[p].hold]
  PROVE  DrainInv'
  <1> DEFINE i == poll[p].hold
             f == [pc |-> "run", inv |-> n]
  <1>0. TypeOK /\ RecordsOK /\ LockCover /\ AttemptsCover
    BY DEF DrainInv
  <1>1. /\ i \in Item /\ lock[i] = p
        /\ flight[p][i].pc = "none" /\ <<p, i>> \notin lapsed /\ i \in poll[p].todo
        /\ \A q \in Pod : flight[q][i].pc # "none" => <<q, i>> \in lapsed
        /\ i \notin disturbed => \A q \in Pod : ~Running(q, i)
    BY HeldItem
  <1>2. f \in FlightState /\ f.pc = "run" /\ f.inv = n
    BY DEF FlightState
  <1> HIDE DEF f, i
  <1>3. /\ flight' \in [Pod -> [Item -> FlightState]]
        /\ \A q \in Pod, j \in Item :
             \/ flight'[q][j] = flight[q][j]
             \/ q = p /\ j = i /\ poll[p].pc = "claim" /\ flight'[q][j] = f
      <2>1. flight \in [Pod -> [Item -> FlightState]]
        BY <1>0, Parts
      <2> QED
        BY <1>1, <1>2, <2>1 DEF f, i
  <1>4. row' \in [Item -> Record] /\ row'[i] = n /\ \A j \in Item : j # i => row'[j] = row[j]
    BY <1>0, <1>1, Parts DEF i
  <1>5. poll' \in [Pod -> PollState] /\ HoldsLocked' /\ TodoOut' /\ MineIn' /\ ListsCover'
    <2>1. Done(p, i)
      BY DEF i
    <2>2. \A j \in Item : lock'[j] = lock[j] \/ (j = i /\ lock[i] \in {p, NoPod})
      BY <1>1 DEF i
    <2>3. \A q \in Pod, j \in Item : \/ flight'[q][j] = flight[q][j]
                                     \/ q = p /\ j = i /\ poll[p].pc = "claim"
      BY <1>3
    <2> QED
      BY <1>1, <2>1, <2>2, <2>3, DoneTicks
  <1>6. TypeOK'
    BY <1>0, <1>3, <1>4, <1>5, Parts, TimeKept DEF TypeOK, PollState, FlightState
  <1>7. RecordsOK'
    <2>1. \A j \in Item : row'[j].st = "queued" => row'[j].attempts < MaxAttempts
      BY <1>0, <1>4 DEF RecordsOK
    <2>2. \A q \in Pod, j \in Item : Running(q, j)' => flight'[q][j].inv.st = "running"
      BY <1>0, <1>1, <1>2, <1>3 DEF RecordsOK, Running
    <2> QED
      BY <1>0, <2>1, <2>2 DEF RecordsOK
  <1>8. FlightsLocked' /\ LapsedIn'
    <2>1. FlightsLocked'
      <3>1. SUFFICES ASSUME NEW q \in Pod, NEW j \in Item, flight'[q][j].pc # "none",
                            <<q, j>> \notin lapsed'
                     PROVE  lock'[j] = q
        BY DEF FlightsLocked
      <3>2. CASE flight'[q][j] = flight[q][j]
        <4>1. lock[j] = q /\ j # i
          BY <1>0, <1>1, <3>1, <3>2, Split DEF FlightsLocked
        <4> QED
          BY <4>1 DEF i
      <3>3. CASE q = p /\ j = i /\ flight'[q][j] = f
        <4>1. flight' # flight
          BY <1>1, <1>2, <3>3
        <4> QED
          BY <1>1, <3>3, <4>1
      <3> QED
        BY <1>3, <3>2, <3>3
    <2>2. LapsedIn'
      BY <1>0, <1>1, <1>2, <1>3, Split DEF LapsedIn
    <2> QED
      BY <2>1, <2>2
  <1>9. RunsCover'
    <2>1. SUFFICES ASSUME NEW j \in Item \ disturbed
                   PROVE  /\ Counts(row'[j], deaths[j])
                          /\ \A q \in Pod : Running(q, j)' =>
                               /\ row'[j].attempts > deaths[j] /\ flight'[q][j].inv.attempts > deaths[j]
                               /\ <<q, j>> \notin lapsed
      BY DEF RunsCover
    <2>2. CASE j # i
      BY <1>0, <1>3, <1>4, <2>1, <2>2, Split DEF RunsCover, Running
    <2>3. CASE j = i
      <3>1. Counts(n, deaths[i])
        BY <2>1, <2>3 DEF i
      <3>2. ASSUME NEW q \in Pod, flight'[q][j].pc = "run"
            PROVE  q = p /\ flight'[q][j] = f /\ n.attempts > deaths[j]
        <4>1. flight'[q][j] # flight[q][j]
          BY <1>1, <2>1, <2>3, <3>2 DEF Running
        <4>2. q = p /\ flight'[q][j] = f /\ flight' # flight
          BY <1>3, <4>1
        <4> QED
          BY <2>1, <2>3, <4>2 DEF i
      <3> QED
        BY <1>1, <1>2, <1>4, <2>3, <3>1, <3>2 DEF Running
    <2> QED
      BY <2>2, <2>3
  <1> QED
    BY <1>5, <1>6, <1>7, <1>8, <1>9, SplitNext DEF DrainInv

\* reclaim: the tick that holds the lock listed the item's record after its
\* last owner died, or the lock would not be free yet.
LEMMA ReclaimInv ==
  ASSUME DrainInv, NEW p \in Pod, Reclaim(p)
  PROVE  DrainInv'
  <1>0. TypeOK /\ RecordsOK /\ LockCover /\ AttemptsCover
    BY DEF DrainInv
  <1>1. /\ poll[p].pc = "reclaim" /\ poll[p].hold # NoItem /\ Done(p, poll[p].hold) /\ KeepTime
        /\ UNCHANGED <<pod, flight, ask, mark, lapsed, deaths, disturbed>>
    BY DEF Reclaim
  <1>2. PICK i \in Item : i = poll[p].hold
    BY <1>1, HeldItem
  <1>3. lock[i] = p /\ i \in poll[p].todo
    BY <1>1, <1>2, HeldItem
  <1>4. /\ lock' \in [Item -> Pod \union {NoPod, Orphan}] /\ events' \in 0..MaxEvents
        /\ \A j \in Item : lock'[j] = lock[j] \/ j = i
    <2>1. CASE Release(p, i)
      BY <1>0, <2>1, ReleaseType
    <2>2. CASE Event /\ lock' = [lock EXCEPT ![i] = NoPod]
      BY <1>0, <2>2, Parts, DrainAssumption DEF Event
    <2> QED
      BY <1>2, <2>1, <2>2 DEF Reclaim
  <1>5. poll[p].rows[i] \in Record /\ row[i] \in Record
    BY <1>0, Parts DEF PollState
  <1>6. i \notin disturbed => poll[p].rows[i].attempts >= deaths[i] /\ Counts(row[i], deaths[i])
    BY <1>0, <1>1, <1>3, Split, DrainAssumption DEF ListsCover, RunsCover, Listed
  <1>7. /\ reclaimable(poll[p].rows[i]) \in Record
        /\ reclaimable(poll[p].rows[i]).st = "queued"
             => reclaimable(poll[p].rows[i]).attempts < MaxAttempts
        /\ i \notin disturbed => Counts(reclaimable(poll[p].rows[i]), deaths[i])
    <2> DEFINE r == poll[p].rows[i]
    <2>1. r \in Record /\ r.attempts \in Nat /\ r.attempts <= MaxAttempts /\ deaths[i] \in Nat
      BY <1>0, <1>5, Parts, DrainAssumption DEF Record
    <2>2. i \notin disturbed => r.attempts >= deaths[i]
      BY <1>6
    <2> HIDE DEF r
    <2>3. CASE r.attempts >= MaxAttempts
      <3>1. reclaimable(r) = Over(r)
        BY <2>3 DEF reclaimable
      <3>2. Over(r) \in Record /\ Over(r).st = "over"
        BY <2>1, OverType
      <3> QED
        BY <2>1, <2>2, <3>1, <3>2, DrainAssumption DEF r, Counts
    <2>4. CASE ~(r.attempts >= MaxAttempts)
      <3>1. reclaimable(r) = As(r, "queued")
        BY <2>4 DEF reclaimable
      <3>2. As(r, "queued") \in Record /\ As(r, "queued").st = "queued"
            /\ As(r, "queued").attempts = r.attempts
        BY <2>1, AsType
      <3> QED
        BY <2>1, <2>2, <2>4, <3>1, <3>2, DrainAssumption DEF r, Counts
    <2> QED
      BY <2>3, <2>4
  <1>8. \E n \in Record : /\ row' = [row EXCEPT ![i] = n]
                          /\ n.st = "queued" => n.attempts < MaxAttempts
                          /\ i \notin disturbed => Counts(n, deaths[i])
    <2>1. CASE row' = [row EXCEPT ![i] = reclaimable(poll[p].rows[i])]
      BY <1>7, <2>1
    <2>2. CASE row' = row
      <3>1. row' = [row EXCEPT ![i] = row[i]]
        BY <1>0, <2>2, Parts
      <3>2. row[i].st = "queued" => row[i].attempts < MaxAttempts
        BY <1>0 DEF RecordsOK
      <3> QED
        BY <1>5, <1>6, <3>1, <3>2
    <2> QED
      BY <1>2, <2>1, <2>2 DEF Reclaim
  <1>9. PICK n \in Record : /\ row' = [row EXCEPT ![i] = n]
                            /\ n.st = "queued" => n.attempts < MaxAttempts
                            /\ i \notin disturbed => Counts(n, deaths[i])
    BY <1>8
  <1> QED
    BY <1>1, <1>2, <1>4, <1>9, HeldDoneInv

\* claim: a queued record has an attempt left and becomes one that counts it.
LEMMA ClaimInv ==
  ASSUME DrainInv, NEW p \in Pod, StartRun(p) \/ DropClaim(p)
  PROVE  DrainInv'
  <1>0. TypeOK /\ RecordsOK /\ LockCover /\ AttemptsCover
    BY DEF DrainInv
  <1>1. /\ poll[p].pc = "claim" /\ poll[p].hold # NoItem /\ Done(p, poll[p].hold) /\ KeepTime
        /\ UNCHANGED <<pod, ask, mark, lapsed, deaths, disturbed>>
    BY DEF StartRun, DropClaim
  <1>2. PICK i \in Item : i = poll[p].hold
    BY <1>1, HeldItem
  <1>3. lock[i] = p
    BY <1>1, <1>2, HeldItem
  <1>4. /\ row[i] \in Record /\ row[i].attempts \in Nat
        /\ row[i].st = "queued" => row[i].attempts < MaxAttempts
        /\ i \notin disturbed => Counts(row[i], deaths[i])
        /\ deaths[i] \in Nat /\ row = [row EXCEPT ![i] = row[i]]
    <2>1. row[i] \in Record /\ deaths[i] \in Nat /\ row = [row EXCEPT ![i] = row[i]]
      BY <1>0, Parts
    <2>2. row[i].attempts \in Nat
      BY <2>1 DEF Record
    <2> QED
      BY <1>0, <2>1, <2>2, Split DEF RecordsOK, RunsCover
  <1>5. row[i].st = "queued" =>
          /\ Claimed(row[i]) \in Record /\ Claimed(row[i]).st = "running"
          /\ i \notin disturbed => Claimed(row[i]).attempts > deaths[i]
    BY <1>0, <1>4, ClaimedType DEF Counts
  <1>6. CASE StartRun(p)
    <2>1. /\ row[i].st = "queued" /\ UNCHANGED <<lock, events>>
          /\ row' = [row EXCEPT ![i] = Claimed(row[i])]
          /\ flight' = [flight EXCEPT ![p][i] = [pc |-> "run", inv |-> Claimed(row[i])]]
      BY <1>2, <1>6 DEF StartRun
    <2>2. PICK n \in Record : n = Claimed(row[i])
      BY <1>5, <2>1
    <2>3. /\ n.st = "running" /\ row' = [row EXCEPT ![i] = n]
          /\ flight' = [flight EXCEPT ![p][i] = [pc |-> "run", inv |-> n]]
          /\ i \notin disturbed => n.attempts > deaths[i]
      BY <1>5, <2>1, <2>2
    <2>4. n.st # "queued" /\ (i \notin disturbed => Counts(n, deaths[i]))
      <3>1. n.attempts \in Nat
        BY DEF Record
      <3> QED
        BY <1>4, <2>3, <3>1 DEF Counts
    <2>5. lock' \in [Item -> Pod \union {NoPod, Orphan}] /\ events' \in 0..MaxEvents
      BY <1>0, <2>1, Parts
    <2> QED
      BY <1>1, <1>2, <2>1, <2>3, <2>4, <2>5, HeldDoneInv
  <1>7. CASE DropClaim(p)
    <2>1. /\ lock' \in [Item -> Pod \union {NoPod, Orphan}] /\ events' \in 0..MaxEvents
          /\ flight' = flight /\ \A j \in Item : lock'[j] = lock[j] \/ j = i
      <3>1. CASE Release(p, i)
        BY <1>0, <1>7, <3>1, ReleaseType DEF DropClaim
      <3>2. CASE Event /\ lock' = [lock EXCEPT ![i] = NoPod]
        BY <1>0, <1>7, <3>2, Parts, DrainAssumption DEF Event, DropClaim
      <3> QED
        BY <1>2, <1>7, <3>1, <3>2 DEF DropClaim
    <2>2. \/ row' = [row EXCEPT ![i] = row[i]]
          \/ row[i].st = "queued" /\ row' = [row EXCEPT ![i] = Claimed(row[i])]
      BY <1>2, <1>4, <1>7 DEF DropClaim
    <2>3. \E n \in Record : /\ row' = [row EXCEPT ![i] = n]
                            /\ n.st = "queued" => n.attempts < MaxAttempts
                            /\ i \notin disturbed => Counts(n, deaths[i])
      <3>1. row[i].st = "queued" => Claimed(row[i]).attempts \in Nat
        BY <1>5 DEF Record
      <3> QED
        BY <1>4, <1>5, <2>2, <3>1 DEF Counts
    <2>4. PICK n \in Record : /\ row' = [row EXCEPT ![i] = n]
                              /\ n.st = "queued" => n.attempts < MaxAttempts
                              /\ i \notin disturbed => Counts(n, deaths[i])
      BY <2>3
    <2> QED
      BY <1>1, <1>2, <2>1, <2>4, HeldDoneInv
  <1> QED
    BY <1>6, <1>7

\* What an executor that has only its deferred calls left keeps.
Left == [pc |-> "leave", inv |-> NoRow]

\* Its type.
LEMMA LeftType ==
  Left \in FlightState /\ Left.pc = "leave"
  BY EmptyTypes DEF Left, FlightState

\* An executor saves its copy, and goes on or leaves; it counts its own
\* attempt, and nobody else runs an undisturbed item.
LEMMA ExecutorInv ==
  ASSUME DrainInv, KeepTime, NEW p \in Pod, NEW i \in Item, Running(p, i),
         UNCHANGED <<lock, pod, poll, ask, mark, lapsed, deaths, disturbed>>, events' \in 0..MaxEvents,
         NEW n \in Record, row' = [row EXCEPT ![i] = n],
         n.st = "queued" => n.attempts < MaxAttempts,
         i \notin disturbed => Counts(n, deaths[i]),
         \/ flight' = flight /\ (i \notin disturbed => n.attempts > deaths[i])
         \/ flight' = [flight EXCEPT ![p][i] = Left]
  PROVE  DrainInv'
  <1>0. TypeOK /\ RecordsOK /\ LockCover /\ AttemptsCover
    BY DEF DrainInv
  <1>1. /\ row' \in [Item -> Record] /\ row'[i] = n /\ \A j \in Item : j # i => row'[j] = row[j]
    BY <1>0, Parts
  <1>2. /\ flight' \in [Pod -> [Item -> FlightState]]
        /\ flight' = flight \/ flight'[p][i].pc = "leave"
        /\ \A q \in Pod, j \in Item :
             \/ flight'[q][j] = flight[q][j]
             \/ q = p /\ j = i /\ flight'[q][j].pc = "leave"
    <2>1. flight \in [Pod -> [Item -> FlightState]]
      BY <1>0, Parts
    <2> QED
      BY <2>1, LeftType
  <1>3. TypeOK'
    BY <1>0, <1>1, <1>2, Parts, TimeKept DEF TypeOK, PollState, FlightState
  <1>4. RecordsOK'
    <2>1. \A j \in Item : row'[j].st = "queued" => row'[j].attempts < MaxAttempts
      BY <1>0, <1>1 DEF RecordsOK
    <2>2. \A q \in Pod, j \in Item : Running(q, j)' => flight'[q][j].inv.st = "running"
      BY <1>0, <1>2 DEF RecordsOK, Running
    <2> QED
      BY <1>0, <2>1, <2>2 DEF RecordsOK
  <1>5. \A q \in Pod, j \in Item : flight'[q][j].pc = "none" <=> flight[q][j].pc = "none"
    BY <1>2 DEF Running
  <1>6. LockCover'
    <2>1. FlightsLocked' /\ LapsedIn'
      BY <1>0, <1>5, Split DEF FlightsLocked, LapsedIn
    <2>2. HoldsLocked' /\ MineIn'
      BY <1>0, <1>5, Split DEF HoldsLocked, MineIn
    <2>3. TodoOut'
      <3>1. \A q \in Pod : poll[q].todo \subseteq Item
        BY <1>0, Parts DEF PollState
      <3> QED
        BY <1>0, <1>5, <3>1, Split DEF TodoOut
    <2> QED
      BY <2>1, <2>2, <2>3, SplitNext
  <1>7. RunsCover'
    <2>1. SUFFICES ASSUME NEW j \in Item \ disturbed
                   PROVE  /\ Counts(row'[j], deaths[j])
                          /\ \A q \in Pod : flight'[q][j].pc = "run" =>
                               /\ row'[j].attempts > deaths[j] /\ flight'[q][j].inv.attempts > deaths[j]
                               /\ <<q, j>> \notin lapsed
      BY DEF RunsCover, Running
    <2>2. \A q \in Pod : flight'[q][j].pc = "run" => flight'[q][j] = flight[q][j]
      BY <1>2
    <2>3. CASE j # i
      BY <1>0, <1>1, <2>1, <2>2, <2>3, Split DEF RunsCover, Running
    <2>4. CASE j = i
      <3>1. \A q \in Pod : flight[q][i].pc = "run" => lock[i] = q /\ <<q, i>> \notin lapsed
        BY <1>0, <2>1, <2>4, Split DEF RunsCover, FlightsLocked, Running
      <3>2. \A q \in Pod : flight'[q][i].pc = "run" => q = p
        BY <2>2, <2>4, <3>1 DEF Running
      <3>3. flight'[p][i].pc = "run" => n.attempts > deaths[i] /\ flight[p][i].inv.attempts > deaths[i]
        <4>1. flight[p][i].inv.attempts > deaths[i]
          BY <1>0, <2>1, <2>4, Split DEF RunsCover
        <4>2. ASSUME flight'[p][i].pc = "run" PROVE n.attempts > deaths[i]
          <5>1. flight' = flight
            BY <1>2, <4>2
          <5>2. flight' # [flight EXCEPT ![p][i] = Left]
            <6>1. flight \in [Pod -> [Item -> FlightState]]
              BY <1>0, Parts
            <6> QED
              BY <4>2, <6>1, LeftType
          <5> QED
            BY <2>1, <2>4, <5>2
        <4> QED
          BY <4>1, <4>2
      <3> QED
        BY <1>1, <2>1, <2>2, <2>4, <3>1, <3>2, <3>3
    <2> QED
      BY <2>3, <2>4
  <1>8. ListsCover'
    <2>1. \A j \in Item, q \in Pod : Listed(q, j)' => Listed(q, j)
      BY DEF Listed
    <2> QED
      BY <1>0, <2>1, ListsKept, Split
  <1> QED
    BY <1>3, <1>4, <1>6, <1>7, <1>8, SplitNext DEF DrainInv

\* Checkpoints, results and the return to the queue at the end of the grace
\* period, which takes back one attempt: its own.
LEMMA ExecuteInv ==
  ASSUME DrainInv, NEW p \in Pod, NEW i \in Item,
         Checkpoint(p, i) \/ Finish(p, i) \/ Requeue(p, i)
  PROVE  DrainInv'
  <1>0. TypeOK /\ RecordsOK /\ LockCover /\ AttemptsCover
    BY DEF DrainInv
  <1> DEFINE inv == flight[p][i].inv
             less == [inv EXCEPT !.attempts = IF @ > 0 THEN @ - 1 ELSE 0]
  <1>1. /\ Running(p, i) /\ KeepTime /\ UNCHANGED <<lock, pod, poll, ask, mark, lapsed, deaths, disturbed>>
        /\ events' = events \/ Event
    BY DEF Checkpoint, Finish, Requeue
  <1>2. events' \in 0..MaxEvents
    BY <1>0, <1>1, Parts, DrainAssumption DEF Event
  <1>3. /\ inv \in Record /\ inv.attempts \in Nat /\ inv.attempts <= MaxAttempts /\ inv.st = "running"
        /\ deaths[i] \in Nat
    <2>1. inv \in Record /\ deaths[i] \in Nat
      BY <1>0, Parts DEF FlightState
    <2> QED
      BY <1>0, <1>1, <2>1, DrainAssumption DEF Record, RecordsOK
  <1>4. row[i] \in Record /\ row[i].attempts \in Nat /\ row = [row EXCEPT ![i] = row[i]]
        /\ (row[i].st = "queued" => row[i].attempts < MaxAttempts)
    <2>1. row[i] \in Record /\ row = [row EXCEPT ![i] = row[i]]
      BY <1>0, Parts
    <2> QED
      BY <1>0, <2>1 DEF Record, RecordsOK
  <1>5. i \notin disturbed => inv.attempts > deaths[i] /\ row[i].attempts > deaths[i]
    BY <1>0, <1>1, Split DEF RunsCover
  <1>6. /\ less \in Record /\ less.attempts < MaxAttempts
        /\ i \notin disturbed => less.attempts >= deaths[i]
    <2>1. inv.attempts > 0 => inv.attempts - 1 \in 0..MaxAttempts
      BY <1>3, DrainAssumption
    <2>2. 0 \in 0..MaxAttempts /\ 0 < MaxAttempts
      BY DrainAssumption
    <2>3. less.attempts = IF inv.attempts > 0 THEN inv.attempts - 1 ELSE 0
      BY <1>3 DEF Record
    <2>4. less \in Record
      BY <1>3, <2>1, <2>2 DEF Record
    <2> HIDE DEF less, inv
    <2> QED
      BY <1>3, <1>5, <2>2, <2>3, <2>4, DrainAssumption
  <1> HIDE DEF less, inv
  <1>7. \E n \in Record :
          /\ row' = [row EXCEPT ![i] = n]
          /\ n.st = "queued" => n.attempts < MaxAttempts
          /\ i \notin disturbed => Counts(n, deaths[i])
          /\ \/ flight' = flight /\ (i \notin disturbed => n.attempts > deaths[i])
             \/ flight' = [flight EXCEPT ![p][i] = Left]
    <2>1. CASE Checkpoint(p, i)
      <3>1. row' = [row EXCEPT ![i] = inv] /\ flight' = flight
        BY <2>1 DEF Checkpoint, inv
      <3>2. inv.st # "queued" /\ (i \notin disturbed => Counts(inv, deaths[i]))
        BY <1>3, <1>5 DEF Counts
      <3>3. PICK m \in Record : m = inv
        BY <1>3
      <3> QED
        BY <1>5, <3>1, <3>2, <3>3
    <2>2. CASE row' = row /\ flight' = [flight EXCEPT ![p][i] = Left]
      <3>1. i \notin disturbed => Counts(row[i], deaths[i])
        BY <1>0, Split DEF RunsCover
      <3> QED
        BY <1>4, <2>2, <3>1
    <2>3. CASE Finish(p, i) /\ row' # row
      <3>1. /\ row' = [row EXCEPT ![i] = Over(inv)]
            /\ flight' = [flight EXCEPT ![p][i] = Left]
        BY <2>3 DEF Finish, inv, Left
      <3>2. PICK m \in Record : m = Over(inv) /\ m.st = "over"
        BY <1>3, OverType
      <3>3. i \notin disturbed => Counts(m, deaths[i])
        BY <1>3, <1>5, <3>2, DrainAssumption DEF Counts
      <3> QED
        BY <3>1, <3>2, <3>3
    <2>4. CASE Requeue(p, i) /\ row' # row
      <3>1. row' = [row EXCEPT ![i] = As(less, "queued")]
            /\ flight' = [flight EXCEPT ![p][i] = Left]
        BY <2>4 DEF Requeue, less, inv, Left
      <3>2. As(less, "queued") \in Record /\ As(less, "queued").attempts = less.attempts
            /\ As(less, "queued").st = "queued"
        BY <1>6, AsType
      <3>3. PICK m \in Record : m = As(less, "queued")
        BY <3>2
      <3>4. /\ row' = [row EXCEPT ![i] = m] /\ m.attempts < MaxAttempts
            /\ i \notin disturbed => Counts(m, deaths[i])
        BY <1>6, <3>1, <3>2, <3>3 DEF Counts
      <3> QED
        BY <3>1, <3>4
    <2> QED
      BY <2>1, <2>2, <2>3, <2>4 DEF Finish, Requeue, Left
  <1>8. PICK n \in Record :
          /\ row' = [row EXCEPT ![i] = n]
          /\ n.st = "queued" => n.attempts < MaxAttempts
          /\ i \notin disturbed => Counts(n, deaths[i])
          /\ \/ flight' = flight /\ (i \notin disturbed => n.attempts > deaths[i])
             \/ flight' = [flight EXCEPT ![p][i] = Left]
    BY <1>7
  <1> QED
    BY <1>1, <1>2, <1>8, ExecutorInv

\* The deferred calls: only the pod's own token is deleted.
LEMMA LeaveInv ==
  ASSUME DrainInv, NEW p \in Pod, NEW i \in Item, Leave(p, i)
  PROVE  DrainInv'
  <1>0. TypeOK /\ RecordsOK /\ LockCover /\ AttemptsCover
    BY DEF DrainInv
  <1>1. /\ flight[p][i].pc = "leave" /\ Release(p, i) /\ KeepTime
        /\ flight' = [flight EXCEPT ![p][i] = NoFlight] /\ lapsed' = lapsed \ {<<p, i>>}
        /\ UNCHANGED <<row, pod, poll, ask, mark, deaths, disturbed>>
    BY DEF Leave
  <1>2. /\ lock' \in [Item -> Pod \union {NoPod, Orphan}] /\ events' \in 0..MaxEvents
        /\ \A j \in Item : lock'[j] = lock[j] \/ (j = i /\ lock[i] = p)
    BY <1>0, <1>1, ReleaseType
  <1>3. /\ flight' \in [Pod -> [Item -> FlightState]] /\ flight'[p][i].pc = "none"
        /\ \A q \in Pod, j \in Item : flight'[q][j] = flight[q][j] \/ (q = p /\ j = i)
    BY <1>0, <1>1, Parts, EmptyTypes
  <1>4. TypeOK'
    BY <1>0, <1>1, <1>2, <1>3, Parts, TimeKept DEF TypeOK, PollState, FlightState
  <1>5. RecordsOK'
    BY <1>0, <1>1, <1>3 DEF RecordsOK, Running
  <1>6. FlightsLocked' /\ LapsedIn'
    <2>1. ASSUME NEW q \in Pod, NEW j \in Item, q # p \/ j # i
          PROVE  <<q, j>> \in lapsed' <=> <<q, j>> \in lapsed
      BY <1>1, <2>1
    <2>2. FlightsLocked'
      <3>1. SUFFICES ASSUME NEW q \in Pod, NEW j \in Item, flight'[q][j].pc # "none",
                            <<q, j>> \notin lapsed'
                     PROVE  lock'[j] = q
        BY DEF FlightsLocked
      <3>2. q # p \/ j # i
        BY <1>3, <3>1
      <3>3. lock[j] = q
        BY <1>0, <1>3, <2>1, <3>1, <3>2, Split DEF FlightsLocked
      <3> QED
        BY <1>2, <3>2, <3>3
    <2>3. LapsedIn'
      BY <1>0, <1>1, <1>3, <2>1, Split DEF LapsedIn
    <2> QED
      BY <2>2, <2>3
  <1>7. HoldsLocked'
    <2>1. SUFFICES ASSUME NEW q \in Pod, poll[q].hold # NoItem
                   PROVE  /\ lock'[poll[q].hold] = q
                          /\ poll[q].hold \in poll[q].todo /\ poll[q].pc \in {"reclaim", "claim"}
      BY <1>1 DEF HoldsLocked
    <2>2. poll[q].hold \in Item /\ lock[poll[q].hold] = q /\ flight[q][poll[q].hold].pc = "none"
      BY <2>1, HeldItem
    <2>3. poll[q].hold \in poll[q].todo /\ poll[q].pc \in {"reclaim", "claim"}
      BY <1>0, <2>1, Split DEF HoldsLocked
    <2> QED
      BY <1>1, <1>2, <2>2, <2>3
  <1>8. TodoOut' /\ MineIn'
    <2>1. \A q \in Pod : poll[q].todo \subseteq Item
      BY <1>0, Parts DEF PollState
    <2>2. TodoOut'
      BY <1>0, <1>1, <1>3, <2>1, Split DEF TodoOut
    <2>3. MineIn'
      BY <1>0, <1>1, <1>3, Split DEF MineIn
    <2> QED
      BY <2>2, <2>3
  <1>9. RunsCover'
    BY <1>0, <1>1, <1>3, Split DEF RunsCover, Running
  <1>10. ListsCover'
    <2>1. \A j \in Item, q \in Pod : Listed(q, j)' => Listed(q, j) /\ (lock[j] = Orphan => lock'[j] = Orphan)
      BY <1>1, <1>2, DrainAssumption DEF Listed
    <2> QED
      BY <1>0, <1>1, <2>1, ListsKept, Split
  <1> QED
    BY <1>4, <1>5, <1>6, <1>7, <1>8, <1>9, <1>10, SplitNext DEF DrainInv

\* A lease runs out under its executor: the item counts as disturbed.
LEMMA LeaseLapsesInv ==
  ASSUME DrainInv, NEW p \in Pod, NEW i \in Item, LeaseLapses(p, i)
  PROVE  DrainInv'
  <1>0. TypeOK /\ RecordsOK /\ LockCover /\ AttemptsCover
    BY DEF DrainInv
  <1>1. /\ Running(p, i) /\ lock[i] = p /\ Event /\ KeepTime
        /\ lock' = [lock EXCEPT ![i] = NoPod] /\ lapsed' = lapsed \union {<<p, i>>}
        /\ disturbed' = disturbed \union {i}
        /\ UNCHANGED <<row, pod, poll, flight, ask, mark, deaths>>
    BY DEF LeaseLapses
  <1>2. /\ lock' \in [Item -> Pod \union {NoPod, Orphan}] /\ events' \in 0..MaxEvents
        /\ \A j \in Item : lock'[j] = lock[j] \/ j = i
    BY <1>0, <1>1, Parts, DrainAssumption DEF Event
  <1>3. TypeOK'
    BY <1>0, <1>1, <1>2, Parts, TimeKept DEF TypeOK
  <1>4. RecordsOK'
    BY <1>0, <1>1 DEF RecordsOK, Running
  <1>5. FlightsLocked' /\ LapsedIn'
    BY <1>0, <1>1, <1>2, Split DEF FlightsLocked, LapsedIn, Running
  <1>6. HoldsLocked'
    <2>1. SUFFICES ASSUME NEW q \in Pod, poll[q].hold # NoItem
                   PROVE  /\ lock'[poll[q].hold] = q
                          /\ poll[q].hold \in poll[q].todo /\ poll[q].pc \in {"reclaim", "claim"}
      BY <1>1 DEF HoldsLocked
    <2>2. poll[q].hold \in Item /\ lock[poll[q].hold] = q /\ flight[q][poll[q].hold].pc = "none"
      BY <2>1, HeldItem
    <2>3. poll[q].hold \in poll[q].todo /\ poll[q].pc \in {"reclaim", "claim"}
      BY <1>0, <2>1, Split DEF HoldsLocked
    <2> QED
      BY <1>1, <1>2, <2>2, <2>3 DEF Running
  <1>7. TodoOut' /\ MineIn'
    BY <1>0, <1>1, Split DEF TodoOut, MineIn
  <1>8. RunsCover'
    BY <1>0, <1>1, Split DEF RunsCover, Running
  <1>9. ListsCover'
    <2>1. \A j \in Item, q \in Pod : Listed(q, j)' => Listed(q, j) /\ (lock[j] = Orphan => lock'[j] = Orphan)
      BY <1>1, <1>2, DrainAssumption DEF Listed
    <2> QED
      BY <1>0, <1>1, <2>1, ListsKept, Split
  <1> QED
    BY <1>3, <1>4, <1>5, <1>6, <1>7, <1>8, <1>9, SplitNext DEF DrainInv

\* A process ends: an executor that dies with it held the lock, so every tick
\* under way is in the span of the token it leaves behind.
LEMMA GoneInv ==
  ASSUME DrainInv, NEW p \in Pod, Gone(p), events' \in 0..MaxEvents
  PROVE  DrainInv'
  <1>0. TypeOK /\ RecordsOK /\ LockCover /\ AttemptsCover
    BY DEF DrainInv
  <1>1. /\ KeepTime /\ UNCHANGED <<row, ask, mark, disturbed>> /\ pod' = [pod EXCEPT ![p] = "up"]
        /\ poll' = [poll EXCEPT ![p] = NoPoll]
        /\ flight' = [flight EXCEPT ![p] = [i \in Item |-> NoFlight]]
        /\ lock' = [i \in Item |-> IF lock[i] = p THEN Orphan ELSE lock[i]]
        /\ lapsed' = {x \in lapsed : x[1] # p}
        /\ deaths' = [i \in Item |-> IF Running(p, i) /\ i \notin disturbed
                                    THEN deaths[i] + 1 ELSE deaths[i]]
    BY DEF Gone
  <1>2. /\ poll' \in [Pod -> PollState] /\ poll'[p].pc = "idle" /\ poll'[p].hold = NoItem
        /\ \A q \in Pod : q # p => poll'[q] = poll[q]
    BY <1>0, <1>1, Parts, EmptyTypes
  <1>3. /\ flight' \in [Pod -> [Item -> FlightState]] /\ \A i \in Item : flight'[p][i].pc = "none"
        /\ \A q \in Pod : q # p => flight'[q] = flight[q]
    BY <1>0, <1>1, Parts, EmptyTypes
  <1>4. /\ lock' \in [Item -> Pod \union {NoPod, Orphan}]
        /\ \A i \in Item : lock'[i] = IF lock[i] = p THEN Orphan ELSE lock[i]
    BY <1>0, <1>1, Parts
  <1>5. /\ deaths' \in [Item -> Nat]
        /\ \A i \in Item : deaths'[i] = deaths[i] \/ (Running(p, i) /\ deaths'[i] = deaths[i] + 1)
    BY <1>0, <1>1, Parts
  <1>6. /\ lapsed' \subseteq Pod \X Item
        /\ \A q \in Pod, j \in Item : <<q, j>> \in lapsed' <=> <<q, j>> \in lapsed /\ q # p
    BY <1>0, <1>1, Parts
  <1>7. TypeOK'
    <2>1. pod' \in [Pod -> {"up", "drain", "cut"}]
      BY <1>0, <1>1, Parts
    <2> QED
      BY <1>0, <1>1, <1>2, <1>3, <1>4, <1>5, <1>6, <2>1, Parts, TimeKept DEF TypeOK, PollState, FlightState
  <1>8. RecordsOK'
    BY <1>0, <1>1, <1>3 DEF RecordsOK, Running
  <1>9. FlightsLocked' /\ LapsedIn'
    BY <1>0, <1>3, <1>4, <1>6, Split DEF FlightsLocked, LapsedIn
  <1>10. HoldsLocked'
    <2>1. SUFFICES ASSUME NEW q \in Pod, q # p, poll[q].hold # NoItem
                   PROVE  /\ lock'[poll[q].hold] = q
                          /\ poll[q].hold \in poll[q].todo /\ poll[q].pc \in {"reclaim", "claim"}
      BY <1>2 DEF HoldsLocked
    <2>2. poll[q].hold \in Item
      BY <2>1, HeldItem
    <2> QED
      BY <1>0, <1>4, <2>1, <2>2, Split DEF HoldsLocked
  <1>11. TodoOut' /\ MineIn'
    BY <1>0, <1>2, <1>3, Split DEF TodoOut, MineIn
  <1>12. ASSUME NEW i \in Item \ disturbed, Running(p, i)
         PROVE  /\ lock[i] = p /\ row[i].attempts > deaths[i]
                /\ \A q \in Pod : q # p => ~Running(q, i)
    <2>1. row[i].attempts > deaths[i] /\ \A q \in Pod : Running(q, i) => <<q, i>> \notin lapsed
      BY <1>0, <1>12, Split DEF RunsCover
    <2>2. \A q \in Pod : Running(q, i) => lock[i] = q
      BY <1>0, <2>1, Split DEF FlightsLocked, Running
    <2> QED
      BY <1>12, <2>1, <2>2
  <1>13. RunsCover'
    <2>1. SUFFICES ASSUME NEW j \in Item \ disturbed
                   PROVE  /\ Counts(row[j], deaths'[j])
                          /\ \A q \in Pod : flight'[q][j].pc = "run" =>
                               /\ row[j].attempts > deaths'[j] /\ flight'[q][j].inv.attempts > deaths'[j]
                               /\ <<q, j>> \notin lapsed'
      BY <1>1 DEF RunsCover, Running, Counts
    <2>2. \A q \in Pod : flight'[q][j].pc = "run" => q # p /\ flight'[q][j] = flight[q][j] /\ Running(q, j)
      BY <1>3 DEF Running
    <2>3. CASE deaths'[j] = deaths[j]
      BY <1>0, <1>6, <2>1, <2>2, <2>3, Split DEF RunsCover
    <2>4. CASE Running(p, j) /\ deaths'[j] = deaths[j] + 1
      <3>1. row[j].attempts > deaths[j] /\ \A q \in Pod : q # p => ~Running(q, j)
        BY <1>12, <2>1, <2>4
      <3>2. row[j].attempts \in Nat /\ row[j].attempts <= MaxAttempts /\ deaths[j] \in Nat
        <4>1. row[j] \in Record /\ deaths[j] \in Nat
          BY <1>0, Parts
        <4> QED
          BY <4>1, DrainAssumption DEF Record
      <3>3. Counts(row[j], deaths'[j])
        BY <2>4, <3>1, <3>2, DrainAssumption DEF Counts
      <3> QED
        BY <2>2, <2>4, <3>1, <3>3
    <2> QED
      BY <1>5, <2>3, <2>4
  <1>14. ASSUME NEW i \in Item \ disturbed', NEW q \in Pod, Listed(q, i)'
         PROVE  \/ poll'[q].rows[i].attempts >= deaths'[i]
                \/ lock'[i] = Orphan /\ q \in span'[i]
    <2>1. q # p /\ poll'[q] = poll[q] /\ Listed(q, i) /\ i \in Item \ disturbed /\ poll'[q].pc # "idle"
      BY <1>1, <1>2, <1>14 DEF Listed
    <2>2. CASE Running(p, i)
      <3>1. lock[i] = p /\ lock'[i] = Orphan /\ lock[i] # Orphan
        BY <1>4, <1>12, <2>1, <2>2, DrainAssumption
      <3> QED
        BY <1>0, <1>1, <2>1, <3>1, TimeKept
    <2>3. CASE deaths'[i] = deaths[i]
      <3>1. poll[q].rows[i].attempts >= deaths[i] \/ (lock[i] = Orphan /\ q \in span[i])
        BY <1>0, <2>1, Split DEF ListsCover
      <3> QED
        BY <1>0, <1>1, <1>4, <2>1, <2>3, <3>1, TimeKept, DrainAssumption
    <2> QED
      BY <1>5, <2>2, <2>3
  <1>15. ListsCover'
    BY <1>14 DEF ListsCover
  <1> QED
    BY <1>7, <1>8, <1>9, <1>10, <1>11, <1>13, <1>15, SplitNext DEF DrainInv

-----------------------------------------------------------------------------
(* The theorems.                                                           *)

\* Nothing is queued, locked or executed at the start.
LEMMA DrainInit ==
  Init => DrainInv
  <1> SUFFICES ASSUME Init PROVE DrainInv
    OBVIOUS
  <1>1. TypeOK
    <2>1. ask \in [Operator -> Request] /\ mark \in [Operator -> Request]
      BY EmptyTypes DEF Init
    <2>2. poll \in [Pod -> PollState] /\ flight \in [Pod -> [Item -> FlightState]]
          /\ row \in [Item -> Record]
      BY EmptyTypes DEF Init
    <2> QED
      BY <2>1, <2>2, DrainAssumption DEF Init, TypeOK, PollState, FlightState, Request
  <1>2. RecordsOK
    BY EmptyTypes DEF Init, RecordsOK, Running
  <1>3. LockCover
    BY EmptyTypes DEF Init, LockCover
  <1>4. AttemptsCover
    BY EmptyTypes DEF Init, AttemptsCover, Running, NoRow
  <1> QED
    BY <1>1, <1>2, <1>3, <1>4 DEF DrainInv

\* Every step keeps the invariant.
LEMMA DrainNext ==
  DrainInv /\ [Next]_vars => DrainInv'
  <1> SUFFICES ASSUME DrainInv, [Next]_vars PROVE DrainInv'
    OBVIOUS
  <1>1. ASSUME NEW o \in Operator, NEW i \in Item, EnqueueLoad(o, i) \/ MarkLoad(o, i)
        PROVE  DrainInv'
    BY <1>1, RequestLoadInv
  <1>2. ASSUME NEW o \in Operator, EnqueueSave(o) \/ MarkSave(o) PROVE DrainInv'
    BY <1>2, EnqueueSaveInv, MarkSaveInv
  <1>3. ASSUME NEW p \in Pod, Poll(p) PROVE DrainInv'
    <2>1. CASE List(p) \/ Triage(p) \/ Pick(p)
      BY <2>1, TickMovesInv
    <2>2. CASE \E i \in Item : TryAcquire(p, i)
      BY <2>2, TryAcquireInv
    <2>3. CASE Reclaim(p)
      BY <2>3, ReclaimInv
    <2>4. CASE StartRun(p) \/ DropClaim(p)
      BY <2>4, ClaimInv
    <2> QED
      BY <1>3, <2>1, <2>2, <2>3, <2>4 DEF Poll
  <1>4. ASSUME NEW p \in Pod, Crash(p) \/ Exit(p) PROVE DrainInv'
    <2>1. Gone(p) /\ (events' = events \/ Event)
      BY <1>4 DEF Crash, Exit
    <2>2. events' \in 0..MaxEvents
      BY <2>1, DrainAssumption DEF DrainInv, TypeOK, Event
    <2> QED
      BY <2>1, <2>2, GoneInv
  <1>5. ASSUME NEW p \in Pod, Sigterm(p) \/ GraceOver(p) PROVE DrainInv'
    BY <1>5, PodMovesInv
  <1>6. ASSUME NEW p \in Pod, NEW i \in Item, Execute(p, i) \/ Checkpoint(p, i) PROVE DrainInv'
    BY <1>6, ExecuteInv, LeaveInv DEF Execute
  <1>7. ASSUME NEW p \in Pod, NEW i \in Item, LeaseLapses(p, i) PROVE DrainInv'
    BY <1>7, LeaseLapsesInv
  <1>8. ASSUME NEW i \in Item, Expire(i) PROVE DrainInv'
    BY <1>8, ExpireInv
  <1>9. ASSUME NEW i \in Item, NEW c \in Claim, Age(i, c) PROVE DrainInv'
    BY <1>9, AgeInv
  <1>10. CASE UNCHANGED vars
    BY <1>10 DEF DrainInv, TypeOK, RecordsOK, LockCover, AttemptsCover, Running, InFlight, vars
  <1> QED
    BY <1>1, <1>2, <1>3, <1>4, <1>5, <1>6, <1>7, <1>8, <1>9, <1>10 DEF Next

\* The drain keeps its invariant: locks cover executors, and saved records
\* count the attempts that died.
THEOREM DrainInvariant ==
  Spec => []DrainInv
  <1>1. Init => DrainInv
    BY DrainInit
  <1>2. DrainInv /\ [Next]_vars => DrainInv'
    BY DrainNext
  <1> QED
    BY <1>1, <1>2, PTL DEF Spec

\* Types: no record is ever claimed more than MaxAttempts times, and there is
\* always a fresh claim.
THEOREM DrainTypeOK ==
  Spec => []TypeOK
  <1>1. DrainInv => TypeOK
    BY DEF DrainInv
  <1> QED
    BY <1>1, DrainInvariant, PTL

\* Two pods run the same item at once only after a lost lease: both would have
\* to be the one holder of its lock.
THEOREM DrainOneExecutor ==
  Spec => []OneExecutor
  <1>1. ASSUME DrainInv PROVE OneExecutor
    <2>1. SUFFICES ASSUME NEW i \in Item
                   PROVE  Cardinality({p \in Pod : Running(p, i) /\ <<p, i>> \notin lapsed}) <= 1
      BY DEF OneExecutor
    <2> DEFINE R == {p \in Pod : Running(p, i) /\ <<p, i>> \notin lapsed}
    <2>2. R \subseteq {lock[i]}
      BY <1>1, Split DEF DrainInv, FlightsLocked, Running
    <2> HIDE DEF R
    <2>3. IsFiniteSet({lock[i]}) /\ Cardinality({lock[i]}) = 1
      BY FS_Singleton
    <2>4. Cardinality(R) <= 1
      BY <2>2, <2>3, FS_Subset
    <2> QED
      BY <2>4 DEF R
  <1> QED
    BY <1>1, DrainInvariant, PTL

\* An item takes down at most MaxAttempts pods in one investigation, unless its
\* lease ran out, it was requested again under its executor, or a late mark
\* wrote over its record.
THEOREM DrainGivenUp ==
  Spec => []GivenUp
  <1>1. ASSUME DrainInv PROVE GivenUp
    <2>1. SUFFICES ASSUME NEW i \in Item \ disturbed PROVE deaths[i] <= MaxAttempts
      BY DEF GivenUp
    <2>2. row[i] \in Record /\ deaths[i] \in Nat /\ Counts(row[i], deaths[i])
      BY <1>1, <2>1, Parts, Split DEF DrainInv, RunsCover
    <2>3. row[i].attempts \in Nat /\ row[i].attempts <= MaxAttempts
      BY <2>2, DrainAssumption DEF Record
    <2> QED
      BY <2>2, <2>3, DrainAssumption DEF Counts
  <1> QED
    BY <1>1, DrainInvariant, PTL

\* What one step may do to the record of an item that a pod runs under its lock.
LEMMA OwnerStep ==
  ASSUME DrainInv, Next, NEW p \in Pod, NEW i \in Item,
         Running(p, i), lock[i] = p, Running(p, i)'
  PROVE  \/ row'[i] \in {row[i], flight[p][i].inv} \union Pending(i)
         \/ \E q \in Pod : <<q, i>> \in lapsed
  <1>0. TypeOK /\ RecordsOK /\ LockCover
    BY DEF DrainInv
  <1>1. ASSUME NEW q \in Pod, flight[q][i].pc # "none" PROVE q = p \/ <<q, i>> \in lapsed
    BY <1>0, <1>1, Split DEF FlightsLocked
  <1>2. ASSUME NEW q \in Pod, poll[q].hold # NoItem PROVE poll[q].hold # i
    <2>1. lock[poll[q].hold] = q /\ flight[q][poll[q].hold].pc = "none"
      BY <1>2, HeldItem
    <2> QED
      BY <2>1 DEF Running
  <1>3. row \in [Item -> Record] /\ flight \in [Pod -> [Item -> FlightState]]
    BY <1>0, Parts
  <1>4. ASSUME NEW o \in Operator, EnqueueSave(o) \/ MarkSave(o)
        PROVE  row'[i] \in {row[i]} \union Pending(i)
    <2>1. CASE EnqueueSave(o)
      <3>1. row'[i] = row[i] \/ (ask[o].item = i /\ row'[i] = ask[o].inv)
        BY <1>3, <2>1 DEF EnqueueSave
      <3> QED
        BY <3>1 DEF Pending
    <2>2. CASE MarkSave(o)
      <3>1. row'[i] = row[i] \/ (mark[o].item = i /\ row'[i] = mark[o].inv)
        BY <1>3, <2>2 DEF MarkSave
      <3> QED
        BY <3>1 DEF Pending
    <2> QED
      BY <1>4, <2>1, <2>2
  <1>5. ASSUME NEW q \in Pod, Reclaim(q) \/ StartRun(q) \/ DropClaim(q)
        PROVE  row'[i] = row[i]
    <2>1. poll[q].hold # i
      BY <1>2, <1>5 DEF Reclaim, StartRun, DropClaim
    <2> QED
      BY <1>3, <1>5, <2>1 DEF Reclaim, StartRun, DropClaim
  <1>6. ASSUME NEW q \in Pod, NEW j \in Item, Checkpoint(q, j)
        PROVE  row'[i] \in {row[i], flight[p][i].inv} \/ <<q, i>> \in lapsed
    BY <1>1, <1>3, <1>6 DEF Checkpoint, Running
  <1>7. ASSUME NEW q \in Pod, NEW j \in Item, Finish(q, j) \/ Requeue(q, j)
        PROVE  row'[i] = row[i] \/ <<q, i>> \in lapsed
    <2>1. CASE j # i
      BY <1>3, <1>7, <2>1 DEF Finish, Requeue
    <2>2. CASE j = i
      <3>1. flight' = [flight EXCEPT ![q][i] = Left]
        BY <1>7, <2>2 DEF Finish, Requeue, Left
      <3>2. q = p => flight'[p][i].pc = "leave"
        BY <1>3, <3>1, LeftType
      <3>3. q # p
        BY <3>2 DEF Running
      <3> QED
        BY <1>1, <1>7, <2>2, <3>3 DEF Finish, Requeue, Running
    <2> QED
      BY <2>1, <2>2
  <1>8. ASSUME NEW o \in Operator, NEW j \in Item, EnqueueLoad(o, j) \/ MarkLoad(o, j)
        PROVE  row' = row
    BY <1>8 DEF EnqueueLoad, MarkLoad, storeVars
  <1>9. ASSUME NEW q \in Pod, List(q) \/ Triage(q) \/ Pick(q) \/ (\E j \in Item : TryAcquire(q, j))
        PROVE  row' = row
    BY <1>9 DEF List, Triage, Pick, TryAcquire, storeVars
  <1>10. ASSUME NEW q \in Pod, Crash(q) \/ Sigterm(q) \/ GraceOver(q) \/ Exit(q)
         PROVE  row' = row
    BY <1>10 DEF Crash, Exit, Gone, Sigterm, GraceOver, storeVars
  <1>11. ASSUME NEW q \in Pod, NEW j \in Item, Leave(q, j) \/ LeaseLapses(q, j) PROVE row' = row
    BY <1>11 DEF Leave, LeaseLapses
  <1>12. ASSUME NEW j \in Item, Expire(j) \/ (\E c \in Claim : Age(j, c)) PROVE row' = row
    BY <1>12 DEF Expire, Age, storeVars
  <1> QED
    BY <1>4, <1>5, <1>6, <1>7, <1>8, <1>9, <1>10, <1>11, <1>12 DEF Next, Poll, Execute

\* While a pod runs an item under its lock no other pod writes its record: a
\* reclaim or claim would need the lock, an executor that has none lost its
\* lease.  What is written besides comes from the executor or from a request
\* or a mark that read the record when it was finished.
THEOREM DrainOwnerWrites ==
  Spec => OwnerWrites
  <1> DEFINE A == \A p \in Pod, i \in Item :
                    Running(p, i) /\ lock[i] = p /\ Running(p, i)'
                      => \/ row[i]' \in {row[i], flight[p][i].inv} \union Pending(i)
                         \/ \E q \in Pod : <<q, i>> \in lapsed
  <1>1. DrainInv /\ [Next]_vars => [A]_vars
    BY OwnerStep
  <1>2. Spec => [][A]_vars
    BY <1>1, DrainInvariant, PTL DEF Spec
  <1> QED
    BY <1>2 DEF OwnerWrites
=============================================================================

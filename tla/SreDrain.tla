------------------------------ MODULE SreDrain ------------------------------
(***************************************************************************)
(* The queue of AI investigations and the pods that drain it:              *)
(* internal/sre drain.go and queue.go over the rows of                     *)
(* internal/chstore/sre_investigation.go and one Redis lock per item.      *)
(*                                                                         *)
(* Each pod polls: it lists the queued and running rows, reclaims running  *)
(* ones whose claim is old and whose lock is free, and claims queued ones; *)
(* every claimed item runs in a goroutine of its own that refreshes the    *)
(* lock.  There is no clock: a claim is a number, and old holds the claims *)
(* made more than two leases ago.                                          *)
(***************************************************************************)
EXTENDS Naturals, FiniteSets

CONSTANTS
  Pod, Item,
  Operator,       \* requests to (re)investigate or to mark a result, at a time
  NoPod, Orphan,  \* lock values: free, and held by a token nobody knows any more
  NoItem,
  Claim,          \* ClaimedAt values: numbers, used again once forgotten
  MaxConcurrent, MaxAttempts,  \* settings
  MaxRun,         \* bound: investigations of one item
  MaxEvents,      \* bound: crashes, shutdowns, lost leases, failed calls, marks, new runs
  SlowItems       \* may an item run for more than two leases?

ASSUME DrainAssumption ==
  /\ IsFiniteSet(Pod) /\ Pod # {} /\ IsFiniteSet(Item) /\ IsFiniteSet(Claim)
  /\ NoPod \notin Pod /\ Orphan \notin Pod /\ NoPod # Orphan /\ NoItem \notin Item
  /\ Claim \subseteq Nat \ {0}
  /\ Cardinality(Claim) > Cardinality(Item) * (1 + Cardinality(Pod))
  /\ MaxConcurrent \in Nat \ {0} /\ MaxAttempts \in Nat \ {0}
  /\ MaxRun \in Nat \ {0} /\ MaxEvents \in Nat
  /\ SlowItems \in BOOLEAN

VARIABLES
  row,     \* the store: each item's record
  lock,    \* Redis: the holder of each item's lock
  old,     \* claims older than two leases
  pod,     \* up, drain (SIGTERM, grace running) or cut (grace over)
  poll,    \* the tick a pod is in: what it has listed and what is left to do
  span,    \* pods in a tick that began before the lock lost its holder
  flight,  \* the executor of each item a pod has in flight
  ask,     \* Enqueue calls between their read and their write: what they will write
  mark,    \* the same for the requests that mark a result
  events,  \* how many of these there were
  lapsed,  \* history: executors whose lease ran out under them
  deaths,  \* history: executors of the item's run that died with their pod
  disturbed \* history: items whose lease ran out or whose record was overwritten by a late request

storeVars == <<row, lock>>
vars == <<row, lock, old, pod, poll, span, flight, ask, mark, events, lapsed, deaths, disturbed>>

NoClaim == 0
NoRow == [st |-> "none", claim |-> NoClaim, attempts |-> 0, run |-> 0]
NoPoll == [pc |-> "idle", rows |-> [i \in Item |-> NoRow], mine |-> {}, todo |-> {},
           hold |-> NoItem]
NoFlight == [pc |-> "none", inv |-> NoRow]
NoAsk == [item |-> NoItem, inv |-> NoRow]

Running(p, i) == flight[p][i].pc = "run"
InFlight(p) == {i \in Item : flight[p][i].pc # "none"}

\* Claims some record, executor or list still carries.
InUse == {row[i].claim : i \in Item}
           \union {flight[p][i].inv.claim : p \in Pod, i \in Item}
FreshClaim == CHOOSE c \in Claim : c \notin InUse

\* Bookkeeping of time, part of every step: the ages of the claims in use, and
\* the ticks still under way since a lock lost its holder.
Polling == {p \in Pod : poll[p].pc # "idle"}
KeepTime ==
  /\ old' = old \intersect InUse'
  /\ span' = [i \in Item |-> IF lock'[i] # Orphan THEN {}
                            ELSE IF lock[i] # Orphan THEN Polling'
                            ELSE span[i] \intersect Polling']

Event == events < MaxEvents /\ events' = events + 1

\* The record as saved in a state other than running: its ClaimedAt is not
\* read again before the next claim overwrites it.
As(inv, st) == [inv EXCEPT !.st = st, !.claim = NoClaim]

\* A finished record, done, partial or error alike: its attempts are not read
\* again before the next request sets them to zero.
Over(inv) == [inv EXCEPT !.st = "over", !.claim = NoClaim, !.attempts = 0]

-----------------------------------------------------------------------------
Init ==
  /\ row = [i \in Item |-> NoRow]
  /\ lock = [i \in Item |-> NoPod]
  /\ old = {}
  /\ pod = [p \in Pod |-> "up"]
  /\ poll = [p \in Pod |-> NoPoll]
  /\ span = [i \in Item |-> {}]
  /\ flight = [p \in Pod |-> [i \in Item |-> NoFlight]]
  /\ ask = [o \in Operator |-> NoAsk]
  /\ mark = [o \in Operator |-> NoAsk]
  /\ events = 0
  /\ lapsed = {}
  /\ deaths = [i \in Item |-> 0]
  /\ disturbed = {}

-----------------------------------------------------------------------------
(* Requests of operators and of the automatic enqueuer: none of them takes *)
(* the item's lock, and each writes the whole record.                      *)

\* Enqueue, the read: a queued or running record is left alone; a finished one
\* is investigated again, as the next run.
EnqueueLoad(o, i) ==
  /\ ask[o] = NoAsk
  /\ row[i].st \in {"none", "over"} /\ row[i].run < MaxRun
  /\ ask' = [ask EXCEPT ![o] = [item |-> i, inv |->
       [st |-> "queued", claim |-> NoClaim, attempts |-> 0, run |-> row[i].run + 1]]]
  /\ IF row[i].st = "none" THEN UNCHANGED events ELSE Event
  /\ UNCHANGED <<storeVars, pod, poll, flight, mark, lapsed, deaths, disturbed>>
  /\ KeepTime

\* The write, whatever has become of the record meanwhile.
EnqueueSave(o) ==
  /\ ask[o] # NoAsk
  /\ row' = [row EXCEPT ![ask[o].item] = ask[o].inv]
  /\ deaths' = [deaths EXCEPT ![ask[o].item] = 0]
  /\ disturbed' = (disturbed \ {ask[o].item})
                    \union {i \in {ask[o].item} : \E p \in Pod : Running(p, i)}
  /\ ask' = [ask EXCEPT ![o] = NoAsk]
  /\ UNCHANGED <<lock, pod, poll, flight, mark, events, lapsed>>
  /\ KeepTime

\* An operator's mark on a hypothesis or a recommendation of a finished
\* investigation: a queued or running record is refused.
MarkLoad(o, i) ==
  /\ mark[o] = NoAsk
  /\ row[i].st = "over" /\ Event
  /\ mark' = [mark EXCEPT ![o] = [item |-> i, inv |-> row[i]]]
  /\ UNCHANGED <<storeVars, pod, poll, flight, ask, lapsed, deaths, disturbed>>
  /\ KeepTime

\* The record as it was read, with the mark, is written over whatever the
\* next run has made of it.
MarkSave(o) ==
  /\ mark[o] # NoAsk
  /\ row' = [row EXCEPT ![mark[o].item] = mark[o].inv]
  /\ disturbed' = disturbed \union {i \in {mark[o].item} : row[i] # mark[o].inv}
  /\ mark' = [mark EXCEPT ![o] = NoAsk]
  /\ UNCHANGED <<lock, pod, poll, flight, ask, events, lapsed, deaths>>
  /\ KeepTime

-----------------------------------------------------------------------------
(* tick, run by the drain loop of pod p.                                   *)

staleClaim(inv) == inv.claim \in old

\* The queued and running records, and which of the running ones have an old
\* claim; ClaimedAt is not read again in this tick.
List(p) ==
  /\ pod[p] = "up" /\ poll[p].pc = "idle"
  /\ poll' = [poll EXCEPT ![p] = [NoPoll EXCEPT
       !.pc = "listed",
       !.rows = [i \in Item |-> IF row[i].st \in {"queued", "running"}
                               THEN As(row[i], row[i].st) ELSE NoRow],
       !.todo = {i \in Item : row[i].st = "running" /\ staleClaim(row[i])}]]
  /\ UNCHANGED <<storeVars, pod, flight, ask, mark, events, lapsed, deaths, disturbed>>
  /\ KeepTime

\* The items in flight are read after the list; they are not reclaimed.
Triage(p) ==
  /\ poll[p].pc = "listed"
  /\ poll' = [poll EXCEPT ![p].pc = "reclaim", ![p].mine = InFlight(p),
                          ![p].todo = @ \ InFlight(p)]
  /\ UNCHANGED <<storeVars, pod, flight, ask, mark, events, lapsed, deaths, disturbed>>
  /\ KeepTime

\* The loop over the items goes on without i; the tick ends after the last claim.
Done(p, i) ==
  poll' = [poll EXCEPT ![p] =
             IF poll[p].pc = "claim" /\ poll[p].todo = {i} THEN NoPoll
             ELSE [poll[p] EXCEPT !.todo = @ \ {i}, !.hold = NoItem]]

\* Mutant: a taken lock counts as acquired.
TryAcquireIgnored(p, i) ==
  /\ poll[p].pc \in {"reclaim", "claim"} /\ poll[p].hold = NoItem
  /\ i \in poll[p].todo
  /\ lock' = [lock EXCEPT ![i] = IF @ = NoPod THEN p ELSE @]
  /\ poll' = [poll EXCEPT ![p].hold = i]
  /\ UNCHANGED <<row, pod, flight, ask, mark, events, lapsed, deaths, disturbed>>
  /\ KeepTime

\* TryAcquire for the next item of the reclaim or claim loop: SETNX.  If the
\* lock is taken the item is passed over; an answer that is lost leaves a
\* token nobody knows.
TryAcquire(p, i) ==
  /\ poll[p].pc \in {"reclaim", "claim"} /\ poll[p].hold = NoItem
  /\ i \in poll[p].todo
  /\ \/ /\ lock[i] = NoPod
        /\ lock' = [lock EXCEPT ![i] = p]
        /\ poll' = [poll EXCEPT ![p].hold = i]
        /\ UNCHANGED events
     \/ /\ lock[i] # NoPod
        /\ Done(p, i)
        /\ UNCHANGED <<lock, events>>
     \/ /\ lock[i] = NoPod /\ Event
        /\ lock' = [lock EXCEPT ![i] = Orphan]
        /\ Done(p, i)
  /\ UNCHANGED <<row, pod, flight, ask, mark, lapsed, deaths, disturbed>>
  /\ KeepTime

\* Mutant: a blind DEL.
ReleaseBlind(p, i) ==
  /\ lock' = [lock EXCEPT ![i] = NoPod]
  /\ UNCHANGED events

\* Release by p: only its own token is deleted, and the call may fail.
Release(p, i) ==
  \/ /\ lock' = [lock EXCEPT ![i] = IF @ = p THEN NoPod ELSE @]
     /\ UNCHANGED events
  \/ /\ lock[i] = p /\ Event
     /\ lock' = [lock EXCEPT ![i] = Orphan]

\* Mutant: one attempt too many.
reclaimableOnceMore(inv) ==
  IF inv.attempts > MaxAttempts THEN Over(inv) ELSE As(inv, "queued")

\* What becomes of a stale record whose lock is free: back to the queue, or
\* given up once its attempts are used up.
reclaimable(inv) == IF inv.attempts >= MaxAttempts THEN Over(inv) ELSE As(inv, "queued")

\* reclaim: the listed record, not a fresh read, is what is saved.
Reclaim(p) ==
  LET i == poll[p].hold IN
  /\ poll[p].pc = "reclaim" /\ i # NoItem
  /\ \/ /\ row' = [row EXCEPT ![i] = reclaimable(poll[p].rows[i])]
        /\ Release(p, i)
     \/ /\ Event /\ UNCHANGED row
        /\ lock' = [lock EXCEPT ![i] = NoPod]
  /\ Done(p, i)
  /\ UNCHANGED <<pod, flight, ask, mark, lapsed, deaths, disturbed>>
  /\ KeepTime

\* pickWork: queued items not in flight, as many as MaxConcurrent leaves.
Pick(p) ==
  /\ poll[p].pc = "reclaim" /\ poll[p].todo = {}
  /\ LET free == IF Cardinality(poll[p].mine) < MaxConcurrent
                 THEN MaxConcurrent - Cardinality(poll[p].mine) ELSE 0
         q == {i \in Item \ poll[p].mine : poll[p].rows[i].st = "queued"}
     IN  \E S \in SUBSET q :
           /\ Cardinality(S) <= free /\ (Cardinality(S) = free \/ S = q)
           /\ poll' = [poll EXCEPT ![p] = IF S = {} THEN NoPoll
                                          ELSE [NoPoll EXCEPT !.pc = "claim", !.todo = S]]
  /\ UNCHANGED <<storeVars, pod, flight, ask, mark, events, lapsed, deaths, disturbed>>
  /\ KeepTime

\* Mutants: the claim carries no time; the attempt is not counted.
ClaimedUndated(inv) == [inv EXCEPT !.st = "running", !.attempts = @ + 1]
ClaimedUncounted(inv) == [inv EXCEPT !.st = "running", !.claim = FreshClaim]

Claimed(inv) ==
  [inv EXCEPT !.st = "running", !.claim = FreshClaim, !.attempts = @ + 1]

\* claim, under the lock: the record is read again; if it is still queued
\* it becomes running under a new claim and its executor starts.  The read and
\* the write are one step: only requests could come between them, and a request
\* that does is overwritten as by the executor's first checkpoint.
StartRun(p) ==
  LET i == poll[p].hold IN
  /\ poll[p].pc = "claim" /\ i # NoItem
  /\ row[i].st = "queued"
  /\ row' = [row EXCEPT ![i] = Claimed(@)]
  /\ flight' = [flight EXCEPT ![p][i] = [pc |-> "run", inv |-> Claimed(row[i])]]
  /\ Done(p, i)
  /\ UNCHANGED <<lock, pod, ask, mark, events, lapsed, deaths, disturbed>>
  /\ KeepTime

\* The item is not queued any more; or the write failed, landed or not.
DropClaim(p) ==
  LET i == poll[p].hold IN
  /\ poll[p].pc = "claim" /\ i # NoItem
  /\ \/ /\ row[i].st # "queued"
        /\ Release(p, i)
        /\ UNCHANGED row
     \/ /\ row[i].st = "queued" /\ Event
        /\ row' \in {row, [row EXCEPT ![i] = Claimed(@)]}
        /\ lock' = [lock EXCEPT ![i] = NoPod]
  /\ Done(p, i)
  /\ UNCHANGED <<pod, flight, ask, mark, lapsed, deaths, disturbed>>
  /\ KeepTime

Poll(p) == \/ List(p) \/ Triage(p) \/ (\E i \in Item : TryAcquire(p, i))
           \/ Reclaim(p) \/ Pick(p) \/ StartRun(p) \/ DropClaim(p)

-----------------------------------------------------------------------------
(* execute, the goroutine of item i on pod p.                              *)

\* The runner's checkpoint after a step: the executor's own copy is saved.
Checkpoint(p, i) ==
  /\ Running(p, i)
  /\ row' = [row EXCEPT ![i] = flight[p][i].inv]
  /\ UNCHANGED <<lock, pod, poll, flight, ask, mark, events, lapsed, deaths, disturbed>>
  /\ KeepTime

\* The runner has returned and the result is saved, or its save fails; what
\* the steps came to is not told apart.
Finish(p, i) ==
  /\ Running(p, i) /\ pod[p] # "cut"
  /\ \/ /\ row' = [row EXCEPT ![i] = Over(flight[p][i].inv)]
        /\ UNCHANGED events
     \/ Event /\ UNCHANGED row
  /\ flight' = [flight EXCEPT ![p][i] = [pc |-> "leave", inv |-> NoRow]]
  /\ UNCHANGED <<lock, pod, poll, ask, mark, lapsed, deaths, disturbed>>
  /\ KeepTime

\* The grace period is over: the item goes back to the queue and the attempt
\* is not counted.
Requeue(p, i) ==
  /\ Running(p, i) /\ pod[p] = "cut"
  /\ \/ /\ row' = [row EXCEPT ![i] = As([flight[p][i].inv EXCEPT
                    !.attempts = IF @ > 0 THEN @ - 1 ELSE 0], "queued")]
        /\ UNCHANGED events
     \/ Event /\ UNCHANGED row
  /\ flight' = [flight EXCEPT ![p][i] = [pc |-> "leave", inv |-> NoRow]]
  /\ UNCHANGED <<lock, pod, poll, ask, mark, lapsed, deaths, disturbed>>
  /\ KeepTime

\* The deferred calls: the lock is released, the item leaves the in-flight map.
Leave(p, i) ==
  /\ flight[p][i].pc = "leave"
  /\ Release(p, i)
  /\ flight' = [flight EXCEPT ![p][i] = NoFlight]
  /\ lapsed' = lapsed \ {<<p, i>>}
  /\ UNCHANGED <<row, pod, poll, ask, mark, deaths, disturbed>>
  /\ KeepTime

\* Refreshes have failed for a whole lease: the key expires, and the
\* executor only logs that its lock is lost.
LeaseLapses(p, i) ==
  /\ Running(p, i) /\ lock[i] = p /\ Event
  /\ lock' = [lock EXCEPT ![i] = NoPod]
  /\ lapsed' = lapsed \union {<<p, i>>}
  /\ disturbed' = disturbed \union {i}
  /\ UNCHANGED <<row, pod, poll, flight, ask, mark, deaths>>
  /\ KeepTime

Execute(p, i) == Finish(p, i) \/ Requeue(p, i) \/ Leave(p, i)

-----------------------------------------------------------------------------
(* Pods come and go; time passes.                                          *)

\* The process ends and is started again: its tokens are unknown from now on.
Gone(p) ==
  /\ pod' = [pod EXCEPT ![p] = "up"]
  /\ poll' = [poll EXCEPT ![p] = NoPoll]
  /\ flight' = [flight EXCEPT ![p] = [i \in Item |-> NoFlight]]
  /\ lock' = [i \in Item |-> IF lock[i] = p THEN Orphan ELSE lock[i]]
  /\ lapsed' = {x \in lapsed : x[1] # p}
  /\ deaths' = [i \in Item |-> IF Running(p, i) /\ i \notin disturbed
                              THEN deaths[i] + 1 ELSE deaths[i]]
  /\ UNCHANGED <<row, ask, mark, disturbed>>
  /\ KeepTime

Crash(p) == Event /\ Gone(p)

\* SIGTERM between two lock-protected steps: the tick takes no more work.
Sigterm(p) ==
  /\ pod[p] = "up" /\ poll[p].hold = NoItem /\ Event
  /\ pod' = [pod EXCEPT ![p] = "drain"]
  /\ poll' = [poll EXCEPT ![p] = NoPoll]
  /\ UNCHANGED <<storeVars, flight, ask, mark, lapsed, deaths, disturbed>>
  /\ KeepTime

GraceOver(p) ==
  /\ pod[p] = "drain" /\ InFlight(p) # {}
  /\ pod' = [pod EXCEPT ![p] = "cut"]
  /\ UNCHANGED <<storeVars, poll, flight, ask, mark, events, lapsed, deaths, disturbed>>
  /\ KeepTime

\* shutdown returns: every executor has left, or five seconds have passed.
Exit(p) ==
  /\ pod[p] = "cut" \/ (pod[p] = "drain" /\ InFlight(p) = {})
  /\ Gone(p)
  /\ UNCHANGED events

\* The lease of a token nobody refreshes runs out; that takes minutes, a tick
\* takes seconds.
Expire(i) ==
  /\ lock[i] = Orphan /\ span[i] = {}
  /\ lock' = [lock EXCEPT ![i] = NoPod]
  /\ UNCHANGED <<row, pod, poll, flight, ask, mark, events, lapsed, deaths, disturbed>>
  /\ KeepTime

\* A claim passes the age of two leases: not before the ticks that found an
\* earlier claim of the item old are over.
Age(i, c) ==
  /\ c \in {row[i].claim} \union {flight[p][i].inv.claim : p \in Pod}
  /\ c \notin old \union {NoClaim}
  /\ \A p \in Pod : poll[p].pc \in {"listed", "reclaim"} => i \notin poll[p].todo
  /\ SlowItems \/ \A p \in Pod : flight[p][i].inv.claim # c
  /\ old' = old \union {c}
  /\ UNCHANGED <<storeVars, pod, poll, span, flight, ask, mark, events, lapsed, deaths, disturbed>>

Next ==
  \/ \E o \in Operator, i \in Item : EnqueueLoad(o, i) \/ MarkLoad(o, i)
  \/ \E o \in Operator : EnqueueSave(o) \/ MarkSave(o)
  \/ \E p \in Pod : Poll(p) \/ Crash(p) \/ Sigterm(p) \/ GraceOver(p) \/ Exit(p)
  \/ \E p \in Pod, i \in Item : Execute(p, i) \/ Checkpoint(p, i) \/ LeaseLapses(p, i)
  \/ \E i \in Item : Expire(i)
  \/ \E i \in Item, c \in Claim : Age(i, c)

Spec == Init /\ [][Next]_vars

\* Loops, executors, grace timers and restarts go on, leases and claims age;
\* nobody has to request anything and nothing has to fail.
Fairness ==
  /\ \A p \in Pod :
       /\ WF_vars(Poll(p))
       /\ WF_vars(GraceOver(p) \/ Exit(p))
       /\ \A i \in Item : WF_vars(Execute(p, i))
  /\ \A i \in Item : WF_vars(Expire(i))
  /\ \A i \in Item : WF_vars(\E c \in Claim : Age(i, c))

FairSpec == Spec /\ Fairness

-----------------------------------------------------------------------------
(* What the drain guarantees.                                              *)

Record == [st : {"none", "queued", "running", "over"},
           claim : Claim \union {NoClaim}, attempts : 0..MaxAttempts, run : 0..MaxRun]

\* Types; no record is ever claimed more than MaxAttempts times.
TypeOK ==
  /\ row \in [Item -> Record]
  /\ lock \in [Item -> Pod \union {NoPod, Orphan}]
  /\ old \subseteq Claim
  /\ pod \in [Pod -> {"up", "drain", "cut"}]
  /\ poll \in [Pod -> [pc : {"idle", "listed", "reclaim", "claim"}, rows : [Item -> Record],
                       mine : SUBSET Item, todo : SUBSET Item, hold : Item \union {NoItem}]]
  /\ span \in [Item -> SUBSET Pod]
  /\ flight \in [Pod -> [Item -> [pc : {"none", "run", "leave"}, inv : Record]]]
  /\ ask \in [Operator -> [item : Item \union {NoItem}, inv : Record]]
  /\ mark \in [Operator -> [item : Item \union {NoItem}, inv : Record]]
  /\ events \in 0..MaxEvents
  /\ lapsed \subseteq Pod \X Item
  /\ deaths \in [Item -> Nat]
  /\ disturbed \subseteq Item

\* Two pods investigate the same item at once only if the lease of one of
\* them ran out under it: crashes, restarts, late releases, lost answers and
\* reclaims on stale lists never start a second executor.
OneExecutor ==
  \A i \in Item : Cardinality({p \in Pod : Running(p, i) /\ <<p, i>> \notin lapsed}) <= 1

\* An item that kills the pod it runs on is given up: it takes down at most
\* MaxAttempts pods in one investigation.  Left aside: an item whose executor
\* lost its lease or was overtaken by a new request, whose late checkpoint
\* sets the count of attempts back, and one whose record a late mark wrote over.
GivenUp == \A i \in Item \ disturbed : deaths[i] <= MaxAttempts

\* Why: the parts of an inductive invariant.  What is queued has an attempt
\* left, and an executor works on a running record; ...
RecordsOK ==
  /\ \A i \in Item : row[i].st = "queued" => row[i].attempts < MaxAttempts
  /\ \A p \in Pod, i \in Item : Running(p, i) => flight[p][i].inv.st = "running"
  /\ \A o \in Operator : ask[o] # NoAsk =>
       ask[o].item \in Item /\ ask[o].inv.st = "queued" /\ ask[o].inv.attempts = 0
  /\ \A o \in Operator : mark[o] # NoAsk => mark[o].item \in Item /\ mark[o].inv.st = "over"

\* ... whoever executes or is about to has the item's lock, and a tick never
\* takes up what its own pod has in flight; ...
LockCover ==
  /\ \A p \in Pod, i \in Item :
       flight[p][i].pc # "none" /\ <<p, i>> \notin lapsed => lock[i] = p
  /\ \A p \in Pod, i \in Item : <<p, i>> \in lapsed => flight[p][i].pc # "none"
  /\ \A p \in Pod : poll[p].hold # NoItem =>
       /\ lock[poll[p].hold] = p
       /\ poll[p].hold \in poll[p].todo /\ poll[p].pc \in {"reclaim", "claim"}
  /\ \A p \in Pod : poll[p].pc \in {"reclaim", "claim"} =>
       \A i \in poll[p].todo : flight[p][i].pc = "none"
  /\ \A p \in Pod : poll[p].pc = "reclaim" => InFlight(p) \subseteq poll[p].mine

\* ... and every copy of a record that may yet be saved counts the attempts
\* that died, unless the lock of a dead one outlives the tick that listed it.
AttemptsCover ==
  \A i \in Item \ disturbed :
    /\ IF row[i].st = "over" THEN deaths[i] <= MaxAttempts ELSE row[i].attempts >= deaths[i]
    /\ \A p \in Pod : Running(p, i) =>
         /\ row[i].attempts > deaths[i] /\ flight[p][i].inv.attempts > deaths[i]
         /\ <<p, i>> \notin lapsed
    /\ \A p \in Pod : poll[p].pc \in {"listed", "reclaim"} /\ i \in poll[p].todo =>
         \/ poll[p].rows[i].attempts >= deaths[i]
         \/ lock[i] = Orphan /\ p \in span[i]

DrainInv == TypeOK /\ RecordsOK /\ LockCover /\ AttemptsCover

\* While a pod runs an item under its lock, no other pod rewrites the item's
\* record: a slow item whose claim has grown old is not taken from its
\* executor, unless a lease of the item has run out.  Who does rewrite it is a
\* request that found the record finished when it read it: Enqueue and the
\* operators' marks take no lock, and the executor's next checkpoint writes
\* over what they saved.
Pending(i) == {r.inv : r \in {q \in {ask[o] : o \in Operator} \union {mark[o] : o \in Operator} :
                                q.item = i}}
OwnerWrites ==
  [][\A p \in Pod, i \in Item :
       Running(p, i) /\ lock[i] = p /\ Running(p, i)'
         => \/ row[i]' \in {row[i], flight[p][i].inv} \union Pending(i)
            \/ \E q \in Pod : <<q, i>> \in lapsed]_vars

\* Whatever failed on the way and whoever marked it meanwhile, every
\* investigation comes to an end: queued items are claimed, those of dead pods
\* are found again, and none is run over and over.
Settles == \A i \in Item : <>[](row[i].st \in {"none", "over"})

\* A finished investigation stays finished until somebody asks for another
\* run: only running records whose owner is gone go back to the queue.  The
\* record a reclaim saves was listed before it took the lock, so a result
\* saved in between is overwritten.
ResultKept ==
  [][\A i \in Item : row[i].st = "over"
       => row[i]'.st = "over" \/ row[i]'.run > row[i].run]_vars
=============================================================================

------------------------------ MODULE Consumer ------------------------------
(***************************************************************************)
(* The generic batch consumer every signal goes through on its way to      *)
(* ClickHouse (internal/consumer/consumer.go).                             *)
(*                                                                         *)
(* Receiver handlers call Add concurrently; one loop goroutine moves items *)
(* from the channel ch into a batch and hands full (or ticked) batches to  *)
(* flushQ; a pool of flushers takes batches from flushQ and inserts them,  *)
(* retrying.  Cancelling the pipeline context makes the loop drain ch and  *)
(* close flushQ, after which the flushers finish.  bufBytes is the byte    *)
(* reservation shared by all of them.  A step is one atomic operation, one *)
(* channel operation or one insert of the code.                            *)
(***************************************************************************)
EXTENDS ByteAccounting, Sequences

CONSTANTS
  Producer,       \* handler goroutines that call Add
  Flusher,        \* Options.Workers flusher goroutines
  BufferSize,     \* Options.BufferSize, the capacity of ch
  BatchSize       \* Options.BatchSize

ASSUME ConsumerAssumption ==
  /\ IsFiniteSet(Flusher) /\ Flusher # {}
  /\ BufferSize \in Nat \ {0}
  /\ BatchSize \in Nat \ {0}

\* Total tries per batch: one and two retries.
flushAttempts == 3

\* Dispatch buffer of two batches per flusher.
FlushQCap == 2 * Cardinality(Flusher)

VARIABLES
  ch,          \* items queued by Add
  batch,       \* items the loop is accumulating
  batchBytes,  \* the loop's byte sum of batch
  outbox,      \* the batch the loop is handing to flushQ
  stage,       \* where the hand-off stands: idle, send or handoff
  mode,        \* the loop: run, drain, close or done
  flushQ,      \* dispatched batches, each with its byte sum
  closed,      \* has the loop closed flushQ?
  flusher,     \* each flusher's program counter, batch and tries left
  producer,    \* each handler's program counter and item inside Add
  bufBytes,    \* bytes reserved across the pipeline
  accepted, dropped, writeFailed,  \* the published counters
  draining,    \* set when the shutdown drain begins
  receivers,   \* gRPC and HTTP receivers: up, down, or cut off with handlers running
  cancelled,   \* has the pipeline context been cancelled?
  offered,     \* history: items some handler has passed to Add
  fate,        \* history: how each item left Add or the pipeline
  copies       \* the store: how many inserts landed each item

addVars == <<producer, accepted, offered>>
loopVars == <<batch, batchBytes, outbox, stage, mode, closed, draining>>
shutdownVars == <<receivers, cancelled>>
vars == <<ch, batch, batchBytes, outbox, stage, mode, flushQ, closed, flusher,
          producer, bufBytes, accepted, dropped, writeFailed, draining,
          receivers, cancelled, offered, fate, copies>>

Batch == [items : SUBSET Item, bytes : Nat]
NoBatch == [items |-> {}, bytes |-> 0]
Idle == [pc |-> "idle", arg |-> {}]

Fate == {"none", "refused", "written", "lost", "abandoned"}

Elems(s) == {s[k] : k \in DOMAIN s}
QueuedItems == UNION {flushQ[k].items : k \in DOMAIN flushQ}
InFlight(w) == flusher[w].batch.items
AllInFlight == UNION {InFlight(w) : w \in Flusher}
\* Items a handler is inside Add with, at one of the given points of it.
AddingAt(pcs) == UNION {producer[p].arg : p \in {q \in Producer : producer[q].pc \in pcs}}
Flushing(pcs) == UNION {InFlight(w) : w \in {v \in Flusher : flusher[v].pc \in pcs}}

\* Everything whose bytes are accounted as being inside the pipeline.
Pipeline == Elems(ch) \union batch \union outbox.items \union QueuedItems \union AllInFlight

SetFate(S, f) == fate' = [i \in Item |-> IF i \in S THEN f ELSE fate[i]]

-----------------------------------------------------------------------------
Init ==
  /\ ch = <<>>
  /\ batch = {} /\ batchBytes = 0
  /\ outbox = NoBatch /\ stage = "idle" /\ mode = "run"
  /\ flushQ = <<>> /\ closed = FALSE
  /\ flusher = [w \in Flusher |-> [pc |-> "take", batch |-> NoBatch, left |-> 0]]
  /\ producer = [p \in Producer |-> Idle]
  /\ bufBytes = 0
  /\ accepted = 0 /\ dropped = 0 /\ writeFailed = 0
  /\ draining = FALSE
  /\ receivers = "up" /\ cancelled = FALSE
  /\ offered = {}
  /\ fate = [i \in Item |-> "none"]
  /\ copies = [i \in Item |-> 0]
-----------------------------------------------------------------------------
(* Add, called by handler p with item i.                                   *)

\* Mutant: checks the bytes held before the reservation.
ReserveOnLoad(p, i) ==
  /\ producer[p].pc = "idle"
  /\ receivers # "down"
  /\ i \notin offered
  /\ offered' = offered \union {i}
  /\ bufBytes' = bufBytes + sizeOf(i)
  /\ LET over == sizingEnabled /\ bufBytes > ByteBudget
     IN  /\ producer' = [producer EXCEPT
                           ![p] = [pc |-> IF over THEN "release" ELSE "send", arg |-> {i}]]
         /\ IF over THEN SetFate({i}, "refused") ELSE UNCHANGED fate
  /\ UNCHANGED <<ch, loopVars, flushQ, flusher, accepted, dropped, writeFailed,
                 shutdownVars, copies>>

\* The atomic add is the reservation: its result decides, whatever other
\* handlers reserve meanwhile.
Reserve(p, i) ==
  /\ producer[p].pc = "idle"
  /\ receivers # "down"
  /\ i \notin offered
  /\ offered' = offered \union {i}
  /\ bufBytes' = bufBytes + sizeOf(i)
  /\ LET over == sizingEnabled /\ bufBytes + sizeOf(i) > ByteBudget
     IN  /\ producer' = [producer EXCEPT
                           ![p] = [pc |-> IF over THEN "release" ELSE "send", arg |-> {i}]]
         /\ IF over THEN SetFate({i}, "refused") ELSE UNCHANGED fate
  /\ UNCHANGED <<ch, loopVars, flushQ, flusher, accepted, dropped, writeFailed,
                 shutdownVars, copies>>

\* The non-blocking send: into ch, or the default branch when ch is full.
Send(p) ==
  /\ producer[p].pc = "send"
  /\ \/ /\ Len(ch) < BufferSize
        /\ \E i \in producer[p].arg : ch' = Append(ch, i)
        /\ producer' = [producer EXCEPT ![p].pc = "accept"]
        /\ UNCHANGED fate
     \/ /\ Len(ch) >= BufferSize
        /\ producer' = [producer EXCEPT ![p].pc = "release"]
        /\ SetFate(producer[p].arg, "refused")
        /\ UNCHANGED ch
  /\ UNCHANGED <<loopVars, flushQ, flusher, bufBytes, accepted, dropped,
                 writeFailed, shutdownVars, offered, copies>>

CountAccepted(p) ==
  /\ producer[p].pc = "accept"
  /\ accepted' = accepted + 1
  /\ producer' = [producer EXCEPT ![p] = Idle]
  /\ UNCHANGED <<ch, loopVars, flushQ, flusher, bufBytes, dropped, writeFailed,
                 shutdownVars, offered, fate, copies>>

\* Mutant: a refused item keeps its reservation.
KeepReservation(p) ==
  /\ producer[p].pc = "release"
  /\ producer' = [producer EXCEPT ![p].pc = "drop"]
  /\ UNCHANGED <<ch, loopVars, flushQ, flusher, bufBytes, accepted, dropped,
                 writeFailed, shutdownVars, offered, fate, copies>>

\* A refused item gives its reservation back, then is counted.
Unreserve(p) ==
  /\ producer[p].pc = "release"
  /\ bufBytes' = bufBytes - BytesOf(producer[p].arg)
  /\ producer' = [producer EXCEPT ![p].pc = "drop"]
  /\ UNCHANGED <<ch, loopVars, flushQ, flusher, accepted, dropped, writeFailed,
                 shutdownVars, offered, fate, copies>>

CountDropped(p) ==
  /\ producer[p].pc = "drop"
  /\ dropped' = dropped + 1
  /\ producer' = [producer EXCEPT ![p] = Idle]
  /\ UNCHANGED <<ch, loopVars, flushQ, flusher, bufBytes, accepted, writeFailed,
                 shutdownVars, offered, fate, copies>>

Add(p) ==
  \/ \E i \in Item : Reserve(p, i)
  \/ Send(p) \/ CountAccepted(p) \/ Unreserve(p) \/ CountDropped(p)

-----------------------------------------------------------------------------
(* The loop goroutine.                                                     *)

\* dispatch: nothing for an empty batch, else the batch moves to the outbox
\* and the hand-off starts.
Dispatch(items, bytes) ==
  IF items = {}
  THEN /\ batch' = {} /\ batchBytes' = 0
       /\ UNCHANGED <<outbox, stage>>
  ELSE /\ outbox' = [items |-> items, bytes |-> bytes]
       /\ batch' = {} /\ batchBytes' = 0
       /\ stage' = "send"

\* Mutant: the loop's byte sum misses the item that fills the batch.
AccumulateUnsized ==
  /\ mode \in {"run", "drain"} /\ stage = "idle"
  /\ ch # <<>>
  /\ ch' = Tail(ch)
  /\ LET items == batch \union {Head(ch)}
     IN  IF Cardinality(items) >= BatchSize
         THEN Dispatch(items, batchBytes)
         ELSE /\ batch' = items /\ batchBytes' = batchBytes + sizeOf(Head(ch))
              /\ UNCHANGED <<outbox, stage>>
  /\ UNCHANGED <<mode, closed, draining, flushQ, flusher, addVars, bufBytes, dropped,
                 writeFailed, shutdownVars, fate, copies>>

\* Take the next item from ch, running or draining; dispatch a full batch.
Accumulate ==
  /\ mode \in {"run", "drain"} /\ stage = "idle"
  /\ ch # <<>>
  /\ ch' = Tail(ch)
  /\ LET items == batch \union {Head(ch)}
         bytes == batchBytes + sizeOf(Head(ch))
     IN  IF Cardinality(items) >= BatchSize
         THEN Dispatch(items, bytes)
         ELSE batch' = items /\ batchBytes' = bytes /\ UNCHANGED <<outbox, stage>>
  /\ UNCHANGED <<mode, closed, draining, flushQ, flusher, addVars, bufBytes, dropped,
                 writeFailed, shutdownVars, fate, copies>>

\* Mutant: the ticker flushes only what has grown to a full batch.
TickFullOnly ==
  /\ mode = "run" /\ stage = "idle"
  /\ Cardinality(batch) >= BatchSize
  /\ Dispatch(batch, batchBytes)
  /\ UNCHANGED <<ch, mode, closed, draining, flushQ, flusher, addVars, bufBytes,
                 dropped, writeFailed, shutdownVars, fate, copies>>

\* The flush ticker.
Tick ==
  /\ mode = "run" /\ stage = "idle"
  /\ batch # {}
  /\ Dispatch(batch, batchBytes)
  /\ UNCHANGED <<ch, mode, closed, draining, flushQ, flusher, addVars, bufBytes,
                 dropped, writeFailed, shutdownVars, fate, copies>>

\* The loop notices the cancelled context; Go may pick this branch while ch
\* still holds items.
BeginDrain ==
  /\ mode = "run" /\ stage = "idle"
  /\ cancelled
  /\ mode' = "drain"
  /\ draining' = TRUE
  /\ UNCHANGED <<ch, batch, batchBytes, outbox, stage, closed, flushQ, flusher,
                 addVars, bufBytes, dropped, writeFailed, shutdownVars, fate, copies>>

\* Mutant: the drain ends whatever ch still holds.
EndDrainEarly ==
  /\ mode = "drain" /\ stage = "idle"
  /\ mode' = "close"
  /\ Dispatch(batch, batchBytes)
  /\ UNCHANGED <<ch, closed, draining, flushQ, flusher, addVars, bufBytes, dropped,
                 writeFailed, shutdownVars, fate, copies>>

\* ch found empty: dispatch what is left and leave the drain for good.
EndDrain ==
  /\ mode = "drain" /\ stage = "idle"
  /\ ch = <<>>
  /\ mode' = "close"
  /\ Dispatch(batch, batchBytes)
  /\ UNCHANGED <<ch, closed, draining, flushQ, flusher, addVars, bufBytes, dropped,
                 writeFailed, shutdownVars, fate, copies>>

\* Mutant: the loop returns without closing flushQ.
LeaveFlushQOpen ==
  /\ mode = "close" /\ stage = "idle"
  /\ mode' = "done"
  /\ UNCHANGED <<ch, batch, batchBytes, outbox, stage, closed, draining, flushQ,
                 flusher, addVars, bufBytes, dropped, writeFailed, shutdownVars, fate,
                 copies>>

\* close(flushQ) once the last hand-off is over.
CloseFlushQ ==
  /\ mode = "close" /\ stage = "idle"
  /\ mode' = "done"
  /\ closed' = TRUE
  /\ UNCHANGED <<ch, batch, batchBytes, outbox, stage, draining, flushQ, flusher,
                 addVars, bufBytes, dropped, writeFailed, shutdownVars, fate, copies>>

\* send, the flushQ branch of either select.
HandOff ==
  /\ stage \in {"send", "handoff"}
  /\ Len(flushQ) < FlushQCap
  /\ flushQ' = Append(flushQ, outbox)
  /\ outbox' = NoBatch
  /\ stage' = "idle"
  /\ UNCHANGED <<ch, batch, batchBytes, mode, closed, draining, flusher, addVars,
                 bufBytes, dropped, writeFailed, shutdownVars, fate, copies>>

\* Mutant: the single select of old, which discards the batch uncounted.
DiscardOnCancel ==
  /\ stage = "send"
  /\ cancelled
  /\ outbox' = NoBatch
  /\ stage' = "idle"
  /\ UNCHANGED <<ch, batch, batchBytes, mode, closed, draining, flushQ, flusher,
                 addVars, bufBytes, dropped, writeFailed, shutdownVars, fate, copies>>

\* send, the context branch of the first select: go on to the bounded wait.
HandOffCancelled ==
  /\ stage = "send"
  /\ cancelled
  /\ stage' = "handoff"
  /\ UNCHANGED <<ch, batch, batchBytes, outbox, mode, closed, draining, flushQ,
                 flusher, addVars, bufBytes, dropped, writeFailed, shutdownVars,
                 fate, copies>>

\* Mutant: the abandoned batch is not counted.
AbandonUncounted ==
  /\ stage = "handoff"
  /\ Len(flushQ) >= FlushQCap
  /\ SetFate(outbox.items, "abandoned")
  /\ stage' = "giveback"
  /\ UNCHANGED <<ch, batch, batchBytes, outbox, mode, closed, draining, flushQ,
                 flusher, addVars, bufBytes, dropped, writeFailed, shutdownVars,
                 copies>>

\* The bounded wait ran out with flushQ still full: the batch is abandoned
\* and counted.
HandOffTimeout ==
  /\ stage = "handoff"
  /\ Len(flushQ) >= FlushQCap
  /\ dropped' = dropped + Cardinality(outbox.items)
  /\ SetFate(outbox.items, "abandoned")
  /\ stage' = "giveback"
  /\ UNCHANGED <<ch, batch, batchBytes, outbox, mode, closed, draining, flushQ,
                 flusher, addVars, bufBytes, writeFailed, shutdownVars, copies>>

\* Mutant: the abandoned batch's bytes stay reserved.
KeepAbandonedBytes ==
  /\ stage = "giveback"
  /\ outbox' = NoBatch
  /\ stage' = "idle"
  /\ UNCHANGED <<ch, batch, batchBytes, mode, closed, draining, flushQ, flusher,
                 addVars, bufBytes, dropped, writeFailed, shutdownVars, fate, copies>>

GiveBack ==
  /\ stage = "giveback"
  /\ bufBytes' = bufBytes - outbox.bytes
  /\ outbox' = NoBatch
  /\ stage' = "idle"
  /\ UNCHANGED <<ch, batch, batchBytes, mode, closed, draining, flushQ, flusher,
                 addVars, dropped, writeFailed, shutdownVars, fate, copies>>

Loop == \/ Accumulate \/ Tick \/ BeginDrain \/ EndDrain \/ CloseFlushQ
        \/ HandOff \/ HandOffCancelled \/ HandOffTimeout \/ GiveBack

-----------------------------------------------------------------------------
(* Flusher w.                                                              *)

\* One receive of `for b := range flushQ`.
Take(w) ==
  /\ flusher[w].pc = "take"
  /\ flushQ # <<>>
  /\ flushQ' = Tail(flushQ)
  /\ flusher' = [flusher EXCEPT ![w] = [pc |-> "tries", batch |-> Head(flushQ), left |-> 0]]
  /\ UNCHANGED <<ch, loopVars, addVars, bufBytes, dropped, writeFailed,
                 shutdownVars, fate, copies>>

\* draining is read once per batch: a drain that begins later does not
\* shorten the retries already granted.
GrantTries(w) ==
  /\ flusher[w].pc = "tries"
  /\ flusher' = [flusher EXCEPT ![w] = [pc |-> "flush", batch |-> flusher[w].batch,
                   left |-> IF draining THEN 1 ELSE flushAttempts]]
  /\ UNCHANGED <<ch, loopVars, flushQ, addVars, bufBytes, dropped, writeFailed,
                 shutdownVars, fate, copies>>

Landed(S) == copies' = [i \in Item |-> IF i \in S THEN copies[i] + 1 ELSE copies[i]]

\* Mutant: an insert that landed part of the batch counts as a success.
FlushPartlyOK(w) ==
  /\ flusher[w].pc = "flush"
  /\ \E S \in SUBSET InFlight(w) : Landed(S)
  /\ SetFate(InFlight(w), "written")
  /\ flusher' = [flusher EXCEPT ![w].pc = "release"]
  /\ UNCHANGED <<ch, loopVars, flushQ, addVars, bufBytes, dropped, writeFailed,
                 shutdownVars>>

FlushOK(w) ==
  /\ flusher[w].pc = "flush"
  /\ Landed(InFlight(w))
  /\ SetFate(InFlight(w), "written")
  /\ flusher' = [flusher EXCEPT ![w].pc = "release"]
  /\ UNCHANGED <<ch, loopVars, flushQ, addVars, bufBytes, dropped, writeFailed,
                 shutdownVars>>

\* Mutants: every failed try gives the bytes back; the last failure is not
\* counted.
FlushErrorReleasing(w) ==
  /\ flusher[w].pc = "flush"
  /\ \E S \in SUBSET InFlight(w) : Landed(S)
  /\ bufBytes' = bufBytes - flusher[w].batch.bytes
  /\ \/ /\ flusher[w].left > 1
        /\ flusher' = [flusher EXCEPT ![w].left = @ - 1]
        /\ UNCHANGED fate
     \/ /\ flusher[w].left <= 1
        /\ flusher' = [flusher EXCEPT ![w].pc = "fail"]
        /\ SetFate(InFlight(w), "lost")
  /\ UNCHANGED <<ch, loopVars, flushQ, addVars, dropped, writeFailed, shutdownVars>>

FlushErrorUncounted(w) ==
  /\ flusher[w].pc = "flush"
  /\ \E S \in SUBSET InFlight(w) : Landed(S)
  /\ \/ /\ flusher[w].left > 1
        /\ flusher' = [flusher EXCEPT ![w].left = @ - 1]
        /\ UNCHANGED fate
     \/ /\ flusher[w].left <= 1
        /\ flusher' = [flusher EXCEPT ![w].pc = "release"]
        /\ SetFate(InFlight(w), "lost")
  /\ UNCHANGED <<ch, loopVars, flushQ, addVars, bufBytes, dropped, writeFailed,
                 shutdownVars>>

\* flushFn returned an error or ran into FlushTimeout.  The insert may have
\* landed some of the rows all the same.
FlushError(w) ==
  /\ flusher[w].pc = "flush"
  /\ \E S \in SUBSET InFlight(w) : Landed(S)
  /\ \/ /\ flusher[w].left > 1
        /\ flusher' = [flusher EXCEPT ![w].left = @ - 1]
        /\ UNCHANGED fate
     \/ /\ flusher[w].left <= 1
        /\ flusher' = [flusher EXCEPT ![w].pc = "fail"]
        /\ SetFate(InFlight(w), "lost")
  /\ UNCHANGED <<ch, loopVars, flushQ, addVars, bufBytes, dropped, writeFailed,
                 shutdownVars>>

CountFailed(w) ==
  /\ flusher[w].pc = "fail"
  /\ writeFailed' = writeFailed + Cardinality(InFlight(w))
  /\ flusher' = [flusher EXCEPT ![w].pc = "release"]
  /\ UNCHANGED <<ch, loopVars, flushQ, addVars, bufBytes, dropped, shutdownVars,
                 fate, copies>>

\* The batch has left: give its bytes back, whatever became of it.
Release(w) ==
  /\ flusher[w].pc = "release"
  /\ bufBytes' = bufBytes - flusher[w].batch.bytes
  /\ flusher' = [flusher EXCEPT ![w] = [pc |-> "take", batch |-> NoBatch, left |-> 0]]
  /\ UNCHANGED <<ch, loopVars, flushQ, addVars, dropped, writeFailed, shutdownVars,
                 fate, copies>>

\* The range over the closed, empty flushQ ends.
FlusherExit(w) ==
  /\ flusher[w].pc = "take"
  /\ flushQ = <<>> /\ closed
  /\ flusher' = [flusher EXCEPT ![w].pc = "done"]
  /\ UNCHANGED <<ch, loopVars, flushQ, addVars, bufBytes, dropped, writeFailed,
                 shutdownVars, fate, copies>>

Flush(w) == Take(w) \/ GrantTries(w) \/ FlushOK(w) \/ FlushError(w) \/ CountFailed(w)
              \/ Release(w) \/ FlusherExit(w)

-----------------------------------------------------------------------------
(* Ordered teardown in main: receivers first, then the pipeline context.   *)

\* A graceful stop waits for the handlers.
StopReceivers ==
  /\ receivers = "up"
  /\ \A p \in Producer : producer[p].pc = "idle"
  /\ receivers' = "down"
  /\ UNCHANGED <<ch, loopVars, flushQ, flusher, addVars, bufBytes, dropped,
                 writeFailed, cancelled, fate, copies>>

\* Its deadline cuts the wait short: the handlers of an HTTP server go on.
StopDeadline ==
  /\ receivers = "up"
  /\ receivers' = "cut"
  /\ UNCHANGED <<ch, loopVars, flushQ, flusher, addVars, bufBytes, dropped,
                 writeFailed, cancelled, fate, copies>>

PipeCancel ==
  /\ receivers # "up" /\ ~cancelled
  /\ cancelled' = TRUE
  /\ UNCHANGED <<ch, loopVars, flushQ, flusher, addVars, bufBytes, dropped,
                 writeFailed, receivers, fate, copies>>

\* Stop has returned: the loop and every flusher are done.
Stopped == mode = "done" /\ \A w \in Flusher : flusher[w].pc = "done"

\* The process exits; handlers that outlived the receivers have finished.
Exited ==
  /\ Stopped /\ \A p \in Producer : producer[p].pc = "idle"
  /\ UNCHANGED vars

Next ==
  \/ \E p \in Producer : Add(p)
  \/ Loop
  \/ \E w \in Flusher : Flush(w)
  \/ StopReceivers \/ StopDeadline \/ PipeCancel
  \/ Exited

Spec == Init /\ [][Next]_vars

\* Goroutines that can run do run, an insert returns within FlushTimeout,
\* the drain timer fires, and once told to stop main cancels the context.
Fairness ==
  /\ WF_vars(Loop)
  /\ \A w \in Flusher : WF_vars(Flush(w))
  /\ \A p \in Producer : WF_vars(Send(p) \/ CountAccepted(p) \/ Unreserve(p)
                                    \/ CountDropped(p))
  /\ WF_vars(PipeCancel)

FairSpec == Spec /\ Fairness
-----------------------------------------------------------------------------
(* What the consumer guarantees.                                           *)

ProducerState == [pc : {"idle", "send", "accept", "release", "drop"}, arg : SUBSET Item]
FlusherState == [pc : {"take", "tries", "flush", "fail", "release", "done"}, batch : Batch,
                 left : 0..flushAttempts]

\* Types of the consumer's state; bufBytes is a signed int64 in the code and
\* never goes below zero.
TypeOK ==
  /\ ch \in Seq(Item) /\ Len(ch) <= BufferSize
  /\ batch \in SUBSET Item /\ batchBytes \in Nat
  /\ outbox \in Batch
  /\ stage \in {"idle", "send", "handoff", "giveback"}
  /\ mode \in {"run", "drain", "close", "done"}
  /\ flushQ \in Seq(Batch) /\ Len(flushQ) <= FlushQCap
  /\ closed \in BOOLEAN /\ draining \in BOOLEAN /\ cancelled \in BOOLEAN
  /\ flusher \in [Flusher -> FlusherState]
  /\ producer \in [Producer -> ProducerState]
  /\ bufBytes \in Nat
  /\ accepted \in Nat /\ dropped \in Nat /\ writeFailed \in Nat
  /\ receivers \in {"up", "down", "cut"}
  /\ offered \in SUBSET Item
  /\ fate \in [Item -> Fate]
  /\ copies \in [Item -> Nat]

\* bufBytes is exactly the bytes of the items inside the pipeline plus those
\* of the Adds in progress: every path out (flushed, write-failed, abandoned,
\* refused) gives back what was reserved, once, so the budget never leaks
\* shut and never opens wider.
BytesExact == bufBytes = BytesOf(Pipeline \union AddingAt({"send", "release"}))

\* The items held across channel, batches and inserts in flight never exceed
\* ByteBudget, however many Adds race: bufBytes may overshoot while a
\* refused Add has not yet given back its reservation, the memory does not.
WithinBudget == sizingEnabled => BytesOf(Pipeline) <= ByteBudget

\* Why the bytes are exact: the parts of an inductive invariant.  A goroutine
\* holds a batch or an item only between taking it and giving it up, ...
Shape ==
  /\ \A p \in Producer : IF producer[p].pc = "idle" THEN producer[p].arg = {}
                         ELSE \E i \in Item : producer[p].arg = {i}
  /\ \A w \in Flusher : flusher[w].pc \in {"take", "done"} => flusher[w].batch = NoBatch
  /\ stage = "idle" => outbox = NoBatch
  /\ Pipeline \subseteq offered
  /\ \A p \in Producer : producer[p].arg \subseteq offered

\* ... an item is in one place at a time, ...
OnePlace ==
  /\ \A j, k \in DOMAIN ch : ch[j] = ch[k] => j = k
  /\ \A j, k \in DOMAIN flushQ : j # k => flushQ[j].items \intersect flushQ[k].items = {}
  /\ \A v, w \in Flusher : v # w => InFlight(v) \intersect InFlight(w) = {}
  /\ \A p, q \in Producer : p # q => producer[p].arg \intersect producer[q].arg = {}
  /\ Elems(ch) \intersect (batch \union outbox.items \union QueuedItems \union AllInFlight) = {}
  /\ batch \intersect (outbox.items \union QueuedItems \union AllInFlight) = {}
  /\ outbox.items \intersect (QueuedItems \union AllInFlight) = {}
  /\ QueuedItems \intersect AllInFlight = {}
  /\ AddingAt({"send", "release", "drop"}) \intersect Pipeline = {}

\* ... every batch carries the sum of its items' sizes, ...
SumsExact ==
  /\ batchBytes = BytesOf(batch)
  /\ outbox.bytes = BytesOf(outbox.items)
  /\ \A k \in DOMAIN flushQ : flushQ[k].bytes = BytesOf(flushQ[k].items)
  /\ \A w \in Flusher : flusher[w].batch.bytes = BytesOf(InFlight(w))

\* ... and an Add that passed the budget check still fits when it sends.
AdmittedFit == sizingEnabled => BytesOf(Pipeline \union AddingAt({"send"})) <= ByteBudget

ByteInv == TypeOK /\ Shape /\ OnePlace /\ SumsExact /\ BytesExact /\ AdmittedFit

\* The published counters, against what happened: every refused or abandoned
\* item is in dropped, every item whose inserts all failed is in
\* writeFailed, every other item that left Add is in accepted; the only
\* lag is that of a goroutine between the event and its atomic add.
Settled(f) == {i \in Item : fate[i] = f}
CountersExact ==
  /\ dropped + Cardinality(AddingAt({"release", "drop"}))
       = Cardinality(Settled("refused") \union Settled("abandoned"))
  /\ writeFailed + Cardinality(Flushing({"fail"})) = Cardinality(Settled("lost"))
  /\ accepted + Cardinality(AddingAt({"send", "accept"}))
       = Cardinality(offered \ Settled("refused"))

\* Why: a further part of the inductive invariant.  An item's fate is decided
\* by the place it is in, and an item without one is still in some place; ...
PlaceFate ==
  /\ \A i \in Elems(ch) \union batch \union QueuedItems : fate[i] = "none"
  /\ \A i \in outbox.items : fate[i] = IF stage = "giveback" THEN "abandoned" ELSE "none"
  /\ \A p \in Producer, i \in Item : i \in producer[p].arg =>
       /\ producer[p].pc = "send" => fate[i] = "none"
       /\ producer[p].pc \in {"release", "drop"} => fate[i] = "refused"
  /\ \A w \in Flusher, i \in Item : i \in InFlight(w) =>
       /\ flusher[w].pc \in {"tries", "flush"} => fate[i] = "none"
       /\ flusher[w].pc = "fail" => fate[i] = "lost"
       /\ flusher[w].pc = "release" => fate[i] \in {"written", "lost"}
  /\ \A i \in Item : IF i \in offered
                     THEN fate[i] = "none" => i \in Pipeline \union AddingAt({"send"})
                     ELSE fate[i] = "none"

\* ... only what a flusher has tried to insert can be in the store; ...
StoreFate ==
  \A i \in Item : copies[i] > 0 =>
    \/ fate[i] \in {"written", "lost"}
    \/ \E w \in Flusher : flusher[w].pc = "flush" /\ i \in InFlight(w)

\* ... and the teardown goes in order: handlers, loop, dispatch queue, flushers.
Teardown ==
  /\ mode \in {"close", "done"} => batch = {}
  /\ mode = "done" => stage = "idle"
  /\ closed => mode = "done"
  /\ \A w \in Flusher : flusher[w].pc = "done" => closed /\ flushQ = <<>>
  /\ mode # "run" => cancelled
  /\ cancelled => receivers # "up"
  /\ receivers = "down" => \A p \in Producer : producer[p].pc = "idle"
  /\ receivers = "down" /\ mode \in {"close", "done"} => ch = <<>>

LedgerInv == ByteInv /\ PlaceFate /\ StoreFate /\ Teardown /\ CountersExact

\* When Stop has returned and no Add is running, every item offered is
\* accounted for, except those still in ch, whose bytes are what Stop
\* reports; and ch is empty if the receivers' shutdown waited for their
\* handlers before the pipeline was cancelled.
Quiet == Stopped /\ \A p \in Producer : producer[p].pc = "idle"
NoSilentLoss ==
  Quiet => /\ \A i \in offered : fate[i] = "none" <=> i \in Elems(ch)
           /\ bufBytes = BytesOf(Elems(ch))
           /\ receivers = "down" => ch = <<>>

\* The consumer implements the ledger: decided once, settled once with its
\* batch, refused items never stored, held bytes within the budget.
LedgerStatus == [i \in Item |->
  IF fate[i] # "none" THEN fate[i]
  ELSE IF i \in AddingAt({"send"}) THEN "offered"
  ELSE IF i \in offered THEN "held"
  ELSE "new"]
LedgerStored == {i \in Item : copies[i] > 0}
Ledger == INSTANCE IngestLedger WITH status <- LedgerStatus, stored <- LedgerStored
ImplementsLedger == Ledger!LedgerSpec

\* Shutdown ends: once the pipeline context is cancelled, Stop returns even
\* when inserts keep failing and the flush queue is full.
ShutdownCompletes == cancelled ~> Stopped

\* An item Add took in is not parked for ever: the ticker, the flushers and
\* the drain settle it, unless its handler outlived the receivers and sent it
\* after the loop had drained ch.
EveryItemSettles ==
  \A i \in Item : i \in offered ~>
    fate[i] # "none" \/ (receivers = "cut" /\ Stopped /\ i \in Elems(ch))
=============================================================================

# Coremetry: a TLA+ development

Coremetry is an observability server: it takes in OpenTelemetry spans, logs and
metrics, stores them in ClickHouse (logs optionally in Elasticsearch), evaluates
alert rules over them, opens problems and incidents, runs runbooks, and serves a
UI. Several identical pods run side by side; Redis elects, per background
worker, the pod that does the work. This directory models the parts of it whose
correctness depends on the order in which goroutines, pods, Redis and the store
act, checks the models with TLC and proves the central invariants with TLAPS.

## Inventory

| component | state | operations | hard because |
|---|---|---|---|
| **ingest consumer** `internal/consumer` | channel `ch`, batch being built, `flushQ`, `bufBytes`, counters `accepted`, `dropped`, `writeFailed`, `draining` | `Add`, `loop` (accumulate, tick, drain, hand-off), `flusher` (retry, release), `Stop` | many handlers race for a byte budget; shutdown drains through a queue that may be stuck; inserts fail after landing rows |
| **leader election** `internal/cache` | Redis key with TTL; per pod `held`, token registry, last successful refresh, real lock or always-leader fallback | `LeaderHolder.run`, `TryAcquire`, `Refresh`, `Release`, boot fallback, re-probe | lost replies, expiry under a pod that does not know, late requests, crashes, boot without Redis |
| **runbook execution** `internal/agent`, `internal/api/runbook_exec.go`, `internal/chstore/runbook_executions.go` | one versioned row per run, one Redis claim | agent: poll, claim, mark, execute, result, release; API: tick, cancel | whole-row read-modify-write by several writers without a version check |
| **alert evaluator** `internal/evaluator` | breach and resolve stamps in memory and in Redis, tick continuity, open problems | `evaluateAll`, `evaluateOne`, `settleCountAlert`, sweep, escalation | leadership moves between ticks, two leaders during a crossover, snapshot read at the start of a tick |
| problem and incident store `internal/chstore` | ReplacingMergeTree rows, last version wins | upsert, acknowledge, resolve, stale listing | no compare-and-set |
| OTLP receivers `internal/otlp` | none of their own; several consumers | gRPC and HTTP export, partial success, 429 | a batch goes to several queues, the client retries as a whole |
| **SRE investigations** `internal/sre` | one record per item with its claim and attempts, one Redis lock per item; per pod the tick in progress and the items in flight | `Enqueue`, marks on a result, tick (list, reclaim, claim), execute (checkpoint, result, requeue), shutdown | reclaim from an older listing, requests that write without the lock, lost leases, crashes, a grace period that ends under an executor |
| SSE broker `internal/sse` | subscriber queues, Redis bridge | subscribe, publish, fan out | slow subscribers, echo over the bridge |
| notifications, monitors, watchers, cluster presence | de-duplication windows, probe states, schedules | periodic | mostly I/O; led through the election |
| anomaly, topology, entity, correlation, rollout, Argo CD workers | derived rows | periodic queries | data, not control |
| storage clients, query languages, API, auth, AI features | - | request/response | I/O or unbounded text |

How they interact: the receivers call `Consumer.Add` from request goroutines and
turn a `false` into a refusal the client retries; `main.go` tears down in order
(receivers, then the pipeline context, then `Stop` of every consumer). Every
background worker asks its `LeaderHolder` whether it leads before each tick. The
runbook agents use the same Redis lock, but as a short claim without refresh; the
investigation drain uses it per item, refreshed by the item's executor, and every
pod of the role drains, with no leader.
Problems, executions and investigations live in ClickHouse tables in which the
newest version of a row wins, so every writer that read before another one wrote
overwrites it.

What makes each part correct:

* consumer: every item is refused with a count, or written, or counted as lost;
  `bufBytes` is exactly what is held, and what is held fits the budget; shutdown
  ends.
* election: never two leaders for longer than a known bound, always a leader
  within a known bound, nobody removes another pod's lease, and after any
  trouble the fleet settles on one leader.
* runbooks: steps in order, one agent inside a run while its claim lasts, each
  step executed once, a cancelled run stays cancelled.
* alerts: one unresolved problem per rule and service, a stamped cooldown kept
  across a failover, no breach that is still being measured closed as silent.
* investigations: one executor at a time, its record left alone by other pods, an
  item that kills pods given up, none stuck for ever, a result kept.

The hazards behind these, each at its source line, are in `PROJECT.json`.

## Modules

| module | models |
|---|---|
| `ByteAccounting` | the sizer: `sizeOf`, and the bytes of a set of items |
| `IngestLedger` | abstract specification of a consumer: each item decided once, settled once with its batch |
| `Consumer` | `consumer.go` and the teardown order of `main.go` |
| `LeaderLease` | `leader.go`, the lock halves of `redis.go`, `cache.go`, `switchable.go` |
| `RunbookRun` | `runner.go`, `runbook_exec.go`, `runbook_executions.go` for one run |
| `AlertLifecycle` | `evaluateOne` and the tick around it, `stamps.go`, `tick_continuity.go`, `heartbeat.go`, and the problem rows, for one rule and service |
| `SreDrain` | `drain.go`, `queue.go` and the marks of `hypotheses.go` and `recommend.go` over the investigation records, with the per-item lock of `redis.go` |
| `MCConsumer`, `MCLeaderLease`, `MCRunbookRun`, `MCAlertLifecycle`, `MCSreDrain` | instances for TLC |
| `ByteAccountingProofs`, `ConsumerProofs`, `ConsumerLedgerProofs`, `ConsumerRefinementProofs` | theorems about the consumer: bytes, items and counters, refinement of `IngestLedger` |
| `LeaderLeaseProofs`, `RunbookRunProofs`, `AlertLifecycleProofs`, `SreDrainProofs` | theorems about these modules |

A module with operators whose comment begins "Mutant" keeps them beside the
definition they deviate from; no specification uses them. Each is a plausible
mistake in that piece of code, and `PROJECT.json` pairs it with the property that
notices it.

### Consumer

A step is one atomic operation, one channel operation or one insert. `Add` is
five of them: the atomic add to `bufBytes` whose result decides (`Reserve`), the
non-blocking send, and the counter or the reservation given back. The loop's
`select` is nondeterministic, as in Go: a cancelled context may be noticed while
`ch` still has items, and the first `select` of `send` may pick the context
although `flushQ` has room. The hand-off timer only fires while `flushQ` is full,
because it starts afresh with each hand-off and a blocked send is taken up as
soon as there is room. A failed insert lands any subset of its batch, which is
what an error or a timeout from ClickHouse leaves open. `GrantTries` reads
`draining` after the receive, once per batch.

Items are model values with sizes; a batch is a set, for no property depends on
its order. `fate`, `offered` and `copies` are history and store contents, not
program state. The receivers stop in one of two ways: gracefully, which waits for
the handlers (`StopReceivers`), or by the ten-second deadline of their `Shutdown`,
which leaves handlers running (`StopDeadline`, `receivers = "cut"`). Only the second
can leave something in `ch`, and `NoSilentLoss` says so: after a graceful stop and
the drain, `ch` is empty.

Deliberately left out: log lines, back-off durations (a retry may come at any
time), the `Stats` getters.

### LeaderLease

One key, one `LeaderHolder` per pod. Time is discrete: `TTL`, the acquire retry
and the longest round trip are constants, the refresh interval is `TTL \div 3` as
in the code. A round trip starts, is executed by the server and returns, and may
fail before or after it was executed; a request whose caller gave up may be
executed later (`stray`). A pod whose timer is at zero acts before the clock
moves, so the model assumes goroutines are scheduled promptly on the scale of a
tick; the assumption `3 * RPCMax <= TTL \div 3` holds in the deployment, where the
client's dial, read and write timeouts are half a second each and the refresh
interval is at least ten seconds. `Boot` picks the real lock or the always-leader
fallback, `Reprobe` swaps the real one in once. Tokens are numbers that may be
used again when nobody knows them any more, standing for random ones.

### RunbookRun

One execution row and its claim. Every writer's read and write are separate
steps, and a write stores the writer's whole copy as the newest version, as
`UpsertExecution` does. `Faults` allows crashes and failing store or lock calls, a
SETNX whose answer is lost included. `SlowSteps` allows a step to outlive the claim:
the claim lives five minutes and is not refreshed, and `Execute` alone may take five.
`NoRedis` holds the agents that booted without Redis, whose fallback lock grants every
claim (`noopLock` of `cache.go`). `unclaimed` is history: the agents inside `runStep`
whose claim ran out under them or was never in Redis. `NoConcurrentRun` is about the
others; it holds because a release deletes only the agent's own token, so that an agent
that overstayed its claim does not free the claim of the next one. What the overstayed
claim itself lets happen is `runbook_slow`. `MaxRuns` bounds how often one step is
executed.

### AlertLifecycle

The problems of one (rule, service) pair. A tick is a sequence of steps, one per
call that others can observe: `Begin` (the leader check and the continuity note),
`OpenProblemsSnapshot`, `Measure` (the measured signal, the sustain gate and the
look-up in the snapshot), then `CooldownGate` and `Open`, or `Refresh`, or
`Resolve` and `stampResolved`, then `SweepList`, `SweepClose` and
`writeHeartbeat`. Every stamp is kept in the pod's memory and in Redis with its
expiry; writing both is one step. `Refresh` and `Resolve` write the snapshot's copy
of the row back, and an operator's `AcknowledgeProblems` or `ResolveProblems`
writes the copy it listed, so the latest writer wins as in the store.
`SweepClose` writes only fields it sets itself, so the listed copy need not be
kept.

Measuring yields a breach, no breach, too few samples or no data, freely at each
tick. `resolvedOn` and `quiet` are history: when an auto-resolve was stamped, and
whether some tick saw no breach since the row was last opened or refreshed.
`CooldownKept` counts from the stamp (`evaluator.go:1027`), not from the resolved row
(`evaluator.go:1021`): the two are separate steps, and a leader that dies between them
leaves a resolved row without a cooldown, so that the next one may open a problem at
once. `stamps.go:174-178` means to exclude a re-open on a freshly elected leader; it
does for every resolve that was stamped.

Assumptions of the model, each of which a later stage may lift:

* One pod leads at a time and it is not demoted in mid-tick; it may crash there.
  `Bounce` says whether a demoted pod keeps its memory and may lead again.
* Redis and ClickHouse answer. The snapshot's fallback query, its five-second
  memo and failed upserts are left out.
* The clock is coarse: an operator's request ends before the clock moves and
  before a new leader is elected. `MaxTick` bounds a tick's length; all runs have
  it at zero, ticks that are short against the interval. `OneOpen` holds, and is
  proved, for every `MaxTick < Interval`. When a tick takes the whole interval, a
  request may span two of them: it reads a row, the first tick resolves the row,
  the second opens another problem, and then the acknowledged copy is written.
* Escalation, which re-writes open rows with a higher severity, the incident
  attachment and notification are left out.

### SreDrain

A pod's tick is cut at the points where others can act: `List` reads the queued and
running records, `Triage` reads the items in flight after it, `TryAcquire` takes the
item's lock in the reclaim or the claim loop, `Reclaim` saves the *listed* record,
`Pick` chooses queued items up to `MaxConcurrent`, and `StartRun` or `DropClaim`
reads the record again under the lock, as `claim` does. An executor checkpoints its
own copy, saves a result (`Finish`) or, once the grace period is over, gives the item
back (`Requeue`), and then releases the lock and leaves the in-flight map (`Leave`).

Requests take no lock and write the whole record: `Enqueue` (`EnqueueLoad`,
`EnqueueSave`), which leaves a queued or running record alone, and an operator's mark
on a hypothesis or a recommendation (`MarkLoad`, `MarkSave`; `ApplyHypothesisMark` and
`ApplyRecommendationAck` have the same shape and the same effect on what is modelled),
which refuses one. Both checks are made at the read; a request that is late writes over
whatever the next run has made of the record, a running one included, until the
executor's next checkpoint writes over that. The comments at `hypotheses.go:1069` and
`recommend.go:668` give the executor's checkpoint as the reason for the refusal; the
late write is the other side of it. A request whose write fails is one that never
writes.

`claim` reads and writes the record under the lock; the model does both in `StartRun`.
Only a request could come between the two, and what it writes there is lost just as
what it writes before the executor's first checkpoint is.

Done, partial and error are one state, `over`; nothing in the drain tells them apart,
and the attempts of a finished record are not read again before the next request sets
them to zero.

Events, counted by `MaxEvents`: a crash, a SIGTERM, a lease that runs out under its
executor (which only logs it), an answer to SETNX that is lost, a failed release, a
failed write that landed or not, a mark, a request for another run. A crashed or exited
pod is replaced by a new process without a token registry, so its locks become `Orphan`
until they expire.

There is no clock. `old` holds the claims made more than two leases ago; a claim may
grow old at any time, also under a live executor when `SlowItems` (the item budget
may be set to 600 seconds, two leases are 360). Two facts about durations are kept:
a lease takes minutes to expire and a tick takes seconds, so an orphaned lock does
not expire before the ticks in progress are over (`span`); and a claim made after a
tick listed the item does not grow old within that tick.

`run`, `lapsed`, `deaths` and `disturbed`: the number of the investigation is the
code's `Run`; the others are history: executors whose lease ran out, executors of the
current run that died with their pod, and items whose lease ran out or that were
requested anew under an executor, or whose record a late mark wrote over. `GivenUp` leaves the disturbed items aside, because
an executor that is no longer alone saves its own copy at the next checkpoint, and that
copy has the count of attempts it started with: with enough lapsed leases an item may
take down more pods than `MaxAttempts`.

Left out: the order of the queue (any choice of queued items is allowed), `MaxQueue`,
the idle exit, the heartbeat, publishing, what the steps find, shared records (never queued), replay records and their evaluation row, the
always-leader lock of a deployment without Redis, and disabling the feature at run time.

## What the runs check

| run | instance | shows |
|---|---|---|
| `consumer_race` | 3 items of sizes 1, 1, 2, two handlers, two flushers, budget 3, channel of 2, batches of 2, graceful or cut-off stop | types, the inductive invariant `ByteInv`, `BytesExact`, `WithinBudget`, `CountersExact`, `NoSilentLoss`, and that the consumer implements `IngestLedger` |
| `consumer_drain` | one handler, one flusher (queue of 2), channel of 1, batches of 2, budget 4, graceful or cut-off stop | the hand-off to a full queue times out; the counters stay exact, a graceful stop leaves nothing in `ch`; `ShutdownCompletes`; `EveryItemSettles`, also for a batch that only the ticker sends on |
| `lease_safety` | 2 pods, TTL 9, refresh 3, retry 2, round trip 1, one stray request | `OverlapBounded`, `FailoverBounded`, `LeaseYieldedByOwner`, `Converges` |
| `runbook_safe` | 3 agents, any of which may be on the fallback lock, 1 operator request, 3 steps of which the middle one is manual, faults, slow steps | `OrderRespected`, `NoConcurrentRun` |
| `runbook_twice` | 2 agents, 1 step, no faults | `NoDoubleRun` is violated |
| `runbook_cancel` | 1 agent, 1 request, 1 step, no faults | `NoResurrection` is violated |
| `runbook_slow` | 2 agents, 1 request, 2 steps, no faults, slow steps | `OneStepAtATime` is violated |
| `alert_safe` | 2 pods, interval 1, sustain 1, cooldown 2, mirrored stamps for 3, 2 problems, clock to 7, crashes, operators | `OneOpen`, `CooldownKept`, `SweepOnlySilent` |
| `alert_cooldown` | 2 pods that keep their memory when demoted, cooldown 2, no sustain | `CooldownKept` is violated |
| `alert_sweep` | 2 pods, interval 2, sustain 4 (two intervals), stamps for 8 | `SweepOnlySilent` is violated |
| `sre_drain` | 2 pods, 1 item, 2 attempts, 2 runs, any 3 events (faults, marks, a second run), items that outlast two leases | `OneExecutor`, `GivenUp`, `OwnerWrites`, `Settles` |
| `sre_lost` | 1 pod, 1 item, no faults | `ResultKept` is violated |

Why the bounds suffice: three items with two sizes are enough for the budget to
refuse while the channel has room, for the channel to refuse while the budget has
room, and for a full batch with another item behind it; batches that the ticker sends
on with one item each fill the flusher and both places of `flushQ`. Two
handlers and two flushers are every pairwise race; the proofs cover the rest for
the byte accounting. In the election a third pod only adds another contender for
a free key. Three steps have an automated one on each side of a manual one; a third
agent is the one that a late release of the first would let in beside the second; the
request and the agents give every read-write interleaving of two writers with a third
version between them.

For alerts the clock reaches 7: with an interval of 1 a sustained problem opens at
2 at the earliest, goes stale at 6, and is swept with a tick to spare; a resolve, a
failover and an attempt to re-open fit as well. Two problems are one open or just
resolved and one that would be the duplicate. `alert_safe` keeps the sustain window
within one interval and restarts demoted pods; `alert_sweep` and `alert_cooldown`
show what each of these two restrictions excludes.

For investigations one item is enough: records, locks and executors of different
items share only the pod's `MaxConcurrent`, and `Pick` may pass an item over anyway.
Three events let an item use up both its attempts and still meet a lost lease or a
failed write, or be marked, run again and lose its pod; four claim numbers are one per place that can carry one. The run has one
request at a time; the theorems hold for any number of them.

Bounds on the lease: a pod that has lost its lease to a partition stops leading
within `4 * RPCMax` (three refresh intervals, each lengthened by a failing round
trip, then the trip that finds the errors have outlived the lease); one that came
off the fallback has no token and finds out at its next heartbeat, so within one
refresh interval. After the faults end a leaderless fleet with a pod up has a
leader within `TTL + Retry + 3 * RPCMax - 1`: the lease of the dead leader may have
been set anew by its last request and runs out after `TTL`; a pod that asked just
before waits for its refusal and for the retry, and its next request takes a round trip
to be granted; with a round trip of one the last terms are `2 * RPCMax`.

### Fairness

* Consumer: weak fairness of the loop, of each flusher and of an `Add` that has
  begun. Goroutines are scheduled; an insert returns because every attempt runs
  under `FlushTimeout`; the hand-off timer fires; `PipeCancel` is fair because
  `main` cancels the pipeline unconditionally after the receivers have been
  stopped. Nothing obliges a handler to offer an item or the operator to stop the
  process.
* Election: the clock, the server and the goroutines go on; a pod that is down is
  started again (the orchestrator); the re-probe loop eventually reaches Redis.
  `Converges` only speaks of behaviours whose faults end.
* Alerts: no liveness is claimed; the clock's bound ends every behaviour, so
  deadlock is not checked.
* Investigations: the poll loops, the executors (each runs under its item budget), the
  grace timers, the restart of pods, the expiry of keys nobody refreshes and the ageing
  of claims go on. Nobody has to request or mark anything, and events are finitely many.
* Runbooks: no liveness is claimed, and deadlock is not checked: a run comes to
  rest when it is finished, or when `MaxRuns` is reached.

## What is proved

`ByteAccountingProofs` shows that bytes are finite and additive over disjoint
sets. `ConsumerProofs` shows, for any number of items, sizes, handlers, flushers
and any capacities, under `ByteAssumption` and `ConsumerAssumption` only:

* `ConsumerByteInv`: `Spec => []ByteInv`;
* `ConsumerTypeOK`, `ConsumerBytesExact`, `ConsumerWithinBudget`, from it.

`BytesExact` is not inductive: releasing a batch subtracts the number it carries,
so one must know that the number is the sum of its items' sizes (`SumsExact`) and
that none of these items is anywhere else (`OnePlace`), which in turn needs that
a goroutine holds items only between taking and giving up (`Shape`).
`WithinBudget` needs that an `Add` that passed the check still fits when it sends
(`AdmittedFit`): between its reservation and its send, others only reserve on top
of what it reserved. That `bufBytes` never goes negative, part of `TypeOK`,
follows from the same facts. The proof has one lemma per action.

`RunbookRunProofs` shows, for any number of agents, requests and steps, under
`RunbookAssumption`: `RunbookInvariant` (`RunInv`, inductive), `RunbookOrder`
(`OrderRespected`) and `RunbookClaim` (`NoConcurrentRun`). The order of steps
rests on `settled` only growing, and on an agent's step having been the first open
one of some version (`SeenSettled`); it needs neither the claim nor fresh reads. The
claim's part says that an agent inside `runStep`, or about to release, has the claim
unless it is in `unclaimed` (`ClaimHeld`): slow steps and the fallback lock are not
excluded, and the token check of the release is what keeps it.

`RunbookTypeOK` is part of the same invariant.

`ConsumerLedgerProofs` and `ConsumerRefinementProofs` follow the items instead of their
bytes, under the same assumptions as `ConsumerProofs`:

* `ConsumerLedgerInv`: `Spec => []LedgerInv`; `ConsumerCountersExact` and
  `ConsumerNoSilentLoss` from it;
* `ConsumerImplementsLedger`: `Spec => ImplementsLedger`.

`NoSilentLoss` speaks of the end only; the invariant says at every step what fate an
item has in each place (`PlaceFate`), that only what a flusher tried to insert can be
stored (`StoreFate`), and that the teardown goes in order (`Teardown`): the flushers
end after the queue was closed, the queue is closed after the loop is done, the loop
after the context, and after a graceful stop of the receivers nothing enters `ch`.
`ByteInv` is a conjunct because a fate is only well defined when an item is in one
place. The refinement maps an item to its fate, or to offered, held or new by where it
is; every action is shown to map to one step of the ledger or to a stutter, with
`LedgerInv` true before and after it.

`SreDrainProofs`, for any number of pods, items, requests, marks, claims and events, under
`DrainAssumption`: `DrainInvariant` (`DrainInv`, inductive), `DrainTypeOK`,
`DrainOneExecutor`, `DrainGivenUp`, `DrainOwnerWrites`. One executor follows from the
lock, so the invariant says who has it: an executor whose lease has not run out, and a
tick that is about to save or start (`LockCover`); in particular a tick's reclaim never
meets an executor of its own pod, whose token would let it through. The count of attempts needs
every copy of a record that may still be saved, the listed ones included
(`AttemptsCover`): a listed copy that is behind is harmless because its item is locked
by the dead pod's orphaned lock for as long as that tick lasts. `DrainOwnerWrites`
says of a record whose executor holds the lock that no other pod writes it; what is
written besides the executor's copy is what a pending `Enqueue` or mark carries, and
these read the record when it was finished.

`LeaderLeaseProofs`, for any set of pods and any `TTL`, `Retry`, `RPCMax` and `MaxStray`
under `LeaseAssumption`: `LeaseInvariant` (`LeaseInv`, inductive), `LeaseTypeOK`,
`LeaseOverlap`, `LeaseYielded`, and, from `FailoverInv`, `LeaseFailover`. The overlap is
a matter of counting: a pod's last good refresh, its timer and the remaining time of the
key are tied together (`Leased`), with at most three refreshes between a good one and
the moment `leader.go` gives up, each late by at most one round trip (`Waiting`,
`Refreshing`). That another pod's request cannot touch the key needs that tokens are
known to one pod only and that no stray request other than a refresh carries one still
in use (`TokensApart`). Without a leader, either somebody has been granted the lease and
is about to learn of it, or the lease runs out, or it is free and somebody is about to
ask (`Succession`); each case bounds the time already passed plus the time still to go.

`AlertLifecycleProofs`, for any number of pods and problems and any durations under
`AlertAssumption`:

* `AlertTypeOK`: `Spec => []TypeOK`;
* `AlertOneOpen`: `OneOpen`, if `MaxTick < Interval`. A problem is counted as open
  while somebody has a copy of it that would re-open it when written (`Claimed`); there
  is at most one, and none while a tick is about to open. An acknowledgement that
  overtakes a resolve is possible, but only until the next tick begins (`LateAck`),
  which is where the hypothesis is used. TLC finds the counterexample at
  `MaxTick = Interval`;
* `AlertCooldown`: `CooldownKept`, for every resolve that was stamped, if `~Bounce`:
  memory and mirror agree on the last resolve stamped (`Stamped`, `Remembers`), and the
  mirror outlives the cooldown.
  `alert_cooldown` shows that the hypothesis is needed;
* `AlertSweep`: `SweepOnlySilent`, if `~Bounce`, `ForSec + 2 * MaxTick <= Interval` and
  `ForSec + 2 * Interval + MaxTick <= stampTTL(ForSec)`. The invariant (`SweepInv`,
  which contains that of `OneOpen`) follows a row from tick to tick: after a tick the row
  was written since the tick began, or the breach is stamped, soon after the last writing
  or the start of the series, and not sustained yet (`Settled`); when the next tick
  begins without a gap this still holds, a gap later (`Pending`); the heartbeat carries
  it to another pod while the gap is tolerated (`Beat`). Since the mirrored stamp
  outlives the gap, the next pod sees it, and the row is refreshed before it is three
  intervals old, or the series is not that long. With the default interval of a minute
  the stamp's ten minutes are enough for every sustain window up to the interval.
  `alert_sweep` shows that the first bound is needed; with a shorter-lived stamp (2
  instead of 3 in the instance of `alert_safe`) TLC finds a counterexample too. `~Bounce`
  is used so that only the leader's memory counts; no counterexample without it is known.

Each inductive invariant was checked with TLC on the instances of the runs, and the
hypotheses and bounds were varied (round trips of two, ticks of one in an interval of
two or three, shorter stamps) before it was proved.

Model-checked only: all liveness (`ShutdownCompletes`, `EveryItemSettles`, `Converges`,
`Settles`), for which the prover has no rule at hand. The violations of `runbook_twice`,
`runbook_cancel`, `runbook_slow`, `alert_cooldown`, `alert_sweep` and `sre_lost` are
TLC's.

## Findings

1. *A step can run twice without any fault* (`runbook_twice`). `tick` lists the
   runs, then claims, and runs the step it listed without reading the row again
   (`runner.go:79`). An agent that listed before another pod claimed, executed
   and released the step claims it afterwards and executes it again, although
   `runner.go:23` promises that only one agent pod runs it.
2. *A cancelled run can be resurrected* (`runbook_cancel`). `runStep` writes the
   row it read earlier (`runner.go:100`, `:127`); a cancel between the read and
   the write is overwritten, which the comment at `runner.go:116` means to exclude.
3. *Two steps of a run can be executed at once* (`runbook_slow`). The claim is taken for
   five minutes and never refreshed (`runner.go:79`), a step may run five minutes
   (`executor.go:55`) beside its store calls. When the claim has run out under a slow
   step and an operator settles that step by hand, the next one is actionable: a second
   agent claims the run and executes it while the first still executes.
   `runner.go:25` has agents work in parallel on different executions only.
4. *A cooldown can be cut short by a leader that returns* (`alert_cooldown`).
   `resolvedAt` prefers the in-memory stamp and nothing clears it when the lease is
   lost (`stamps.go:185`). Pod a resolves, pod b leads, resolves a later problem,
   and a leads again: a still sees its own old stamp and opens a problem inside b's
   cooldown, which `evaluator.go:946` says a failover cannot do.
5. *An ongoing breach can be closed as silent* (`alert_sweep`). `evaluateOne` passes
   every breach through the sustain gate, open problem or not
   (`evaluator.go:914`), although the comment at `evaluator.go:907` says that open
   problems do not pass. The mirrored breach stamp is written once and expires
   after `max(2 x ForSec, 10 min)`; a leader elected after that starts the sustain
   clock anew and does not refresh the row for `ForSec`. When `ForSec` is two
   intervals or more, as for built-in rules at the default interval of a minute,
   the row is older than three intervals before its next refresh and the sweep
   closes it.
6. *A finished investigation can be queued again and its result lost* (`sre_lost`).
   `tick` lists the records (`drain.go:226`), then reads which items this pod has in
   flight (`drain.go:232`), and `reclaim` decides on the listed record
   (`drain.go:284`) and saves it. An investigation that ran longer than two leases and
   saves its result between the list and the reclaim is not in flight any more and its
   lock is free, so the listed `running` record goes back to the queue over the result.
   `drain.go:14` names crashed workers only; `claim` reads again under the lock, and
   says why (`drain.go:385`).

## Plan

Modelled and checked: `Consumer`, `LeaderLease`, `RunbookRun`, `AlertLifecycle`,
`SreDrain`. Every safety property a passing run checks is proved. What is left, in this
order:

1. `RunbookRun`: the positive side of the findings, that a step runs once, and a
   cancelled run stays cancelled, when no agent holds a copy older than its claim.
2. `SreDrain`: that a result is kept when no tick lists an item across its end.
3. `AlertLifecycle`: the evaluator as a client of `LeaderLease`, with two leaders during
   a crossover, and a failing snapshot query; `AlertSweep` without `~Bounce`.

## Not modelled

* OTLP receivers: they decode, sample and route, and keep no state. A batch goes to
  several consumers and a refusal of one makes the client send all of it again; that
  the links are queued twice is listed as a hazard.
* SSE broker: best-effort fan-out under one mutex, on which nothing modelled depends.
* The degraded flag of the lock: it stays up for a whole leader TTL after the real lock
  was swapped in, and `OverlapBounded` shows that a pod coming off the fallback leads
  without a lease for at most a third of that.
* Alert rules on logs, watchers and SLOs, native detectors, escalation, the incident
  cascade and notification: more callers of the same rows through the same upsert.
* Two evaluators during a lease crossover, a failing snapshot query and ticks as long as
  the interval: the assumptions of `AlertLifecycle` exclude them, and what they break is
  listed under hazards.
* The bulk of the repository, some half a million lines: SQL and HTTP clients, HTTP
  handlers that turn one request into one query, the UI, prompts and narration of the AI
  features, parsers and evaluators of query languages, statistics of the anomaly
  detectors, authentication. They are I/O, unbounded text or floating-point data without
  a protocol of their own; where a modelled part calls them they appear as a step with
  every outcome the caller distinguishes. The share of the source the map covers is
  small for that reason.

--------------------------- MODULE AlertLifecycle ---------------------------
(***************************************************************************)
(* The life of the problems of one (rule, service) pair: the evaluator's   *)
(* leader-gated tick (internal/evaluator evaluator.go), its sustain and    *)
(* cooldown stamps mirrored to Redis (stamps.go), the continuity gate of   *)
(* the silent-source sweep (tick_continuity.go, heartbeat.go), and the     *)
(* operators who acknowledge or resolve problems (chstore problem.go,      *)
(* problem_bulk.go), across leader changes and crashes.                    *)
(*                                                                         *)
(* A tick is a sequence of steps, one per call to ClickHouse or Redis that *)
(* others can observe.  Rows are whole-row upserts, the latest wins.       *)
(* Leadership is taken from LeaderLease's good case: a pod is not demoted  *)
(* in the middle of a tick, but it may crash there.                        *)
(***************************************************************************)
EXTENDS Integers, FiniteSets

CONSTANTS
  Pod, NoPod,
  Interval,     \* evaluator interval
  ForSec,       \* the rule's sustain window
  CooldownSec,  \* the rule's cooldown
  stampMinTTL,
  MaxTick,      \* the longest a tick takes
  Bounce,       \* does a demoted pod stay up, and may it lead again?
  MaxProblem,   \* bound: problems opened
  MaxTime       \* bound: the clock

ASSUME AlertAssumption ==
  /\ NoPod \notin Pod
  /\ Interval \in Nat \ {0} /\ ForSec \in Nat /\ CooldownSec \in Nat
  /\ stampMinTTL \in Nat \ {0} /\ MaxTick \in Nat
  /\ Bounce \in BOOLEAN
  /\ MaxProblem \in Nat /\ MaxTime \in Nat \ {0}

\* The largest tick gap that is no interruption, and the sweep's threshold.
tickGapTolerance == 2 * Interval
SweepAge == 3 * Interval
stampTTL(window) == IF 2 * window < stampMinTTL THEN stampMinTTL ELSE 2 * window

Time == 1..MaxTime
None == 0   \* the zero time.Time, a missing stamp
Problem == 1..MaxProblem
Status == {"none", "open", "acknowledged", "resolved"}
Row == [status : Status, updated : Time \union {None}, silent : BOOLEAN]
NoRow == [status |-> "none", updated |-> None, silent |-> FALSE]
Unresolved(row) == row.status \in {"open", "acknowledged"}

\* What measuring the rule yields: a value that breaches or not, too few
\* samples, or no data.
Signal == {"breach", "ok", "belowFloor", "noData"}

VARIABLES
  now,
  rows,        \* the problems table, for this pair
  mirror,      \* Redis: the breach and resolved stamps, with their expiry
  heartbeat,   \* Redis: StartedAt and ContinuousSince of the last tick
  leader,
  mem,         \* each pod: breachSince, lastResolved, lastTickAt, contSince
  tick,        \* each pod's tick in progress
  request,     \* an operator's request in progress
  resolvedOn,  \* history: when a resolve was last stamped, None once swept
  quiet        \* history: has a tick seen no breach since the last upsert?

podVars == <<mem, tick>>
vars == <<now, rows, mirror, heartbeat, leader, mem, tick, request, resolvedOn, quiet>>

FreshMem == [breach |-> None, resolved |-> None, lastTickAt |-> None, contSince |-> None]
NoStamp == [at |-> None, until |-> None]
IdleTick == [pc |-> "idle", at |-> None, open |-> 0, copy |-> NoRow, stale |-> {}]
NoRequest == [pc |-> "idle", problem |-> 0, copy |-> NoRow]

\* stampGet: a mirrored stamp that has not expired.
stampGet(kind) == IF mirror[kind].until > now THEN mirror[kind].at ELSE None

Go(p, pc) == tick' = [tick EXCEPT ![p].pc = pc]
\* evaluateOne is over: what it looked up is forgotten.
Done(p) == tick' = [tick EXCEPT ![p] = [IdleTick EXCEPT !.pc = "sweep"]]
UpsertProblem(i, row) == rows' = [rows EXCEPT ![i] = [row EXCEPT !.updated = now]]
\* Mutant: a status no reader knows.
MarkClosed(row) == [row EXCEPT !.status = "closed"]
MarkResolved(row) == [row EXCEPT !.status = "resolved"]

-----------------------------------------------------------------------------
Init ==
  /\ now = 1
  /\ rows = [i \in Problem |-> NoRow]
  /\ mirror = [kind \in {"breach", "resolved"} |-> NoStamp]
  /\ heartbeat = [started |-> None, contSince |-> None]
  /\ leader = NoPod
  /\ mem = [p \in Pod |-> FreshMem]
  /\ tick = [p \in Pod |-> IdleTick]
  /\ request = NoRequest
  /\ resolvedOn = None /\ quiet = FALSE

-----------------------------------------------------------------------------
(* The tick of pod p.                                                      *)

\* Mutant: a new process takes the heartbeat's word, however old it is.
ContinuityAssumed(p) ==
  IF mem[p].contSince # None THEN mem[p].contSince
  ELSE IF heartbeat.contSince # None THEN heartbeat.contSince ELSE now

\* Since when the evaluator has run without a gap, as of a tick starting now:
\* the previous tick is the process's own, or the one the heartbeat tells of.
noteTickContinuity(p) ==
  LET own == mem[p].lastTickAt # None
      prev == IF own THEN mem[p].lastTickAt ELSE heartbeat.started
      inherited == IF own THEN None ELSE heartbeat.contSince
  IN  IF prev = None \/ now - prev > tickGapTolerance THEN now
      ELSE IF mem[p].contSince # None THEN mem[p].contSince
      ELSE IF inherited # None THEN inherited
      ELSE prev

\* runIfLeader, on the pod's ticker; leadership is not looked at again.
Begin(p) ==
  /\ leader = p /\ tick[p].pc = "idle"
  /\ mem[p].lastTickAt = None \/ now - mem[p].lastTickAt >= Interval
  /\ mem' = [mem EXCEPT ![p].lastTickAt = now, ![p].contSince = noteTickContinuity(p)]
  /\ Go(p, "snapshot")
  /\ UNCHANGED <<now, rows, mirror, heartbeat, leader, request, resolvedOn, quiet>>

\* Mutant: an acknowledged problem is not looked up.
SnapshotUnacknowledged(p) ==
  /\ tick[p].pc = "snapshot"
  /\ LET open == {i \in Problem : rows[i].status = "open"}
         latest == IF open = {} THEN 0 ELSE CHOOSE i \in open : \A j \in open : j <= i
     IN  tick' = [tick EXCEPT ![p].pc = "measure", ![p].open = latest,
                              ![p].copy = IF latest = 0 THEN NoRow ELSE rows[latest]]
  /\ UNCHANGED <<now, rows, mirror, heartbeat, leader, mem, request, resolvedOn, quiet>>

\* OpenProblemsSnapshot: the latest unresolved problem of the pair, a copy.
OpenProblemsSnapshot(p) ==
  /\ tick[p].pc = "snapshot"
  /\ LET open == {i \in Problem : Unresolved(rows[i])}
         latest == IF open = {} THEN 0 ELSE CHOOSE i \in open : \A j \in open : j <= i
     IN  tick' = [tick EXCEPT ![p].pc = "measure", ![p].open = latest,
                              ![p].copy = IF latest = 0 THEN NoRow ELSE rows[latest]]
  /\ UNCHANGED <<now, rows, mirror, heartbeat, leader, mem, request, resolvedOn, quiet>>

\* breachStart's first sighting: in memory, else mirrored, else now.
breachStart(p) ==
  IF mem[p].breach # None THEN mem[p].breach
  ELSE IF stampGet("breach") # None THEN stampGet("breach")
  ELSE now
Sighted(p) == mem[p].breach # None \/ stampGet("breach") # None

\* clearBreach deletes the mirror only if this process held the stamp.
clearBreach(p) ==
  /\ mem' = [mem EXCEPT ![p].breach = None]
  /\ mirror' = IF mem[p].breach # None THEN [mirror EXCEPT !["breach"] = NoStamp] ELSE mirror

\* Breached: look the open problem up.
LookUp(p) ==
  tick' = [tick EXCEPT ![p].at = now,
                       ![p].pc = IF tick[p].open # 0 THEN "refresh" ELSE "cooldown"]

\* A breach that must be sustained is stamped if new and let through once it
\* has lasted ForSec, whether or not a problem is open already.
SustainGate(p) ==
  IF ForSec = 0
  THEN LookUp(p) /\ UNCHANGED <<mem, mirror>>
  ELSE /\ mem' = [mem EXCEPT ![p].breach = breachStart(p)]
       /\ mirror' = IF Sighted(p) THEN mirror
                    ELSE [mirror EXCEPT !["breach"] = [at |-> now, until |-> now + stampTTL(ForSec)]]
       /\ IF ~Sighted(p) \/ now - breachStart(p) < ForSec THEN Done(p) ELSE LookUp(p)

\* evaluateOne up to the switch: measure, sustain gate, look-up.
Measure(p, signal) ==
  /\ tick[p].pc = "measure"
  /\ \/ signal = "noData" /\ Done(p) /\ UNCHANGED <<mem, mirror>>
     \/ signal = "belowFloor" /\ Done(p) /\ clearBreach(p)
     \/ signal = "breach" /\ SustainGate(p)
     \/ signal = "ok" /\ clearBreach(p) /\ IF tick[p].open # 0 THEN Go(p, "resolve") ELSE Done(p)
  /\ quiet' = (quiet \/ signal # "breach")
  /\ UNCHANGED <<now, rows, heartbeat, leader, request, resolvedOn>>

\* resolvedAt: memory first, then the mirror.
resolvedAt(p) == IF mem[p].resolved # None THEN mem[p].resolved ELSE stampGet("resolved")

\* Mutant: only this process's own resolves hold a re-open back.
CooldownGateInMemory(p) ==
  /\ tick[p].pc = "cooldown"
  /\ LET rt == mem[p].resolved
     IN  IF rt # None /\ tick[p].at - rt < CooldownSec THEN Done(p) ELSE Go(p, "open")
  /\ UNCHANGED <<now, rows, mirror, heartbeat, leader, mem, request, resolvedOn, quiet>>

CooldownGate(p) ==
  /\ tick[p].pc = "cooldown"
  /\ IF CooldownSec = 0
     THEN Go(p, "open") /\ UNCHANGED mem
     ELSE LET rt == resolvedAt(p)
          IN  /\ mem' = [mem EXCEPT ![p].resolved = rt]
              /\ IF rt # None /\ tick[p].at - rt < CooldownSec THEN Done(p) ELSE Go(p, "open")
  /\ UNCHANGED <<now, rows, mirror, heartbeat, leader, request, resolvedOn, quiet>>

\* breached, none open: a new problem with a fresh id.
Open(p) ==
  /\ tick[p].pc = "open"
  /\ \E i \in Problem :
       /\ rows[i] = NoRow /\ \A j \in 1..(i - 1) : rows[j] # NoRow
       /\ UpsertProblem(i, [NoRow EXCEPT !.status = "open"])
  /\ Done(p)
  /\ quiet' = FALSE
  /\ UNCHANGED <<now, mirror, heartbeat, leader, mem, request, resolvedOn>>

\* breached, one open: the snapshot's copy is written back with the value.
Refresh(p) ==
  /\ tick[p].pc = "refresh"
  /\ UpsertProblem(tick[p].open, tick[p].copy)
  /\ Done(p)
  /\ quiet' = FALSE
  /\ UNCHANGED <<now, mirror, heartbeat, leader, mem, request, resolvedOn>>

\* no longer breached, one open.
Resolve(p) ==
  /\ tick[p].pc = "resolve"
  /\ UpsertProblem(tick[p].open, MarkResolved(tick[p].copy))
  /\ Go(p, "stampResolved")
  /\ UNCHANGED <<now, mirror, heartbeat, leader, mem, request, resolvedOn, quiet>>

stampResolved(p) ==
  /\ tick[p].pc = "stampResolved"
  /\ mem' = [mem EXCEPT ![p].resolved = now]
  /\ mirror' = [mirror EXCEPT !["resolved"] = [at |-> now, until |-> now + stampTTL(CooldownSec)]]
  /\ resolvedOn' = now
  /\ Done(p)
  /\ UNCHANGED <<now, rows, heartbeat, leader, request, quiet>>

sweepIsTrustworthy(p) == now - mem[p].contSince >= SweepAge

\* ListStaleOpenProblems, if the silence was the evaluator's own to see.
SweepList(p) ==
  /\ tick[p].pc = "sweep"
  /\ tick' = [tick EXCEPT ![p].pc = "close",
       ![p].stale = IF sweepIsTrustworthy(p)
                    THEN {i \in Problem : Unresolved(rows[i]) /\ rows[i].updated < now - SweepAge}
                    ELSE {}]
  /\ UNCHANGED <<now, rows, mirror, heartbeat, leader, mem, request, resolvedOn, quiet>>

\* One listed problem is resolved as silent and its cooldown stamp cleared.
SweepClose(p) ==
  /\ tick[p].pc = "close"
  /\ \E i \in tick[p].stale :
       /\ UpsertProblem(i, [MarkResolved(rows[i]) EXCEPT !.silent = TRUE])
       /\ tick' = [tick EXCEPT ![p].stale = @ \ {i}]
  /\ mem' = [mem EXCEPT ![p].resolved = None]
  /\ mirror' = [mirror EXCEPT !["resolved"] = NoStamp]
  /\ resolvedOn' = None
  /\ UNCHANGED <<now, heartbeat, leader, request, quiet>>

writeHeartbeat(p) ==
  /\ tick[p].pc = "close" /\ tick[p].stale = {}
  /\ heartbeat' = [started |-> mem[p].lastTickAt, contSince |-> mem[p].contSince]
  /\ tick' = [tick EXCEPT ![p] = IdleTick]
  /\ UNCHANGED <<now, rows, mirror, leader, mem, request, resolvedOn, quiet>>

Tick(p) ==
  \/ Begin(p) \/ OpenProblemsSnapshot(p) \/ (\E s \in Signal : Measure(p, s)) \/ CooldownGate(p) \/ Open(p)
  \/ Refresh(p) \/ Resolve(p) \/ stampResolved(p) \/ SweepList(p) \/ SweepClose(p)
  \/ writeHeartbeat(p)

-----------------------------------------------------------------------------
(* Operators: AcknowledgeProblems and ResolveProblems, list then upsert.   *)

AskAcknowledge(i) ==
  /\ request.pc = "idle"
  /\ rows[i].status = "open"
  /\ request' = [pc |-> "acknowledge", problem |-> i, copy |-> rows[i]]
  /\ UNCHANGED <<now, rows, mirror, heartbeat, leader, podVars, resolvedOn, quiet>>

AskResolve(i) ==
  /\ request.pc = "idle"
  /\ Unresolved(rows[i])
  /\ request' = [pc |-> "resolve", problem |-> i, copy |-> rows[i]]
  /\ UNCHANGED <<now, rows, mirror, heartbeat, leader, podVars, resolvedOn, quiet>>

AcknowledgeProblems ==
  /\ request.pc = "acknowledge"
  /\ UpsertProblem(request.problem, [request.copy EXCEPT !.status = "acknowledged"])
  /\ request' = NoRequest
  /\ UNCHANGED <<now, mirror, heartbeat, leader, podVars, resolvedOn, quiet>>

ResolveProblems ==
  /\ request.pc = "resolve"
  /\ UpsertProblem(request.problem, MarkResolved(request.copy))
  /\ request' = NoRequest
  /\ UNCHANGED <<now, mirror, heartbeat, leader, podVars, resolvedOn, quiet>>

-----------------------------------------------------------------------------
(* The environment: leadership, crashes, the measured service, time.       *)

\* An election takes longer than an operator's request.
Elect(p) ==
  /\ leader = NoPod /\ request.pc = "idle"
  /\ leader' = p
  /\ UNCHANGED <<now, rows, mirror, heartbeat, podVars, request, resolvedOn, quiet>>

\* Between ticks: the lease is lost, or the pod is replaced by a new one.
Demote(p) ==
  /\ leader = p /\ tick[p].pc = "idle"
  /\ leader' = NoPod
  /\ mem' = IF Bounce THEN mem ELSE [mem EXCEPT ![p] = FreshMem]
  /\ UNCHANGED <<now, rows, mirror, heartbeat, tick, request, resolvedOn, quiet>>

\* A pod dies, at any point of its tick, and comes back with empty memory.
Restart(p) ==
  /\ mem[p] # FreshMem
  /\ leader' = IF leader = p THEN NoPod ELSE leader
  /\ mem' = [mem EXCEPT ![p] = FreshMem]
  /\ tick' = [tick EXCEPT ![p] = IdleTick]
  /\ UNCHANGED <<now, rows, mirror, heartbeat, request, resolvedOn, quiet>>

\* Time passes; requests are short, a tick takes at most MaxTick.
Advance ==
  /\ now < MaxTime /\ request.pc = "idle"
  /\ \A p \in Pod : tick[p].pc # "idle" => now < mem[p].lastTickAt + MaxTick
  /\ now' = now + 1
  /\ UNCHANGED <<rows, mirror, heartbeat, leader, podVars, request, resolvedOn, quiet>>

Next ==
  \/ \E p \in Pod : Tick(p) \/ Elect(p) \/ Demote(p) \/ Restart(p)
  \/ \E i \in Problem : AskAcknowledge(i) \/ AskResolve(i)
  \/ AcknowledgeProblems \/ ResolveProblems
  \/ Advance

Spec == Init /\ [][Next]_vars
-----------------------------------------------------------------------------
Stamp == [at : Time \union {None}, until : Nat]

TypeOK ==
  /\ now \in Time
  /\ rows \in [Problem -> Row]
  /\ mirror \in [{"breach", "resolved"} -> Stamp]
  /\ heartbeat \in [started : Time \union {None}, contSince : Time \union {None}]
  /\ leader \in Pod \union {NoPod}
  /\ mem \in [Pod -> [breach : Time \union {None}, resolved : Time \union {None},
                      lastTickAt : Time \union {None}, contSince : Time \union {None}]]
  /\ tick \in [Pod -> [pc : {"idle", "snapshot", "measure", "cooldown", "open", "refresh",
                             "resolve", "stampResolved", "sweep", "close"},
                       at : Time \union {None}, open : Problem \union {0}, copy : Row,
                       stale : SUBSET Problem]]
  /\ request \in [pc : {"idle", "acknowledge", "resolve"}, problem : Problem \union {0},
                  copy : Row]
  /\ resolvedOn \in Time \union {None} /\ quiet \in BOOLEAN

\* One unresolved problem per rule and service: leader changes, crashes in
\* mid-tick and operators' stale copies never leave two of them, as long as
\* ticks end within their interval.
OneOpen == \A i, j \in Problem : Unresolved(rows[i]) /\ Unresolved(rows[j]) => i = j

\* After an auto-resolve that was stamped no new problem is opened before the
\* cooldown has passed since the stamp, whichever pod leads.  The stamp is a step
\* of its own after the resolved row: a leader that dies between the two starts
\* no cooldown, and the next one may open a problem at once.
CooldownKept ==
  [][\A i \in Problem : rows[i] = NoRow /\ rows'[i] # NoRow
       => resolvedOn = None \/ now - resolvedOn >= CooldownSec]_vars

\* The sweep closes a problem as silent only if some tick has seen no breach
\* since a tick last opened or refreshed it: a breach that every tick has
\* measured is not taken for a silent source.
SweepOnlySilent ==
  [][\A i \in Problem : ~rows[i].silent /\ rows'[i].silent => quiet]_vars

\* Why: the parts of inductive invariants.  Only the leader is in a tick, a
\* step of the tick holds what the look-up found, and it was in the table.
Ticking(p) ==
  /\ tick[p].pc # "idle" => /\ leader = p /\ mem[p].lastTickAt # None
                            /\ now <= mem[p].lastTickAt + MaxTick
  /\ tick[p].pc \in {"refresh", "resolve", "stampResolved"} => tick[p].open # 0
  /\ tick[p].pc \notin {"measure", "refresh", "resolve", "stampResolved"} => tick[p].open = 0
  /\ tick[p].open # 0 => Unresolved(tick[p].copy) /\ rows[tick[p].open].status # "none"
  /\ \A i \in tick[p].stale : rows[i].status # "none"
  /\ tick[p].pc = "cooldown" => tick[p].at # None /\ tick[p].at <= now
Requested ==
  request.pc # "idle" => request.problem \in Problem /\ rows[request.problem].status # "none"
LifeInv == TypeOK /\ (\A p \in Pod : Ticking(p)) /\ Requested

\* A problem is unresolved, or will be when a copy taken is written back.
Reopens(p) == tick[p].pc \in {"measure", "refresh"} /\ tick[p].open # 0
Claimed(i) ==
  \/ Unresolved(rows[i])
  \/ request.pc = "acknowledge" /\ request.problem = i
  \/ \E p \in Pod : Reopens(p) /\ tick[p].open = i
OneClaim == \A i, j \in Problem : Claimed(i) /\ Claimed(j) => i = j
\* A tick about to open a problem has found nothing unresolved.
Opening(p) == tick[p].pc \in {"cooldown", "open"} \/ (tick[p].pc = "measure" /\ tick[p].open = 0)
NoClaim == \A p \in Pod : Opening(p) => \A i \in Problem : ~Claimed(i)
\* The problem of a late acknowledgement was resolved by the latest tick.
Closing(p) ==
  \/ tick[p].pc \in {"stampResolved", "sweep", "close"}
  \/ tick[p].pc = "idle" /\ mem[p].lastTickAt # None /\ now < mem[p].lastTickAt + Interval
LateAck ==
  request.pc = "acknowledge" /\ ~Unresolved(rows[request.problem])
    => \A p \in Pod : leader = p => Closing(p)
OneOpenInv == LifeInv /\ OneClaim /\ NoClaim /\ LateAck

\* What the cooldown gate goes by is the last resolve stamped, in memory or in
\* the mirror, until the cooldown has passed.
Stamped ==
  /\ resolvedOn <= now
  /\ resolvedOn # None =>
       mirror["resolved"] = [at |-> resolvedOn, until |-> resolvedOn + stampTTL(CooldownSec)]
Remembers(p) ==
  /\ leader # p => mem[p].resolved = None
  /\ resolvedOn # None => mem[p].resolved \in {None, resolvedOn}
  /\ tick[p].pc = "open" => resolvedOn = None \/ now - resolvedOn >= CooldownSec
CooldownInv == LifeInv /\ Stamped /\ (\A p \in Pod : Remembers(p))

\* What the sweep goes by: only a leader remembers anything; the breach stamp
\* in its memory is the mirrored one; nothing unresolved is marked silent.
Forgets(p) == leader # p \/ mem[p].lastTickAt = None => mem[p] = FreshMem
breachAt == mirror["breach"].at
Mirrored ==
  /\ breachAt <= now
  /\ breachAt # None => mirror["breach"].until = breachAt + stampTTL(ForSec)
  /\ \A p \in Pod : mem[p].breach # None => mem[p].breach = breachAt
Audible ==
  /\ \A i \in Problem : Unresolved(rows[i]) => ~rows[i].silent
  /\ request.pc # "idle" => ~request.copy.silent
  /\ \A p \in Pod : tick[p].open # 0 => ~tick[p].copy.silent

\* After a tick that began at t, in a series of ticks unbroken since c: the
\* row was written, at u, since that tick began, or the breach, stamped at b
\* soon after the last writing, was not sustained yet.  What a tick beginning
\* at t finds of this, a gap later.
Breaching(i) == Unresolved(rows[i]) /\ ~quiet
StampedSoon(u, b, c) ==
  b # None /\ (b <= u + tickGapTolerance + MaxTick \/ b <= c + MaxTick)
Settled(u, b, t, c) == u >= t \/ (StampedSoon(u, b, c) /\ t < b + ForSec)
Pending(u, b, t, c) ==
  \/ u + tickGapTolerance >= t
  \/ c = t
  \/ StampedSoon(u, b, c) /\ t < b + ForSec + tickGapTolerance
Unbroken(t, c) == c # None /\ c <= t /\ t <= now
Follows(p) ==
  LET t == mem[p].lastTickAt
      c == mem[p].contSince
  IN  /\ t # None => Unbroken(t, c)
      /\ t # None /\ tick[p].pc \in {"idle", "sweep", "close"} =>
           \A i \in Problem : Breaching(i) => Settled(rows[i].updated, breachAt, t, c)
      /\ tick[p].pc \in {"snapshot", "measure"} =>
           \A i \in Problem : Breaching(i) => Pending(rows[i].updated, breachAt, t, c)
      /\ tick[p].pc \in {"resolve", "stampResolved"} => quiet
      /\ tick[p].pc = "close" /\ tick[p].stale # {} => quiet
Beat ==
  LET t == heartbeat.started
      c == heartbeat.contSince
  IN  t # None =>
        /\ Unbroken(t, c)
        /\ now <= t + tickGapTolerance =>
             \A i \in Problem : Breaching(i) => Settled(rows[i].updated, breachAt, t, c)
SweepInv ==
  /\ OneOpenInv /\ Mirrored /\ Audible /\ Beat
  /\ \A p \in Pod : Forgets(p) /\ Follows(p)
=============================================================================

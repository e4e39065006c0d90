------------------------ MODULE AlertLifecycleProofs ------------------------
(***************************************************************************)
(* One unresolved problem per rule and service, no new problem inside a    *)
(* stamped cooldown, and no ongoing breach closed as silent, for any       *)
(* number of pods and any timing that the theorems' hypotheses allow.      *)
(***************************************************************************)
EXTENDS AlertLifecycle, WellFoundedInduction, TLAPS

Pc == {"idle", "snapshot", "measure", "cooldown", "open", "refresh", "resolve",
       "stampResolved", "sweep", "close"}
Moment == Time \union {None}
TickRec == [pc : Pc, at : Moment, open : Problem \union {0}, copy : Row, stale : SUBSET Problem]
MemRec == [breach : Moment, resolved : Moment, lastTickAt : Moment, contSince : Moment]
Stamps == [{"breach", "resolved"} -> Stamp]

\* The constants, and the values everything starts from.
LEMMA Constants ==
  /\ NoPod \notin Pod /\ Interval \in Nat /\ Interval >= 1 /\ ForSec \in Nat /\ CooldownSec \in Nat
  /\ MaxTick \in Nat /\ MaxProblem \in Nat /\ MaxTime \in Nat /\ MaxTime >= 1
  /\ None = 0 /\ None \in Moment /\ Time \subseteq Moment /\ Moment \subseteq Nat /\ 1 \in Time
  /\ 0 \notin Problem /\ Problem \subseteq Nat
  /\ stampTTL(ForSec) \in Nat /\ stampTTL(CooldownSec) \in Nat /\ stampTTL(CooldownSec) >= CooldownSec
  BY AlertAssumption DEF None, Moment, Time, Problem, stampTTL

\* The fresh records are of their types.
LEMMA FreshTypes ==
  /\ NoRow \in Row /\ NoRow.status = "none" /\ ~Unresolved(NoRow)
  /\ FreshMem \in MemRec /\ FreshMem.resolved = None /\ FreshMem.lastTickAt = None
  /\ NoStamp \in Stamp
  /\ IdleTick \in TickRec /\ IdleTick.pc = "idle" /\ IdleTick.open = 0 /\ IdleTick.stale = {}
  /\ NoRequest.pc = "idle"
  /\ NoRequest \in [pc : {"idle", "acknowledge", "resolve"}, problem : Problem \union {0}, copy : Row]
  <1>1. NoRow \in Row /\ NoRow.status = "none" /\ ~Unresolved(NoRow)
    BY Constants DEF NoRow, Row, Status, Moment, Unresolved
  <1>2. FreshMem \in MemRec /\ FreshMem.resolved = None /\ FreshMem.lastTickAt = None
    BY Constants DEF FreshMem, MemRec
  <1>3. NoStamp \in Stamp
    BY Constants DEF NoStamp, Stamp, Moment
  <1>4. IdleTick \in TickRec /\ IdleTick.pc = "idle" /\ IdleTick.open = 0 /\ IdleTick.stale = {}
    BY <1>1, Constants DEF IdleTick, TickRec, Pc
  <1>5. /\ NoRequest.pc = "idle"
        /\ NoRequest \in [pc : {"idle", "acknowledge", "resolve"}, problem : Problem \union {0}, copy : Row]
    BY <1>1 DEF NoRequest
  <1> QED
    BY <1>1, <1>2, <1>3, <1>4, <1>5

\* The type invariant by the names above.
LEMMA TypeFacts ==
  TypeOK <=>
    /\ now \in Time /\ rows \in [Problem -> Row] /\ mirror \in Stamps
    /\ heartbeat \in [started : Moment, contSince : Moment]
    /\ leader \in Pod \union {NoPod} /\ mem \in [Pod -> MemRec] /\ tick \in [Pod -> TickRec]
    /\ request \in [pc : {"idle", "acknowledge", "resolve"}, problem : Problem \union {0}, copy : Row]
    /\ resolvedOn \in Moment /\ quiet \in BOOLEAN
  BY DEF TypeOK, Moment, MemRec, TickRec, Pc, Stamps

\* The same in the next state.
LEMMA TypeFactsNext ==
  TypeOK' <=>
    /\ now' \in Time /\ rows' \in [Problem -> Row] /\ mirror' \in Stamps
    /\ heartbeat' \in [started : Moment, contSince : Moment]
    /\ leader' \in Pod \union {NoPod} /\ mem' \in [Pod -> MemRec] /\ tick' \in [Pod -> TickRec]
    /\ request' \in [pc : {"idle", "acknowledge", "resolve"}, problem : Problem \union {0}, copy : Row]
    /\ resolvedOn' \in Moment /\ quiet' \in BOOLEAN
  BY DEF TypeOK, Moment, MemRec, TickRec, Pc, Stamps

-----------------------------------------------------------------------------
(* What the updates do.                                                    *)

\* No tick but p's moves; no memory but p's changes.
OthersTick(p) == tick' \in [Pod -> TickRec] /\ \A q \in Pod : q # p => tick'[q] = tick[q]
OthersMem(p) == mem' \in [Pod -> MemRec] /\ \A q \in Pod : q # p => mem'[q] = mem[q]

\* The fields of a tick in progress.
LEMMA TickFields ==
  ASSUME TypeOK, NEW p \in Pod
  PROVE  /\ tick[p] \in TickRec /\ mem[p] \in MemRec
         /\ tick[p].pc \in Pc /\ tick[p].at \in Moment /\ tick[p].open \in Problem \union {0}
         /\ tick[p].copy \in Row /\ tick[p].stale \subseteq Problem
         /\ mem[p].breach \in Moment /\ mem[p].resolved \in Moment
         /\ mem[p].lastTickAt \in Moment /\ mem[p].contSince \in Moment
  <1>1. tick[p] \in TickRec /\ mem[p] \in MemRec
    BY TypeFacts
  <1> QED
    BY <1>1 DEF TickRec, MemRec

\* Go changes the place and nothing else.
LEMMA GoDoes ==
  ASSUME TypeOK, NEW p \in Pod, NEW pc \in Pc, Go(p, pc)
  PROVE  /\ OthersTick(p) /\ tick'[p].pc = pc /\ tick'[p].at = tick[p].at
         /\ tick'[p].open = tick[p].open /\ tick'[p].copy = tick[p].copy
         /\ tick'[p].stale = tick[p].stale
  <1>1. tick \in [Pod -> TickRec]
    BY TypeFacts
  <1>2. tick'[p] = [tick[p] EXCEPT !.pc = pc] /\ \A q \in Pod : q # p => tick'[q] = tick[q]
    BY <1>1 DEF Go
  <1>3. tick[p] \in TickRec
    BY <1>1
  <1>4. tick'[p] \in TickRec
    BY <1>2, <1>3 DEF TickRec
  <1>5. tick' = [tick EXCEPT ![p] = tick'[p]]
    BY <1>1, <1>2 DEF Go
  <1>6. tick' \in [Pod -> TickRec]
    BY <1>1, <1>4, <1>5
  <1> QED
    BY <1>2, <1>3, <1>6 DEF OthersTick, TickRec

\* Done leaves nothing of the look-up.
LEMMA DoneDoes ==
  ASSUME TypeOK, NEW p \in Pod, Done(p)
  PROVE  OthersTick(p) /\ tick'[p].pc = "sweep" /\ tick'[p].open = 0 /\ tick'[p].stale = {}
  <1> DEFINE r == [IdleTick EXCEPT !.pc = "sweep"]
  <1>1. r \in TickRec /\ r.pc = "sweep" /\ r.open = 0 /\ r.stale = {}
    BY FreshTypes DEF TickRec, Pc
  <1>2. tick \in [Pod -> TickRec] /\ tick' = [tick EXCEPT ![p] = r]
    BY TypeFacts DEF Done
  <1> HIDE DEF r
  <1> QED
    BY <1>1, <1>2 DEF OthersTick

\* An upsert writes one row, of the status given, and removes none.
LEMMA UpsertDoes ==
  ASSUME TypeOK, NEW i \in Problem, NEW row \in Row, UpsertProblem(i, row)
  PROVE  /\ rows' \in [Problem -> Row] /\ rows'[i].status = row.status
         /\ \A j \in Problem : j # i => rows'[j] = rows[j]
  <1>1. rows \in [Problem -> Row] /\ now \in Moment
    BY TypeFacts, Constants
  <1> DEFINE r == [row EXCEPT !.updated = now]
  <1>2. r \in Row /\ r.status = row.status
    BY <1>1 DEF Row, Moment
  <1>3. rows' = [rows EXCEPT ![i] = r]
    BY DEF UpsertProblem
  <1> HIDE DEF r
  <1> QED
    BY <1>1, <1>2, <1>3

\* MarkResolved changes the status only.
LEMMA MarkResolvedDoes ==
  ASSUME NEW row \in Row
  PROVE  MarkResolved(row) \in Row /\ MarkResolved(row).status = "resolved"
  BY DEF MarkResolved, Row, Status

\* A memory with one stamp changed.
LEMMA MemDoes ==
  ASSUME TypeOK, NEW p \in Pod, NEW r \in MemRec, mem' = [mem EXCEPT ![p] = r]
  PROVE  OthersMem(p) /\ mem'[p] = r
  BY TypeFacts DEF OthersMem

-----------------------------------------------------------------------------
(* What the steps of a tick do.                                            *)

\* The tick keeps what it has looked up.
Carries(p) ==
  tick'[p].open = tick[p].open /\ tick'[p].copy = tick[p].copy /\ tick'[p].stale = tick[p].stale
\* The tick has nothing looked up.
Ended(p) == tick'[p].pc = "sweep" /\ tick'[p].open = 0 /\ tick'[p].stale = {}
\* The pod's memory of its last tick and of the last resolve stays.
MemKept(p) ==
  OthersMem(p) /\ mem'[p].lastTickAt = mem[p].lastTickAt /\ mem'[p].resolved = mem[p].resolved

\* Nothing of the memory changes.
LEMMA MemSame ==
  ASSUME TypeOK, NEW p \in Pod, UNCHANGED mem
  PROVE  MemKept(p)
  BY TypeFacts DEF MemKept, OthersMem

\* The tick starts: its time is noted.
LEMMA BeginDoes ==
  ASSUME TypeOK, NEW p \in Pod, Begin(p)
  PROVE  /\ OthersTick(p) /\ Carries(p) /\ tick[p].pc = "idle" /\ tick'[p].pc = "snapshot"
         /\ OthersMem(p) /\ mem'[p].lastTickAt = now /\ mem'[p].resolved = mem[p].resolved
         /\ leader = p /\ (mem[p].lastTickAt = None \/ now - mem[p].lastTickAt >= Interval)
         /\ UNCHANGED <<now, rows, mirror, heartbeat, leader, request, resolvedOn, quiet>>
  <1>1. "snapshot" \in Pc
    BY DEF Pc
  <1>2. OthersTick(p) /\ Carries(p) /\ tick'[p].pc = "snapshot"
    BY <1>1, GoDoes DEF Begin, Carries
  <1>3. PICK c : c = noteTickContinuity(p)
    OBVIOUS
  <1>4. c \in Moment
    <2>1. /\ mem[p].lastTickAt \in Moment /\ mem[p].contSince \in Moment /\ now \in Moment
          /\ heartbeat.started \in Moment /\ heartbeat.contSince \in Moment
      BY TickFields, TypeFacts, Constants
    <2> QED
      BY <1>3, <2>1 DEF noteTickContinuity
  <1> DEFINE r == [mem[p] EXCEPT !.lastTickAt = now, !.contSince = c]
  <1>5. mem[p] \in MemRec /\ now \in Moment
    BY TickFields, TypeFacts, Constants
  <1>6. r \in MemRec /\ r.lastTickAt = now /\ r.resolved = mem[p].resolved
    BY <1>4, <1>5 DEF MemRec
  <1>7. mem' = [mem EXCEPT ![p] = r]
    BY <1>3, TypeFacts DEF Begin
  <1> HIDE DEF r
  <1>8. OthersMem(p) /\ mem'[p] = r
    BY <1>6, <1>7, MemDoes
  <1> QED
    BY <1>2, <1>6, <1>8 DEF Begin

\* A bounded set of numbers that is not empty has a largest.
LEMMA Largest ==
  ASSUME NEW n \in Nat, NEW S, S \subseteq 0..n, S # {}
  PROVE  \E i \in S : \A j \in S : j <= i
  <1> DEFINE T == {n - i : i \in S}
  <1>1. T \subseteq Nat /\ T # {}
    <2>1. \A i \in S : n - i \in Nat
      OBVIOUS
    <2>2. PICK i \in S : TRUE
      OBVIOUS
    <2>3. n - i \in T
      OBVIOUS
    <2> QED
      BY <2>1, <2>3
  <1> DEFINE R == OpToRel(<, Nat)
  <1>2. IsWellFoundedOn(R, Nat)
    BY NatLessThanWellFounded
  <1>3. \A x, y \in Nat : x < y => <<x, y>> \in R
    BY DEF OpToRel
  <1> HIDE DEF R, T
  <1>4. PICK x \in T : \A y \in T : ~(<<y, x>> \in R)
    BY <1>1, <1>2, WFMin
  <1>5. PICK i \in S : x = n - i
    BY <1>4 DEF T
  <1>6. ASSUME NEW j \in S PROVE j <= i
    <2>1. n - j \in T /\ n - j \in Nat /\ x \in Nat
      BY <1>1 DEF T
    <2>2. ~(n - j < x)
      BY <1>3, <1>4, <2>1
    <2> QED
      BY <1>5, <2>1, <2>2
  <1> QED
    BY <1>6

\* The snapshot: none unresolved, or a copy of one that is.
LEMMA SnapshotDoes ==
  ASSUME TypeOK, NEW p \in Pod, OpenProblemsSnapshot(p)
  PROVE  /\ OthersTick(p) /\ tick[p].pc = "snapshot" /\ tick'[p].pc = "measure"
         /\ tick'[p].stale = tick[p].stale
         /\ \/ tick'[p].open = 0 /\ \A i \in Problem : ~Unresolved(rows[i])
            \/ /\ tick'[p].open \in Problem /\ Unresolved(rows[tick'[p].open])
               /\ tick'[p].copy = rows[tick'[p].open]
         /\ UNCHANGED <<now, rows, mirror, heartbeat, leader, mem, request, resolvedOn, quiet>>
  <1> DEFINE open == {i \in Problem : Unresolved(rows[i])}
             latest == IF open = {} THEN 0 ELSE CHOOSE i \in open : \A j \in open : j <= i
             copy == IF latest = 0 THEN NoRow ELSE rows[latest]
  <1>1. /\ tick' = [tick EXCEPT ![p].pc = "measure", ![p].open = latest, ![p].copy = copy]
        /\ tick[p].pc = "snapshot"
        /\ UNCHANGED <<now, rows, mirror, heartbeat, leader, mem, request, resolvedOn, quiet>>
    BY DEF OpenProblemsSnapshot
  <1>2. open \subseteq 0..MaxProblem /\ MaxProblem \in Nat
    BY Constants DEF Problem
  <1>3. open # {} => latest \in open
    <2>1. open # {} => \E i \in open : \A j \in open : j <= i
      <3> HIDE DEF open
      <3> QED
        BY <1>2, Largest
    <2> HIDE DEF open
    <2> QED
      BY <2>1
  <1>4. \/ latest = 0 /\ copy = NoRow /\ \A i \in Problem : ~Unresolved(rows[i])
        \/ latest \in Problem /\ Unresolved(rows[latest]) /\ copy = rows[latest]
    <2>1. CASE open = {}
      BY <2>1
    <2>2. CASE open # {}
      <3>1. latest \in Problem /\ Unresolved(rows[latest])
        BY <1>3, <2>2
      <3> HIDE DEF latest
      <3> QED
        BY <3>1, Constants
    <2> QED
      BY <2>1, <2>2
  <1> HIDE DEF latest, copy, open
  <1>5. tick[p] \in TickRec /\ tick \in [Pod -> TickRec]
    BY TypeFacts
  <1>6. copy \in Row /\ latest \in Problem \union {0}
    BY <1>4, FreshTypes, TypeFacts
  <1> DEFINE r == [tick[p] EXCEPT !.pc = "measure", !.open = latest, !.copy = copy]
  <1>7. /\ r \in TickRec /\ r.pc = "measure" /\ r.open = latest /\ r.copy = copy
        /\ r.stale = tick[p].stale
    BY <1>5, <1>6 DEF TickRec, Pc
  <1>8. tick' = [tick EXCEPT ![p] = r]
    BY <1>1, <1>5
  <1> HIDE DEF r
  <1>9. OthersTick(p) /\ tick'[p] = r
    BY <1>5, <1>7, <1>8 DEF OthersTick
  <1> QED
    BY <1>1, <1>4, <1>7, <1>9

\* Measuring changes neither the cooldown stamp nor the table; the tick ends
\* its evaluation, or goes on to refresh or resolve the problem it found, or
\* to open one if it found none.
LEMMA MeasureDoes ==
  ASSUME TypeOK, NEW p \in Pod, NEW s \in Signal, Measure(p, s)
  PROVE  /\ OthersTick(p) /\ MemKept(p) /\ tick[p].pc = "measure"
         /\ mirror' \in Stamps /\ mirror'["resolved"] = mirror["resolved"] /\ quiet' \in BOOLEAN
         /\ \/ Ended(p)
            \/ tick[p].open # 0 /\ Carries(p) /\ tick'[p].pc \in {"refresh", "resolve"}
            \/ tick[p].open = 0 /\ Carries(p) /\ tick'[p].pc = "cooldown" /\ tick'[p].at = now
         /\ UNCHANGED <<now, rows, heartbeat, leader, request, resolvedOn>>
  <1>0. /\ tick[p].pc = "measure" /\ quiet' \in BOOLEAN
        /\ UNCHANGED <<now, rows, heartbeat, leader, request, resolvedOn>>
    BY DEF Measure
  <1>1. /\ mem[p] \in MemRec /\ now \in Moment /\ mirror \in Stamps
        /\ mem[p].breach \in Moment /\ tick[p] \in TickRec /\ tick \in [Pod -> TickRec]
    BY TickFields, TypeFacts, Constants
  <1>2. ASSUME NEW b \in Moment, mem' = [mem EXCEPT ![p].breach = b] PROVE MemKept(p)
    <2> DEFINE r == [mem[p] EXCEPT !.breach = b]
    <2>1. r \in MemRec /\ r.lastTickAt = mem[p].lastTickAt /\ r.resolved = mem[p].resolved
      BY <1>1 DEF MemRec
    <2>2. mem' = [mem EXCEPT ![p] = r]
      BY <1>2, TypeFacts
    <2> HIDE DEF r
    <2> QED
      BY <2>1, <2>2, MemDoes DEF MemKept
  <1>3. ASSUME NEW st \in Stamp, mirror' = [mirror EXCEPT !["breach"] = st]
        PROVE  mirror' \in Stamps /\ mirror'["resolved"] = mirror["resolved"]
    BY <1>1, <1>3 DEF Stamps
  <1>4. ASSUME clearBreach(p)
        PROVE  MemKept(p) /\ mirror' \in Stamps /\ mirror'["resolved"] = mirror["resolved"]
    <2>1. MemKept(p)
      BY <1>2, <1>4, Constants DEF clearBreach
    <2>2. mirror' = mirror \/ mirror' = [mirror EXCEPT !["breach"] = NoStamp]
      BY <1>4 DEF clearBreach
    <2> QED
      BY <1>1, <1>3, <2>1, <2>2, FreshTypes
  <1>5. ASSUME Done(p) PROVE OthersTick(p) /\ Ended(p)
    BY <1>5, DoneDoes DEF Ended
  <1>6. ASSUME LookUp(p)
        PROVE  /\ OthersTick(p) /\ Carries(p)
               /\ \/ tick[p].open # 0 /\ tick'[p].pc = "refresh"
                  \/ tick[p].open = 0 /\ tick'[p].pc = "cooldown" /\ tick'[p].at = now
    <2>1. PICK pc : pc = IF tick[p].open # 0 THEN "refresh" ELSE "cooldown"
      OBVIOUS
    <2> DEFINE r == [tick[p] EXCEPT !.at = now, !.pc = pc]
    <2>2. /\ r \in TickRec /\ r.pc = pc /\ r.at = now /\ r.open = tick[p].open
          /\ r.copy = tick[p].copy /\ r.stale = tick[p].stale
      BY <1>1, <2>1 DEF TickRec, Pc
    <2>3. tick' = [tick EXCEPT ![p] = r]
      BY <1>1, <1>6, <2>1 DEF LookUp
    <2> HIDE DEF r
    <2>4. OthersTick(p) /\ tick'[p] = r
      BY <1>1, <2>2, <2>3 DEF OthersTick
    <2> QED
      BY <2>1, <2>2, <2>4 DEF Carries
  <1>7. CASE s = "noData"
    <2>1. Done(p) /\ UNCHANGED <<mem, mirror>>
      BY <1>7 DEF Measure
    <2> QED
      BY <1>0, <1>1, <1>5, <2>1, MemSame
  <1>8. CASE s = "belowFloor"
    <2>1. Done(p) /\ clearBreach(p)
      BY <1>8 DEF Measure
    <2> QED
      BY <1>0, <1>4, <1>5, <2>1
  <1>9. CASE s = "ok"
    <2>1. clearBreach(p) /\ IF tick[p].open # 0 THEN Go(p, "resolve") ELSE Done(p)
      BY <1>9 DEF Measure
    <2>2. CASE tick[p].open # 0
      <3>1. OthersTick(p) /\ Carries(p) /\ tick'[p].pc = "resolve"
        BY <2>1, <2>2, GoDoes DEF Pc, Carries
      <3> QED
        BY <1>0, <1>4, <2>1, <2>2, <3>1
    <2>3. CASE tick[p].open = 0
      BY <1>0, <1>4, <1>5, <2>1, <2>3
    <2> QED
      BY <2>2, <2>3
  <1>10. CASE s = "breach"
    <2>1. SustainGate(p)
      BY <1>10 DEF Measure
    <2>2. CASE ForSec = 0
      <3>1. LookUp(p) /\ UNCHANGED <<mem, mirror>>
        BY <2>1, <2>2 DEF SustainGate
      <3> QED
        BY <1>0, <1>1, <1>6, <3>1, MemSame
    <2>3. CASE ForSec # 0
      <3>1. PICK b : b = breachStart(p)
        OBVIOUS
      <3>2. b \in Moment
        <4>1. stampGet("breach") \in Moment
          BY <1>1, Constants DEF stampGet, Stamps, Stamp, Moment
        <4> QED
          BY <1>1, <3>1, <4>1 DEF breachStart
      <3>3. MemKept(p)
        BY <1>2, <2>1, <2>3, <3>1, <3>2 DEF SustainGate
      <3>4. mirror' = mirror
            \/ mirror' = [mirror EXCEPT !["breach"] = [at |-> now, until |-> now + stampTTL(ForSec)]]
        BY <2>1, <2>3 DEF SustainGate
      <3>5. [at |-> now, until |-> now + stampTTL(ForSec)] \in Stamp
        BY TypeFacts, Constants DEF Stamp, Moment, Time
      <3>6. mirror' \in Stamps /\ mirror'["resolved"] = mirror["resolved"]
        BY <1>1, <1>3, <3>4, <3>5
      <3>7. Done(p) \/ LookUp(p)
        BY <2>1, <2>3 DEF SustainGate
      <3> QED
        BY <1>0, <1>5, <1>6, <3>3, <3>6, <3>7
    <2> QED
      BY <2>2, <2>3
  <1> QED
    BY <1>7, <1>8, <1>9, <1>10 DEF Signal

\* The gate remembers the mirrored stamp, and opens or not.
LEMMA CooldownDoes ==
  ASSUME TypeOK, NEW p \in Pod, CooldownGate(p)
  PROVE  /\ OthersTick(p) /\ OthersMem(p) /\ mem'[p].lastTickAt = mem[p].lastTickAt
         /\ tick[p].pc = "cooldown"
         /\ mem'[p].resolved \in {mem[p].resolved, resolvedAt(p)}
         /\ \/ Ended(p)
            \/ /\ Carries(p) /\ tick'[p].pc = "open"
               /\ \/ CooldownSec = 0 \/ resolvedAt(p) = None
                  \/ tick[p].at - resolvedAt(p) >= CooldownSec
         /\ UNCHANGED <<now, rows, mirror, heartbeat, leader, request, resolvedOn, quiet>>
  <1>0. /\ tick[p].pc = "cooldown" /\ mem[p] \in MemRec /\ tick[p].at \in Nat
        /\ UNCHANGED <<now, rows, mirror, heartbeat, leader, request, resolvedOn, quiet>>
    BY TickFields, Constants DEF CooldownGate
  <1>1. Go(p, "open") => OthersTick(p) /\ Carries(p) /\ tick'[p].pc = "open"
    BY GoDoes DEF Pc, Carries
  <1>2. Done(p) => OthersTick(p) /\ Ended(p)
    BY DoneDoes DEF Ended
  <1>3. CASE CooldownSec = 0
    <2>1. Go(p, "open") /\ UNCHANGED mem
      BY <1>3 DEF CooldownGate
    <2>2. MemKept(p)
      BY <2>1, MemSame
    <2> QED
      BY <1>0, <1>1, <1>3, <2>1, <2>2 DEF MemKept
  <1>4. CASE CooldownSec # 0
    <2>1. PICK rt : rt = resolvedAt(p)
      OBVIOUS
    <2>2. rt \in Moment
      <3>1. stampGet("resolved") \in Moment
        BY TypeFacts, Constants DEF stampGet, Stamps, Stamp, Moment
      <3> QED
        BY <2>1, <3>1, TickFields DEF resolvedAt
    <2>3. /\ mem' = [mem EXCEPT ![p].resolved = rt]
          /\ IF rt # None /\ tick[p].at - rt < CooldownSec THEN Done(p) ELSE Go(p, "open")
      BY <1>4, <2>1 DEF CooldownGate
    <2> DEFINE r == [mem[p] EXCEPT !.resolved = rt]
    <2>4. r \in MemRec /\ r.lastTickAt = mem[p].lastTickAt /\ r.resolved = rt
      BY <1>0, <2>2 DEF MemRec
    <2>5. mem' = [mem EXCEPT ![p] = r]
      BY <2>3, TypeFacts
    <2> HIDE DEF r
    <2>6. OthersMem(p) /\ mem'[p] = r
      BY <2>4, <2>5, MemDoes
    <2>7. Done(p) \/ (Go(p, "open") /\ (rt = None \/ tick[p].at - rt >= CooldownSec))
      BY <1>0, <2>2, <2>3, Constants
    <2> QED
      BY <1>0, <1>1, <1>2, <2>1, <2>4, <2>6, <2>7
  <1> QED
    BY <1>3, <1>4

\* A new problem in a free row.
LEMMA OpenDoes ==
  ASSUME TypeOK, NEW p \in Pod, Open(p)
  PROVE  /\ OthersTick(p) /\ Ended(p) /\ MemKept(p) /\ tick[p].pc = "open"
         /\ rows' \in [Problem -> Row]
         /\ \E i \in Problem : /\ rows'[i].status = "open"
                               /\ \A j \in Problem : j # i => rows'[j] = rows[j]
         /\ quiet' = FALSE
         /\ UNCHANGED <<now, mirror, heartbeat, leader, mem, request, resolvedOn>>
  <1>1. PICK i \in Problem : UpsertProblem(i, [NoRow EXCEPT !.status = "open"])
    BY DEF Open
  <1>2. [NoRow EXCEPT !.status = "open"] \in Row /\ [NoRow EXCEPT !.status = "open"].status = "open"
    BY FreshTypes DEF Row, Status
  <1>3. /\ rows' \in [Problem -> Row] /\ rows'[i].status = "open"
        /\ \A j \in Problem : j # i => rows'[j] = rows[j]
    BY <1>1, <1>2, UpsertDoes
  <1> QED
    BY <1>3, DoneDoes, MemSame DEF Open, Ended

\* The copy is written back, as it was or resolved.
LEMMA RefreshDoes ==
  ASSUME TypeOK, NEW p \in Pod, tick[p].open \in Problem, Refresh(p)
  PROVE  /\ OthersTick(p) /\ Ended(p) /\ MemKept(p) /\ tick[p].pc = "refresh"
         /\ rows' \in [Problem -> Row] /\ rows'[tick[p].open].status = tick[p].copy.status
         /\ \A j \in Problem : j # tick[p].open => rows'[j] = rows[j]
         /\ quiet' = FALSE
         /\ UNCHANGED <<now, mirror, heartbeat, leader, mem, request, resolvedOn>>
  <1>1. PICK i \in Problem : i = tick[p].open
    OBVIOUS
  <1>2. tick[p].copy \in Row
    BY TickFields
  <1>3. PICK c \in Row : c = tick[p].copy
    BY <1>2
  <1>4. UpsertProblem(i, c)
    BY <1>1, <1>3 DEF Refresh
  <1>5. /\ rows' \in [Problem -> Row] /\ rows'[i].status = c.status
        /\ \A j \in Problem : j # i => rows'[j] = rows[j]
    BY <1>4, UpsertDoes
  <1> QED
    BY <1>1, <1>3, <1>5, DoneDoes, MemSame DEF Refresh, Ended

\* The copy is written back resolved.
LEMMA ResolveDoes ==
  ASSUME TypeOK, NEW p \in Pod, tick[p].open \in Problem, Resolve(p)
  PROVE  /\ OthersTick(p) /\ Carries(p) /\ MemKept(p)
         /\ tick[p].pc = "resolve" /\ tick'[p].pc = "stampResolved"
         /\ rows' \in [Problem -> Row] /\ rows'[tick[p].open].status = "resolved"
         /\ \A j \in Problem : j # tick[p].open => rows'[j] = rows[j]
         /\ UNCHANGED <<now, mirror, heartbeat, leader, mem, request, resolvedOn, quiet>>
  <1>1. PICK i \in Problem : i = tick[p].open
    OBVIOUS
  <1>2. tick[p].copy \in Row
    BY TickFields
  <1>3. PICK c \in Row : c = MarkResolved(tick[p].copy) /\ c.status = "resolved"
    BY <1>2, MarkResolvedDoes
  <1>4. UpsertProblem(i, c)
    BY <1>1, <1>3 DEF Resolve
  <1>5. /\ rows' \in [Problem -> Row] /\ rows'[i].status = c.status
        /\ \A j \in Problem : j # i => rows'[j] = rows[j]
    BY <1>4, UpsertDoes
  <1>6. OthersTick(p) /\ Carries(p) /\ tick'[p].pc = "stampResolved"
    BY GoDoes DEF Resolve, Pc, Carries
  <1> QED
    BY <1>1, <1>3, <1>5, <1>6, MemSame DEF Resolve

\* The resolve is stamped, in memory and in the mirror.
LEMMA StampDoes ==
  ASSUME TypeOK, NEW p \in Pod, stampResolved(p)
  PROVE  /\ OthersTick(p) /\ Ended(p) /\ tick[p].pc = "stampResolved"
         /\ OthersMem(p) /\ mem'[p].lastTickAt = mem[p].lastTickAt /\ mem'[p].resolved = now
         /\ mirror' \in Stamps /\ resolvedOn' = now
         /\ mirror'["resolved"] = [at |-> now, until |-> now + stampTTL(CooldownSec)]
         /\ UNCHANGED <<now, rows, heartbeat, leader, request, quiet>>
  <1>0. mem[p] \in MemRec /\ now \in Moment /\ now \in Time /\ mirror \in Stamps
    BY TickFields, TypeFacts, Constants
  <1> DEFINE r == [mem[p] EXCEPT !.resolved = now]
             st == [at |-> now, until |-> now + stampTTL(CooldownSec)]
  <1>1. r \in MemRec /\ r.lastTickAt = mem[p].lastTickAt /\ r.resolved = now
    BY <1>0 DEF MemRec
  <1>2. mem' = [mem EXCEPT ![p] = r]
    BY TypeFacts DEF stampResolved
  <1>3. st \in Stamp
    BY <1>0, Constants DEF Stamp, Moment, Time
  <1>4. mirror' = [mirror EXCEPT !["resolved"] = st]
    BY DEF stampResolved
  <1> HIDE DEF r, st
  <1>5. mirror' \in Stamps /\ mirror'["resolved"] = st
    BY <1>0, <1>3, <1>4 DEF Stamps
  <1>6. OthersMem(p) /\ mem'[p] = r
    BY <1>1, <1>2, MemDoes
  <1> QED
    BY <1>1, <1>5, <1>6, DoneDoes DEF stampResolved, Ended, st

\* The list: rows that are unresolved.
LEMMA SweepListDoes ==
  ASSUME TypeOK, NEW p \in Pod, SweepList(p)
  PROVE  /\ OthersTick(p) /\ MemKept(p) /\ tick[p].pc = "sweep" /\ tick'[p].pc = "close"
         /\ tick'[p].open = tick[p].open /\ \A i \in tick'[p].stale : Unresolved(rows[i])
         /\ UNCHANGED <<now, rows, mirror, heartbeat, leader, mem, request, resolvedOn, quiet>>
  <1> DEFINE stale == IF sweepIsTrustworthy(p)
                      THEN {i \in Problem : Unresolved(rows[i]) /\ rows[i].updated < now - SweepAge}
                      ELSE {}
  <1>1. tick' = [tick EXCEPT ![p].pc = "close", ![p].stale = stale]
    BY DEF SweepList
  <1>2. stale \subseteq Problem /\ \A i \in stale : Unresolved(rows[i])
    OBVIOUS
  <1> HIDE DEF stale
  <1>3. tick[p] \in TickRec /\ tick \in [Pod -> TickRec]
    BY TypeFacts
  <1> DEFINE r == [tick[p] EXCEPT !.pc = "close", !.stale = stale]
  <1>4. r \in TickRec /\ r.pc = "close" /\ r.open = tick[p].open /\ r.stale = stale
    BY <1>2, <1>3 DEF TickRec, Pc
  <1>5. tick' = [tick EXCEPT ![p] = r]
    BY <1>1, <1>3
  <1> HIDE DEF r
  <1>6. OthersTick(p) /\ tick'[p] = r
    BY <1>3, <1>4, <1>5 DEF OthersTick
  <1> QED
    BY <1>2, <1>4, <1>6, MemSame DEF SweepList

\* One listed problem is resolved and the stamp forgotten.
LEMMA SweepCloseDoes ==
  ASSUME TypeOK, NEW p \in Pod, SweepClose(p)
  PROVE  /\ OthersTick(p) /\ tick[p].pc = "close" /\ tick'[p].pc = "close"
         /\ tick'[p].open = tick[p].open /\ tick'[p].stale \subseteq tick[p].stale
         /\ OthersMem(p) /\ mem'[p].lastTickAt = mem[p].lastTickAt /\ mem'[p].resolved = None
         /\ rows' \in [Problem -> Row]
         /\ \E i \in tick[p].stale : /\ rows'[i].status = "resolved"
                                     /\ \A j \in Problem : j # i => rows'[j] = rows[j]
         /\ mirror' \in Stamps /\ resolvedOn' = None
         /\ UNCHANGED <<now, heartbeat, leader, request, quiet>>
  <1>0. /\ mem[p] \in MemRec /\ None \in Moment /\ mirror \in Stamps /\ rows \in [Problem -> Row]
        /\ tick[p] \in TickRec /\ tick \in [Pod -> TickRec] /\ tick[p].stale \subseteq Problem
    BY TickFields, TypeFacts, Constants
  <1>1. PICK i \in tick[p].stale :
          /\ UpsertProblem(i, [MarkResolved(rows[i]) EXCEPT !.silent = TRUE])
          /\ tick' = [tick EXCEPT ![p].stale = @ \ {i}]
    BY DEF SweepClose
  <1>2. i \in Problem /\ rows[i] \in Row
    BY <1>0, <1>1
  <1>3. PICK c \in Row : c = [MarkResolved(rows[i]) EXCEPT !.silent = TRUE] /\ c.status = "resolved"
    <2>1. MarkResolved(rows[i]) \in Row /\ MarkResolved(rows[i]).status = "resolved"
      BY <1>2, MarkResolvedDoes
    <2>2. PICK d \in Row : d = MarkResolved(rows[i]) /\ d.status = "resolved"
      BY <2>1
    <2>3. [d EXCEPT !.silent = TRUE] \in Row /\ [d EXCEPT !.silent = TRUE].status = "resolved"
      <3>1. TRUE \in BOOLEAN
        OBVIOUS
      <3>2. ASSUME NEW b \in BOOLEAN
            PROVE  [d EXCEPT !.silent = b] \in Row /\ [d EXCEPT !.silent = b].status = "resolved"
        BY <2>2 DEF Row
      <3> QED
        BY <3>1, <3>2
    <2> QED
      BY <2>2, <2>3
  <1>4. /\ rows' \in [Problem -> Row] /\ rows'[i].status = c.status
        /\ \A j \in Problem : j # i => rows'[j] = rows[j]
    BY <1>1, <1>2, <1>3, UpsertDoes
  <1> DEFINE r == [tick[p] EXCEPT !.stale = tick[p].stale \ {i}]
             m == [mem[p] EXCEPT !.resolved = None]
  <1>5. r \in TickRec /\ r.pc = tick[p].pc /\ r.open = tick[p].open /\ r.stale \subseteq tick[p].stale
    BY <1>0 DEF TickRec
  <1>6. tick' = [tick EXCEPT ![p] = r]
    BY <1>0, <1>1
  <1>7. m \in MemRec /\ m.lastTickAt = mem[p].lastTickAt /\ m.resolved = None
    BY <1>0 DEF MemRec
  <1>8. mem' = [mem EXCEPT ![p] = m]
    BY TypeFacts DEF SweepClose
  <1> HIDE DEF r, m
  <1>9. OthersTick(p) /\ tick'[p] = r
    BY <1>0, <1>5, <1>6 DEF OthersTick
  <1>10. OthersMem(p) /\ mem'[p] = m
    BY <1>7, <1>8, MemDoes
  <1>11. mirror' \in Stamps
    BY <1>0, FreshTypes DEF SweepClose, Stamps
  <1> QED
    BY <1>3, <1>4, <1>5, <1>7, <1>9, <1>10, <1>11 DEF SweepClose

\* The tick is over.
LEMMA HeartbeatDoes ==
  ASSUME TypeOK, NEW p \in Pod, writeHeartbeat(p)
  PROVE  /\ OthersTick(p) /\ MemKept(p) /\ tick[p].pc = "close"
         /\ tick'[p].pc = "idle" /\ tick'[p].open = 0 /\ tick'[p].stale = {}
         /\ heartbeat' \in [started : Moment, contSince : Moment]
         /\ UNCHANGED <<now, rows, mirror, leader, mem, request, resolvedOn, quiet>>
  <1>1. tick \in [Pod -> TickRec] /\ tick' = [tick EXCEPT ![p] = IdleTick]
    BY TypeFacts DEF writeHeartbeat
  <1>2. OthersTick(p) /\ tick'[p] = IdleTick
    BY <1>1, FreshTypes DEF OthersTick
  <1>3. heartbeat' \in [started : Moment, contSince : Moment]
    BY TickFields DEF writeHeartbeat
  <1> QED
    BY <1>2, <1>3, FreshTypes, MemSame DEF writeHeartbeat

-----------------------------------------------------------------------------
(* The life of a tick.                                                     *)

\* No problem's row goes away.
NoneLost == \A i \in Problem : rows[i].status # "none" => rows'[i].status # "none"

\* A tick that does not move keeps what it holds.
LEMMA StillTicking ==
  ASSUME LifeInv, NEW q \in Pod, tick'[q] = tick[q], NoneLost, now' = now,
         tick[q].pc = "idle" \/ (mem'[q].lastTickAt = mem[q].lastTickAt /\ leader' = leader)
  PROVE  Ticking(q)'
  <1>1. Ticking(q) /\ tick[q].open \in Problem \union {0} /\ tick[q].stale \subseteq Problem
    BY TickFields DEF LifeInv
  <1> QED
    BY <1>1 DEF Ticking, NoneLost, Unresolved

\* A step of the leader's tick.
LEMMA TickKeeps ==
  ASSUME LifeInv, NEW p \in Pod, leader = p, UNCHANGED <<now, leader, request>>, TypeOK',
         OthersTick(p), OthersMem(p), NoneLost, Ticking(p)'
  PROVE  LifeInv'
  <1>1. ASSUME NEW q \in Pod, q # p PROVE Ticking(q)'
    <2>1. Ticking(q) /\ tick'[q] = tick[q]
      BY <1>1 DEF LifeInv, OthersTick
    <2>2. tick[q].pc = "idle"
      BY <1>1, <2>1 DEF Ticking
    <2> QED
      BY <2>1, <2>2, StillTicking
  <1>2. Requested'
    BY DEF LifeInv, Requested, NoneLost
  <1> QED
    BY <1>1, <1>2 DEF LifeInv

\* Every step of a tick keeps the invariant.
LEMMA TickLife ==
  ASSUME LifeInv, NEW p \in Pod, Tick(p)
  PROVE  LifeInv' /\ leader = p /\ UNCHANGED <<now, leader, request>> /\ OthersTick(p) /\ OthersMem(p)
  <1>0. /\ TypeOK /\ Ticking(p) /\ tick[p].open \in Problem \union {0} /\ tick[p].stale \subseteq Problem
        /\ now \in Nat /\ mem[p].lastTickAt \in Nat /\ rows \in [Problem -> Row] /\ now \in Time
        /\ now # None /\ tick[p].pc \in Pc
    <2>1. TypeOK /\ Ticking(p)
      BY DEF LifeInv
    <2>2. /\ tick[p].open \in Problem \union {0} /\ tick[p].stale \subseteq Problem
          /\ mem[p].lastTickAt \in Moment /\ tick[p].pc \in Pc
      BY <2>1, TickFields
    <2>3. now \in Time /\ rows \in [Problem -> Row]
      BY <2>1, TypeFacts
    <2>4. now \in Nat /\ now # None /\ mem[p].lastTickAt \in Nat
      <3>1. now \in Nat /\ mem[p].lastTickAt \in Nat /\ MaxTime \in Nat
        BY <2>2, <2>3, Constants
      <3>2. now # None
        BY <2>3, <3>1 DEF Time, None
      <3> QED
        BY <3>1, <3>2
    <2> QED
      BY <2>1, <2>2, <2>3, <2>4
  <1>1. UNCHANGED rows => NoneLost
    BY DEF NoneLost
  <1>2. CASE Begin(p)
    <2>1. /\ OthersTick(p) /\ Carries(p) /\ tick[p].pc = "idle" /\ tick'[p].pc = "snapshot"
          /\ OthersMem(p) /\ mem'[p].lastTickAt = now /\ leader = p
          /\ UNCHANGED <<now, rows, mirror, heartbeat, leader, request, resolvedOn, quiet>>
      BY <1>0, <1>2, BeginDoes
    <2>2. TypeOK'
      BY <1>0, <2>1, TypeFacts, TypeFactsNext DEF OthersTick, OthersMem
    <2>3. Ticking(p)'
      BY <1>0, <2>1, Constants DEF Ticking, Carries
    <2> QED
      BY <1>1, <2>1, <2>2, <2>3, TickKeeps
  <1>3. CASE OpenProblemsSnapshot(p)
    <2>1. /\ OthersTick(p) /\ tick[p].pc = "snapshot" /\ tick'[p].pc = "measure"
          /\ tick'[p].stale = tick[p].stale
          /\ \/ tick'[p].open = 0 /\ \A i \in Problem : ~Unresolved(rows[i])
             \/ /\ tick'[p].open \in Problem /\ Unresolved(rows[tick'[p].open])
                /\ tick'[p].copy = rows[tick'[p].open]
          /\ UNCHANGED <<now, rows, mirror, heartbeat, leader, mem, request, resolvedOn, quiet>>
      BY <1>0, <1>3, SnapshotDoes
    <2>2. TypeOK' /\ MemKept(p) /\ leader = p
      BY <1>0, <2>1, MemSame, TypeFacts, TypeFactsNext DEF OthersTick, Ticking
    <2>3. Ticking(p)'
      BY <1>0, <2>1, <2>2 DEF Ticking, Unresolved, MemKept
    <2> QED
      BY <1>1, <2>1, <2>2, <2>3, TickKeeps DEF MemKept
  <1>4. ASSUME NEW s \in Signal, Measure(p, s)
        PROVE  LifeInv' /\ leader = p /\ UNCHANGED <<now, leader, request>> /\ OthersTick(p) /\ OthersMem(p)
    <2>1. /\ OthersTick(p) /\ MemKept(p) /\ tick[p].pc = "measure"
          /\ mirror' \in Stamps /\ quiet' \in BOOLEAN
          /\ \/ Ended(p)
             \/ tick[p].open # 0 /\ Carries(p) /\ tick'[p].pc \in {"refresh", "resolve"}
             \/ tick[p].open = 0 /\ Carries(p) /\ tick'[p].pc = "cooldown" /\ tick'[p].at = now
          /\ UNCHANGED <<now, rows, heartbeat, leader, request, resolvedOn>>
      BY <1>0, <1>4, MeasureDoes
    <2>2. TypeOK' /\ leader = p
      BY <1>0, <2>1, TypeFacts, TypeFactsNext DEF OthersTick, MemKept, OthersMem, Ticking
    <2>3. Ticking(p)'
      BY <1>0, <2>1, <2>2 DEF Ticking, MemKept, Carries, Ended
    <2> QED
      BY <1>1, <2>1, <2>2, <2>3, TickKeeps DEF MemKept
  <1>5. CASE CooldownGate(p)
    <2>1. /\ OthersTick(p) /\ OthersMem(p) /\ mem'[p].lastTickAt = mem[p].lastTickAt
          /\ tick[p].pc = "cooldown"
          /\ Ended(p) \/ (Carries(p) /\ tick'[p].pc = "open")
          /\ UNCHANGED <<now, rows, mirror, heartbeat, leader, request, resolvedOn, quiet>>
      BY <1>0, <1>5, CooldownDoes
    <2>2. TypeOK' /\ leader = p
      BY <1>0, <2>1, TypeFacts, TypeFactsNext DEF OthersTick, OthersMem, Ticking
    <2>3. Ticking(p)'
      BY <1>0, <2>1, <2>2 DEF Ticking, Carries, Ended
    <2> QED
      BY <1>1, <2>1, <2>2, <2>3, TickKeeps
  <1>6. CASE Open(p)
    <2>1. /\ OthersTick(p) /\ Ended(p) /\ MemKept(p) /\ tick[p].pc = "open"
          /\ rows' \in [Problem -> Row]
          /\ \E i \in Problem : /\ rows'[i].status = "open"
                                /\ \A j \in Problem : j # i => rows'[j] = rows[j]
          /\ quiet' = FALSE
          /\ UNCHANGED <<now, mirror, heartbeat, leader, mem, request, resolvedOn>>
      BY <1>0, <1>6, OpenDoes
    <2>2. TypeOK' /\ leader = p /\ NoneLost
      BY <1>0, <2>1, TypeFacts, TypeFactsNext DEF OthersTick, Ticking, NoneLost
    <2>3. Ticking(p)'
      BY <1>0, <2>1, <2>2 DEF Ticking, Ended
    <2> QED
      BY <2>1, <2>2, <2>3, TickKeeps DEF MemKept
  <1>7. CASE Refresh(p)
    <2>0. tick[p].open \in Problem /\ Unresolved(tick[p].copy)
      BY <1>0, <1>7 DEF Refresh, Ticking
    <2>1. /\ OthersTick(p) /\ Ended(p) /\ MemKept(p) /\ tick[p].pc = "refresh"
          /\ rows' \in [Problem -> Row] /\ rows'[tick[p].open].status = tick[p].copy.status
          /\ \A j \in Problem : j # tick[p].open => rows'[j] = rows[j]
          /\ quiet' = FALSE
          /\ UNCHANGED <<now, mirror, heartbeat, leader, mem, request, resolvedOn>>
      BY <1>0, <1>7, <2>0, RefreshDoes
    <2>2. TypeOK' /\ leader = p /\ NoneLost
      BY <1>0, <2>0, <2>1, TypeFacts, TypeFactsNext DEF OthersTick, Ticking, NoneLost, Unresolved
    <2>3. Ticking(p)'
      BY <1>0, <2>1, <2>2 DEF Ticking, Ended
    <2> QED
      BY <2>1, <2>2, <2>3, TickKeeps DEF MemKept
  <1>8. CASE Resolve(p)
    <2>0. tick[p].open \in Problem
      BY <1>0, <1>8 DEF Resolve, Ticking
    <2>1. /\ OthersTick(p) /\ Carries(p) /\ MemKept(p)
          /\ tick[p].pc = "resolve" /\ tick'[p].pc = "stampResolved"
          /\ rows' \in [Problem -> Row] /\ rows'[tick[p].open].status = "resolved"
          /\ \A j \in Problem : j # tick[p].open => rows'[j] = rows[j]
          /\ UNCHANGED <<now, mirror, heartbeat, leader, mem, request, resolvedOn, quiet>>
      BY <1>0, <1>8, <2>0, ResolveDoes
    <2>2. TypeOK' /\ leader = p /\ NoneLost
      BY <1>0, <2>1, TypeFacts, TypeFactsNext DEF OthersTick, Ticking, NoneLost
    <2>3. Ticking(p)'
      BY <1>0, <2>0, <2>1, <2>2 DEF Ticking, Carries, NoneLost, MemKept
    <2> QED
      BY <2>1, <2>2, <2>3, TickKeeps DEF MemKept
  <1>9. CASE stampResolved(p)
    <2>1. /\ OthersTick(p) /\ Ended(p) /\ tick[p].pc = "stampResolved"
          /\ OthersMem(p) /\ mem'[p].lastTickAt = mem[p].lastTickAt
          /\ mirror' \in Stamps /\ resolvedOn' = now
          /\ UNCHANGED <<now, rows, heartbeat, leader, request, quiet>>
      BY <1>0, <1>9, StampDoes
    <2>2. TypeOK' /\ leader = p
      BY <1>0, <2>1, TypeFacts, TypeFactsNext, Constants DEF OthersTick, OthersMem, Ticking
    <2>3. Ticking(p)'
      BY <1>0, <2>1, <2>2 DEF Ticking, Ended
    <2> QED
      BY <1>1, <2>1, <2>2, <2>3, TickKeeps
  <1>10. CASE SweepList(p)
    <2>1. /\ OthersTick(p) /\ MemKept(p) /\ tick[p].pc = "sweep" /\ tick'[p].pc = "close"
          /\ tick'[p].open = tick[p].open /\ \A i \in tick'[p].stale : Unresolved(rows[i])
          /\ UNCHANGED <<now, rows, mirror, heartbeat, leader, mem, request, resolvedOn, quiet>>
      BY <1>0, <1>10, SweepListDoes
    <2>2. TypeOK' /\ leader = p
      BY <1>0, <2>1, TypeFacts, TypeFactsNext DEF OthersTick, Ticking
    <2>3. Ticking(p)'
      BY <1>0, <2>1, <2>2 DEF Ticking, MemKept, Unresolved
    <2> QED
      BY <1>1, <2>1, <2>2, <2>3, TickKeeps DEF MemKept
  <1>11. CASE SweepClose(p)
    <2>1. /\ OthersTick(p) /\ tick[p].pc = "close" /\ tick'[p].pc = "close"
          /\ tick'[p].open = tick[p].open /\ tick'[p].stale \subseteq tick[p].stale
          /\ OthersMem(p) /\ mem'[p].lastTickAt = mem[p].lastTickAt
          /\ rows' \in [Problem -> Row]
          /\ \E i \in tick[p].stale : /\ rows'[i].status = "resolved"
                                      /\ \A j \in Problem : j # i => rows'[j] = rows[j]
          /\ mirror' \in Stamps /\ resolvedOn' = None
          /\ UNCHANGED <<now, heartbeat, leader, request, quiet>>
      BY <1>0, <1>11, SweepCloseDoes
    <2>2. TypeOK' /\ leader = p /\ NoneLost
      BY <1>0, <2>1, TypeFacts, TypeFactsNext, Constants DEF OthersTick, OthersMem, Ticking, NoneLost
    <2>3. Ticking(p)'
      BY <1>0, <2>1, <2>2 DEF Ticking, NoneLost
    <2> QED
      BY <2>1, <2>2, <2>3, TickKeeps
  <1>12. CASE writeHeartbeat(p)
    <2>1. /\ OthersTick(p) /\ MemKept(p) /\ tick[p].pc = "close"
          /\ tick'[p].pc = "idle" /\ tick'[p].open = 0 /\ tick'[p].stale = {}
          /\ heartbeat' \in [started : Moment, contSince : Moment]
          /\ UNCHANGED <<now, rows, mirror, leader, mem, request, resolvedOn, quiet>>
      BY <1>0, <1>12, HeartbeatDoes
    <2>2. TypeOK' /\ leader = p
      BY <1>0, <2>1, TypeFacts, TypeFactsNext DEF OthersTick, Ticking
    <2>3. Ticking(p)'
      BY <2>1 DEF Ticking
    <2> QED
      BY <1>1, <2>1, <2>2, <2>3, TickKeeps DEF MemKept
  <1> QED
    BY <1>2, <1>3, <1>4, <1>5, <1>6, <1>7, <1>8, <1>9, <1>10, <1>11, <1>12 DEF Tick

\* An operator's request is taken up: a copy of the row is read.
LEMMA AskDoes ==
  ASSUME TypeOK, NEW i \in Problem, AskAcknowledge(i) \/ AskResolve(i)
  PROVE  /\ request' \in [pc : {"idle", "acknowledge", "resolve"}, problem : Problem \union {0}, copy : Row]
         /\ request'.problem = i /\ Unresolved(rows[i])
         /\ UNCHANGED <<now, rows, mirror, heartbeat, leader, mem, tick, resolvedOn, quiet>>
  <1>1. rows[i] \in Row
    BY TypeFacts
  <1> QED
    BY <1>1 DEF AskAcknowledge, AskResolve, podVars, Unresolved

\* An operator's request is carried out: the copy is written back.
LEMMA AnswerDoes ==
  ASSUME TypeOK, request.problem \in Problem, AcknowledgeProblems \/ ResolveProblems
  PROVE  /\ rows' \in [Problem -> Row] /\ request' = NoRequest
         /\ \A j \in Problem : j # request.problem => rows'[j] = rows[j]
         /\ \/ request.pc = "acknowledge" /\ rows'[request.problem].status = "acknowledged"
            \/ request.pc = "resolve" /\ rows'[request.problem].status = "resolved"
         /\ UNCHANGED <<now, mirror, heartbeat, leader, mem, tick, resolvedOn, quiet>>
  <1>1. PICK i \in Problem : i = request.problem
    OBVIOUS
  <1>2. request.copy \in Row
    BY TypeFacts
  <1>3. CASE AcknowledgeProblems
    <2>1. PICK c : c = [request.copy EXCEPT !.status = "acknowledged"]
      OBVIOUS
    <2>2. c \in Row /\ c.status = "acknowledged"
      BY <1>2, <2>1 DEF Row, Status
    <2>3. UpsertProblem(i, c)
      BY <1>1, <1>3, <2>1 DEF AcknowledgeProblems
    <2>4. /\ rows' \in [Problem -> Row] /\ rows'[i].status = c.status
          /\ \A j \in Problem : j # i => rows'[j] = rows[j]
      BY <2>2, <2>3, UpsertDoes
    <2> QED
      BY <1>1, <1>3, <2>2, <2>4 DEF AcknowledgeProblems, podVars
  <1>4. CASE ResolveProblems
    <2>1. PICK c \in Row : c = MarkResolved(request.copy) /\ c.status = "resolved"
      BY <1>2, MarkResolvedDoes
    <2>2. UpsertProblem(i, c)
      BY <1>1, <1>4, <2>1 DEF ResolveProblems
    <2>3. /\ rows' \in [Problem -> Row] /\ rows'[i].status = c.status
          /\ \A j \in Problem : j # i => rows'[j] = rows[j]
      BY <2>2, UpsertDoes
    <2> QED
      BY <1>1, <1>4, <2>1, <2>3 DEF ResolveProblems, podVars
  <1> QED
    BY <1>3, <1>4

\* A pod loses the lease or is restarted: it is idle, and it does not lead.
LEMMA LeaveDoes ==
  ASSUME TypeOK, NEW p \in Pod, Demote(p) \/ Restart(p)
  PROVE  /\ OthersTick(p) /\ OthersMem(p)
         /\ \/ tick'[p].pc = "idle" /\ tick'[p].open = 0 /\ tick'[p].stale = {}
            \/ tick'[p] = tick[p] /\ tick[p].pc = "idle"
         /\ leader' \in Pod \union {NoPod} /\ leader' # p /\ (leader # p => leader' = leader)
         /\ leader = p => leader' = NoPod
         /\ mem'[p].resolved = None \/ (Bounce /\ UNCHANGED mem)
         /\ UNCHANGED <<now, rows, mirror, heartbeat, request, resolvedOn, quiet>>
  <1>0. tick \in [Pod -> TickRec] /\ mem \in [Pod -> MemRec] /\ leader \in Pod \union {NoPod}
    BY TypeFacts
  <1>1. mem' = [mem EXCEPT ![p] = FreshMem] => OthersMem(p) /\ mem'[p].resolved = None
    BY FreshTypes, MemDoes
  <1>2. UNCHANGED mem => OthersMem(p)
    BY MemSame DEF MemKept
  <1>3. CASE Restart(p)
    <2>1. tick' = [tick EXCEPT ![p] = IdleTick]
      BY <1>3 DEF Restart
    <2>2. OthersTick(p) /\ tick'[p] = IdleTick
      BY <1>0, <2>1, FreshTypes DEF OthersTick
    <2> QED
      BY <1>0, <1>1, <1>3, <2>2, FreshTypes, Constants DEF Restart
  <1>4. CASE Demote(p)
    <2>1. OthersTick(p) /\ tick'[p] = tick[p] /\ tick[p].pc = "idle"
      BY <1>0, <1>4 DEF OthersTick, Demote
    <2> QED
      BY <1>0, <1>1, <1>2, <1>4, <2>1, Constants DEF Demote
  <1> QED
    BY <1>3, <1>4

\* What is not a tick keeps the invariant.
LEMMA OtherLife ==
  ASSUME LifeInv,
         \/ \E p \in Pod : Elect(p) \/ Demote(p) \/ Restart(p)
         \/ \E i \in Problem : AskAcknowledge(i) \/ AskResolve(i)
         \/ AcknowledgeProblems \/ ResolveProblems
         \/ Advance
         \/ UNCHANGED vars
  PROVE  LifeInv'
  <1>0. TypeOK /\ Requested /\ \A q \in Pod : Ticking(q)
    BY DEF LifeInv
  <1>1. ASSUME NEW p \in Pod, Elect(p) PROVE LifeInv'
    <2>1. leader = NoPod /\ UNCHANGED <<now, rows, mirror, heartbeat, mem, tick, request, resolvedOn, quiet>>
          /\ leader' = p
      BY <1>1 DEF Elect, podVars
    <2>2. TypeOK' /\ Requested' /\ NoneLost
      BY <1>0, <2>1, TypeFacts, TypeFactsNext DEF Requested, NoneLost
    <2>3. ASSUME NEW q \in Pod PROVE Ticking(q)'
      <3>1. tick[q].pc = "idle"
        BY <1>0, <2>1, Constants DEF Ticking
      <3> QED
        BY <2>1, <2>2, <3>1, StillTicking
    <2> QED
      BY <2>2, <2>3 DEF LifeInv
  <1>2. ASSUME NEW p \in Pod, Demote(p) \/ Restart(p) PROVE LifeInv'
    <2>1. /\ OthersTick(p) /\ OthersMem(p)
          /\ \/ tick'[p].pc = "idle" /\ tick'[p].open = 0 /\ tick'[p].stale = {}
             \/ tick'[p] = tick[p] /\ tick[p].pc = "idle"
          /\ leader' \in Pod \union {NoPod} /\ leader' # p /\ (leader # p => leader' = leader)
          /\ UNCHANGED <<now, rows, mirror, heartbeat, request, resolvedOn, quiet>>
      BY <1>0, <1>2, LeaveDoes
    <2>2. TypeOK' /\ Requested' /\ NoneLost
      BY <1>0, <2>1, TypeFacts, TypeFactsNext DEF Requested, NoneLost, OthersTick, OthersMem
    <2>3. ASSUME NEW q \in Pod PROVE Ticking(q)'
      <3>1. CASE q = p
        <4>1. CASE tick'[p].pc = "idle" /\ tick'[p].open = 0 /\ tick'[p].stale = {}
          BY <3>1, <4>1 DEF Ticking
        <4>2. CASE tick'[p] = tick[p] /\ tick[p].pc = "idle"
          BY <2>1, <2>2, <3>1, <4>2, StillTicking
        <4> QED
          BY <2>1, <4>1, <4>2
      <3>2. CASE q # p
        <4>1. tick'[q] = tick[q] /\ mem'[q] = mem[q]
          BY <2>1, <3>2 DEF OthersTick, OthersMem
        <4>2. tick[q].pc = "idle" \/ leader' = leader
          BY <1>0, <2>1, <3>2 DEF Ticking
        <4> QED
          BY <2>1, <2>2, <4>1, <4>2, StillTicking
      <3> QED
        BY <3>1, <3>2
    <2> QED
      BY <2>2, <2>3 DEF LifeInv
  <1>3. ASSUME NEW i \in Problem, AskAcknowledge(i) \/ AskResolve(i) PROVE LifeInv'
    <2>1. /\ request' \in [pc : {"idle", "acknowledge", "resolve"}, problem : Problem \union {0}, copy : Row]
          /\ request'.problem = i /\ Unresolved(rows[i])
          /\ UNCHANGED <<now, rows, mirror, heartbeat, leader, mem, tick, resolvedOn, quiet>>
      BY <1>0, <1>3, AskDoes
    <2>2. TypeOK' /\ Requested' /\ NoneLost
      BY <1>0, <2>1, TypeFacts, TypeFactsNext DEF Requested, NoneLost, Unresolved
    <2>3. ASSUME NEW q \in Pod PROVE Ticking(q)'
      BY <2>1, <2>2, StillTicking
    <2> QED
      BY <2>2, <2>3 DEF LifeInv
  <1>4. CASE AcknowledgeProblems \/ ResolveProblems
    <2>0. request.problem \in Problem
      BY <1>0, <1>4 DEF Requested, AcknowledgeProblems, ResolveProblems
    <2>1. /\ rows' \in [Problem -> Row] /\ request' = NoRequest
          /\ \A j \in Problem : j # request.problem => rows'[j] = rows[j]
          /\ rows'[request.problem].status \in {"acknowledged", "resolved"}
          /\ UNCHANGED <<now, mirror, heartbeat, leader, mem, tick, resolvedOn, quiet>>
      BY <1>0, <1>4, <2>0, AnswerDoes
    <2>2. TypeOK' /\ Requested' /\ NoneLost
      BY <1>0, <2>1, TypeFacts, TypeFactsNext, FreshTypes DEF Requested, NoneLost
    <2>3. ASSUME NEW q \in Pod PROVE Ticking(q)'
      BY <2>1, <2>2, StillTicking
    <2> QED
      BY <2>2, <2>3 DEF LifeInv
  <1>5. CASE Advance
    <2>1. /\ now' = now + 1 /\ now < MaxTime
          /\ UNCHANGED <<rows, mirror, heartbeat, leader, mem, tick, request, resolvedOn, quiet>>
      BY <1>5 DEF Advance, podVars
    <2>2. now \in Nat /\ now \in 1..MaxTime /\ MaxTime \in Nat /\ MaxTick \in Nat
      BY <1>0, TypeFacts, Constants DEF Time
    <2>3. now' \in Time
      BY <2>1, <2>2 DEF Time
    <2>4. TypeOK' /\ Requested'
      BY <1>0, <2>1, <2>3, TypeFacts, TypeFactsNext DEF Requested
    <2>5. ASSUME NEW q \in Pod PROVE Ticking(q)'
      <3>1. Ticking(q) /\ mem[q].lastTickAt \in Nat /\ tick[q].at \in Nat
        BY <1>0, TickFields, Constants
      <3>2. tick[q].pc # "idle" => now + 1 <= mem[q].lastTickAt + MaxTick
        BY <1>5, <2>2, <3>1 DEF Advance
      <3> QED
        BY <2>1, <2>2, <3>1, <3>2 DEF Ticking
    <2> QED
      BY <2>4, <2>5 DEF LifeInv
  <1>6. CASE UNCHANGED vars
    <2>1. UNCHANGED <<now, rows, mirror, heartbeat, leader, mem, tick, request, resolvedOn, quiet>>
      BY <1>6 DEF vars
    <2>2. TypeOK' /\ Requested' /\ NoneLost
      BY <1>0, <2>1, TypeFacts, TypeFactsNext DEF Requested, NoneLost
    <2>3. ASSUME NEW q \in Pod PROVE Ticking(q)'
      BY <2>1, <2>2, StillTicking
    <2> QED
      BY <2>2, <2>3 DEF LifeInv
  <1> QED
    BY <1>1, <1>2, <1>3, <1>4, <1>5, <1>6

\* Nothing has happened yet.
LEMMA LifeInit ==
  ASSUME Init
  PROVE  LifeInv
  <1>1. TypeOK
    <2>1. now \in Time /\ leader \in Pod \union {NoPod} /\ resolvedOn \in Moment
      BY Constants DEF Init
    <2>2. rows \in [Problem -> Row] /\ mem \in [Pod -> MemRec] /\ tick \in [Pod -> TickRec]
      BY FreshTypes DEF Init
    <2>3. mirror \in Stamps
      BY FreshTypes DEF Init, Stamps
    <2>4. heartbeat \in [started : Moment, contSince : Moment]
      BY Constants DEF Init
    <2>5. /\ request \in [pc : {"idle", "acknowledge", "resolve"}, problem : Problem \union {0}, copy : Row]
          /\ quiet \in BOOLEAN
      BY FreshTypes DEF Init
    <2> QED
      BY <2>1, <2>2, <2>3, <2>4, <2>5, TypeFacts
  <1>2. \A p \in Pod : Ticking(p)
    BY FreshTypes DEF Init, Ticking
  <1>3. Requested
    BY FreshTypes DEF Init, Requested
  <1> QED
    BY <1>1, <1>2, <1>3 DEF LifeInv

\* Every step keeps the invariant of ticks and requests.
LEMMA LifeNext ==
  ASSUME LifeInv, [Next]_vars
  PROVE  LifeInv'
  BY TickLife, OtherLife DEF Next

\* Every variable keeps its type, whatever the timing, whoever leads.
THEOREM AlertTypeOK == Spec => []TypeOK
  <1>1. Init => LifeInv
    BY LifeInit
  <1>2. LifeInv /\ [Next]_vars => LifeInv'
    BY LifeNext
  <1>3. LifeInv => TypeOK
    BY DEF LifeInv
  <1> QED
    BY <1>1, <1>2, <1>3, PTL DEF Spec

-----------------------------------------------------------------------------
(* One unresolved problem.                                                 *)

\* A step that claims nothing new and lets no tick come to open a problem.
LEMMA NothingClaimed ==
  ASSUME OneOpenInv, LifeInv', LateAck',
         \A i \in Problem : Claimed(i)' => Claimed(i),
         \A q \in Pod : Opening(q)' => Opening(q) \/ \A i \in Problem : ~Claimed(i)
  PROVE  OneOpenInv'
  <1>1. OneClaim'
    BY DEF OneOpenInv, OneClaim
  <1>2. NoClaim'
    BY DEF OneOpenInv, NoClaim
  <1> QED
    BY <1>1, <1>2 DEF OneOpenInv

\* A step of the leader's tick: what it writes and what it holds was claimed.
LEMMA TickOne ==
  ASSUME OneOpenInv, LifeInv', NEW p \in Pod, leader = p, UNCHANGED <<now, leader, request>>,
         OthersTick(p),
         \A i \in Problem : Unresolved(rows'[i]) => Claimed(i),
         \A i \in Problem : Reopens(p)' /\ tick'[p].open = i => Claimed(i),
         Opening(p)' => \A i \in Problem : ~Claimed(i),
         request.pc = "acknowledge" /\ ~Unresolved(rows'[request.problem]) => Closing(p)'
  PROVE  OneOpenInv'
  <1>0. LifeInv /\ \A q \in Pod : Ticking(q)
    BY DEF OneOpenInv, LifeInv
  <1>1. ASSUME NEW q \in Pod, q # p PROVE tick'[q] = tick[q] /\ tick[q].pc = "idle"
    BY <1>0, <1>1 DEF OthersTick, Ticking
  <1>2. ASSUME NEW i \in Problem, Claimed(i)' PROVE Claimed(i)
    <2>1. CASE Unresolved(rows'[i])
      BY <2>1
    <2>2. CASE request'.pc = "acknowledge" /\ request'.problem = i
      BY <2>2 DEF Claimed
    <2>3. ASSUME NEW q \in Pod, Reopens(q)', tick'[q].open = i PROVE Claimed(i)
      BY <1>1, <2>3 DEF Reopens
    <2> QED
      BY <1>2, <2>1, <2>2, <2>3 DEF Claimed
  <1>3. ASSUME NEW q \in Pod, Opening(q)' PROVE \A i \in Problem : ~Claimed(i)
    BY <1>1, <1>3 DEF Opening
  <1>4. LateAck'
    BY DEF LateAck
  <1> QED
    BY <1>2, <1>3, <1>4, NothingClaimed

\* A step of a tick, if ticks end within their interval.
LEMMA TickOneOpen ==
  ASSUME OneOpenInv, NEW p \in Pod, Tick(p), MaxTick < Interval
  PROVE  OneOpenInv'
  <1>0. /\ LifeInv /\ LifeInv' /\ TypeOK /\ Ticking(p) /\ leader = p
        /\ UNCHANGED <<now, leader, request>> /\ OthersTick(p) /\ OthersMem(p)
        /\ Requested /\ OneClaim /\ NoClaim /\ LateAck
    BY TickLife DEF OneOpenInv, LifeInv
  <1>1. /\ tick[p].open \in Problem \union {0} /\ tick[p].pc \in Pc
        /\ now \in Nat /\ mem[p].lastTickAt \in Nat
        /\ request.pc = "acknowledge" => request.problem \in Problem
    BY <1>0, TickFields, TypeFacts, Constants DEF Requested
  <1>2. \A i \in Problem : Unresolved(rows[i]) => Claimed(i)
    BY DEF Claimed
  <1>3. Reopens(p) => Claimed(tick[p].open)
    BY DEF Claimed
  <1>4. request.pc = "acknowledge" => Claimed(request.problem)
    BY DEF Claimed
  <1>5. request.pc = "acknowledge" /\ ~Unresolved(rows[request.problem]) => Closing(p)
    BY <1>0 DEF LateAck
  <1>6. CASE Begin(p)
    <2>1. /\ tick[p].pc = "idle" /\ tick'[p].pc = "snapshot"
          /\ (mem[p].lastTickAt = None \/ now - mem[p].lastTickAt >= Interval)
          /\ UNCHANGED rows
      BY <1>0, <1>6, BeginDoes
    <2>2. ~Closing(p)
      BY <1>1, <2>1, Constants DEF Closing
    <2>3. ~Opening(p)' /\ ~Reopens(p)'
      BY <2>1 DEF Opening, Reopens
    <2> QED
      BY <1>0, <1>2, <1>5, <2>1, <2>2, <2>3, TickOne
  <1>7. CASE OpenProblemsSnapshot(p)
    <2>1. /\ tick[p].pc = "snapshot" /\ tick'[p].pc = "measure" /\ UNCHANGED rows
          /\ \/ tick'[p].open = 0 /\ \A i \in Problem : ~Unresolved(rows[i])
             \/ tick'[p].open \in Problem /\ Unresolved(rows[tick'[p].open])
      BY <1>0, <1>7, SnapshotDoes
    <2>2. ~Closing(p) /\ ~Reopens(p)
      BY <2>1 DEF Closing, Reopens
    <2>3. ASSUME NEW i \in Problem, Reopens(p)', tick'[p].open = i PROVE Claimed(i)
      BY <1>2, <2>1, <2>3 DEF Reopens
    <2>4. ASSUME Opening(p)', NEW i \in Problem PROVE ~Claimed(i)
      <3>1. \A j \in Problem : ~Unresolved(rows[j])
        BY <2>1, <2>4, Constants DEF Opening
      <3>2. request.pc # "acknowledge"
        BY <1>1, <1>5, <2>2, <3>1
      <3>3. ASSUME NEW q \in Pod PROVE ~Reopens(q)
        <4>1. CASE q = p
          BY <2>2, <4>1
        <4>2. CASE q # p
          <5>1. tick[q].pc = "idle"
            BY <1>0, <4>2 DEF LifeInv, Ticking
          <5> QED
            BY <5>1 DEF Reopens
        <4> QED
          BY <4>1, <4>2
      <3> QED
        BY <3>1, <3>2, <3>3 DEF Claimed
    <2> QED
      BY <1>0, <1>2, <1>5, <2>1, <2>2, <2>3, <2>4, TickOne
  <1>8. ASSUME NEW s \in Signal, Measure(p, s) PROVE OneOpenInv'
    <2>1. /\ tick[p].pc = "measure" /\ UNCHANGED rows
          /\ \/ Ended(p)
             \/ tick[p].open # 0 /\ Carries(p) /\ tick'[p].pc \in {"refresh", "resolve"}
             \/ tick[p].open = 0 /\ Carries(p) /\ tick'[p].pc = "cooldown" /\ tick'[p].at = now
      BY <1>0, <1>8, MeasureDoes
    <2>2. ~Closing(p) /\ (Reopens(p) <=> tick[p].open # 0) /\ (Opening(p) <=> tick[p].open = 0)
      BY <2>1 DEF Closing, Reopens, Opening
    <2>3. ASSUME NEW i \in Problem, Reopens(p)', tick'[p].open = i PROVE Claimed(i)
      BY <1>3, <2>1, <2>2, <2>3 DEF Reopens, Ended, Carries
    <2>4. Opening(p)' => Opening(p)
      BY <2>1, <2>2 DEF Opening, Ended, Carries
    <2> QED
      BY <1>0, <1>2, <1>5, <2>1, <2>2, <2>3, <2>4, TickOne DEF NoClaim
  <1>9. CASE CooldownGate(p)
    <2>1. /\ tick[p].pc = "cooldown" /\ UNCHANGED rows
          /\ Ended(p) \/ (Carries(p) /\ tick'[p].pc = "open")
      BY <1>0, <1>9, CooldownDoes
    <2>2. Opening(p) /\ ~Closing(p) /\ ~Reopens(p)'
      BY <2>1 DEF Opening, Closing, Reopens, Ended
    <2> QED
      BY <1>0, <1>2, <1>5, <2>1, <2>2, TickOne DEF NoClaim
  <1>10. CASE Open(p)
    <2>1. /\ tick[p].pc = "open" /\ Ended(p)
          /\ \E i \in Problem : /\ rows'[i].status = "open"
                                /\ \A j \in Problem : j # i => rows'[j] = rows[j]
      BY <1>0, <1>10, OpenDoes
    <2>2. PICK i \in Problem : \A j \in Problem : j # i => rows'[j] = rows[j]
      BY <2>1
    <2>3. \A j \in Problem : ~Claimed(j)
      BY <1>0, <2>1 DEF NoClaim, Opening
    <2>4. request.pc # "acknowledge"
      BY <1>1, <1>4, <2>3
    <2>5. ASSUME NEW q \in Pod PROVE ~Reopens(q)' /\ ~Opening(q)'
      <3>1. CASE q = p
        BY <2>1, <3>1 DEF Ended, Reopens, Opening
      <3>2. CASE q # p
        <4>1. tick'[q] = tick[q] /\ tick[q].pc = "idle"
          BY <1>0, <3>2 DEF LifeInv, Ticking, OthersTick
        <4> QED
          BY <4>1 DEF Reopens, Opening
      <3> QED
        BY <3>1, <3>2
    <2>6. ASSUME NEW j \in Problem, Claimed(j)' PROVE j = i
      <3>1. Unresolved(rows'[j])
        BY <1>0, <2>4, <2>5, <2>6 DEF Claimed
      <3> QED
        BY <1>2, <2>2, <2>3, <3>1
    <2>7. OneClaim' /\ NoClaim' /\ LateAck'
      BY <1>0, <2>4, <2>5, <2>6 DEF OneClaim, NoClaim, LateAck
    <2> QED
      BY <1>0, <2>7 DEF OneOpenInv
  <1>11. CASE Refresh(p)
    <2>0. tick[p].open \in Problem /\ Unresolved(tick[p].copy) /\ Reopens(p) /\ ~Closing(p)
      BY <1>0, <1>1, <1>11 DEF Refresh, Ticking, Reopens, Closing
    <2>1. /\ Ended(p) /\ rows'[tick[p].open].status = tick[p].copy.status
          /\ \A j \in Problem : j # tick[p].open => rows'[j] = rows[j]
      BY <1>0, <1>11, <2>0, RefreshDoes
    <2>2. \A j \in Problem : Unresolved(rows'[j]) => Claimed(j)
      BY <1>2, <1>3, <2>0, <2>1
    <2>3. request.pc = "acknowledge" => Unresolved(rows'[request.problem])
      BY <1>1, <1>5, <2>0, <2>1 DEF Unresolved
    <2>4. ~Reopens(p)' /\ ~Opening(p)'
      BY <2>1 DEF Ended, Reopens, Opening
    <2> QED
      BY <1>0, <2>2, <2>3, <2>4, TickOne
  <1>12. CASE Resolve(p)
    <2>0. tick[p].open \in Problem
      BY <1>0, <1>1, <1>12 DEF Resolve, Ticking
    <2>1. /\ tick'[p].pc = "stampResolved" /\ rows'[tick[p].open].status = "resolved"
          /\ \A j \in Problem : j # tick[p].open => rows'[j] = rows[j]
      BY <1>0, <1>12, <2>0, ResolveDoes
    <2>2. \A j \in Problem : Unresolved(rows'[j]) => Claimed(j)
      BY <1>2, <2>1 DEF Unresolved
    <2>3. ~Reopens(p)' /\ ~Opening(p)' /\ Closing(p)'
      BY <2>1 DEF Reopens, Opening, Closing
    <2> QED
      BY <1>0, <2>2, <2>3, TickOne
  <1>13. CASE stampResolved(p) \/ SweepList(p)
    <2>1. tick'[p].pc \in {"sweep", "close"} /\ UNCHANGED rows
      BY <1>0, <1>13, StampDoes, SweepListDoes DEF Ended
    <2>2. ~Reopens(p)' /\ ~Opening(p)' /\ Closing(p)'
      BY <2>1 DEF Reopens, Opening, Closing
    <2> QED
      BY <1>0, <1>2, <2>1, <2>2, TickOne
  <1>14. CASE SweepClose(p)
    <2>1. /\ tick'[p].pc = "close"
          /\ \E i \in tick[p].stale : /\ rows'[i].status = "resolved"
                                      /\ \A j \in Problem : j # i => rows'[j] = rows[j]
      BY <1>0, <1>14, SweepCloseDoes
    <2>2. \A j \in Problem : Unresolved(rows'[j]) => Claimed(j)
      BY <1>2, <2>1 DEF Unresolved
    <2>3. ~Reopens(p)' /\ ~Opening(p)' /\ Closing(p)'
      BY <2>1 DEF Reopens, Opening, Closing
    <2> QED
      BY <1>0, <2>2, <2>3, TickOne
  <1>15. CASE writeHeartbeat(p)
    <2>1. tick[p].pc = "close" /\ tick'[p].pc = "idle" /\ UNCHANGED <<rows, mem>>
      BY <1>0, <1>15, HeartbeatDoes
    <2>2. mem[p].lastTickAt # None /\ now < mem[p].lastTickAt + Interval
      BY <1>0, <1>1, <2>1, Constants DEF Ticking
    <2>3. ~Reopens(p)' /\ ~Opening(p)' /\ Closing(p)'
      BY <1>0, <2>1, <2>2 DEF Reopens, Opening, Closing
    <2> QED
      BY <1>0, <1>2, <2>1, <2>3, TickOne
  <1> QED
    BY <1>6, <1>7, <1>8, <1>9, <1>10, <1>11, <1>12, <1>13, <1>14, <1>15 DEF Tick

\* Operators, leadership and time claim nothing new.
LEMMA OtherOneOpen ==
  ASSUME OneOpenInv,
         \/ \E p \in Pod : Elect(p) \/ Demote(p) \/ Restart(p)
         \/ \E i \in Problem : AskAcknowledge(i) \/ AskResolve(i)
         \/ AcknowledgeProblems \/ ResolveProblems
         \/ Advance
         \/ UNCHANGED vars
  PROVE  OneOpenInv'
  <1>0. LifeInv /\ LifeInv' /\ TypeOK /\ Requested /\ LateAck /\ \A q \in Pod : Ticking(q)
    BY OtherLife DEF OneOpenInv, LifeInv
  <1>1. ASSUME UNCHANGED <<rows, request, tick>>, LateAck' PROVE OneOpenInv'
    <2>1. \A i \in Problem : Claimed(i)' => Claimed(i)
      BY <1>1 DEF Claimed, Reopens
    <2>2. \A q \in Pod : Opening(q)' => Opening(q)
      BY <1>1 DEF Opening
    <2> QED
      BY <1>0, <1>1, <2>1, <2>2, NothingClaimed
  <1>2. ASSUME NEW p \in Pod, Elect(p) PROVE OneOpenInv'
    <2>1. UNCHANGED <<rows, request, tick>> /\ request.pc = "idle"
      BY <1>2 DEF Elect, podVars
    <2>2. LateAck'
      BY <2>1 DEF LateAck
    <2> QED
      BY <1>1, <2>1, <2>2
  <1>3. ASSUME NEW p \in Pod, Demote(p) \/ Restart(p) PROVE OneOpenInv'
    <2>1. /\ OthersTick(p) /\ OthersMem(p) /\ tick'[p].pc = "idle"
          /\ leader' # p /\ (leader # p => leader' = leader) /\ (leader = p => leader' = NoPod)
          /\ UNCHANGED <<now, rows, request>>
      BY <1>0, <1>3, LeaveDoes
    <2>2. ASSUME NEW i \in Problem, Claimed(i)' PROVE Claimed(i)
      <3>1. ASSUME NEW q \in Pod, Reopens(q)', tick'[q].open = i PROVE Reopens(q) /\ tick[q].open = i
        BY <2>1, <3>1 DEF Reopens, OthersTick
      <3> QED
        BY <2>1, <2>2, <3>1 DEF Claimed
    <2>3. \A q \in Pod : Opening(q)' => Opening(q)
      BY <2>1 DEF Opening, OthersTick
    <2>4. LateAck'
      <3>1. SUFFICES ASSUME request.pc = "acknowledge", ~Unresolved(rows[request.problem]),
                            NEW q \in Pod, leader' = q
                     PROVE  Closing(q)'
        BY <2>1 DEF LateAck
      <3>2. q # p /\ leader = q
        BY <2>1, <3>1, Constants
      <3>3. Closing(q) /\ tick'[q] = tick[q] /\ mem'[q] = mem[q]
        BY <1>0, <2>1, <3>1, <3>2 DEF LateAck, OthersTick, OthersMem
      <3> QED
        BY <2>1, <3>3 DEF Closing
    <2> QED
      BY <1>0, <2>2, <2>3, <2>4, NothingClaimed
  <1>4. ASSUME NEW i \in Problem, AskAcknowledge(i) \/ AskResolve(i) PROVE OneOpenInv'
    <2>1. request'.problem = i /\ Unresolved(rows[i]) /\ UNCHANGED <<rows, tick>>
      BY <1>0, <1>4, AskDoes
    <2>2. \A j \in Problem : Claimed(j)' => Claimed(j)
      BY <2>1 DEF Claimed, Reopens
    <2>3. \A q \in Pod : Opening(q)' => Opening(q)
      BY <2>1 DEF Opening
    <2>4. LateAck'
      BY <2>1 DEF LateAck
    <2> QED
      BY <1>0, <2>2, <2>3, <2>4, NothingClaimed
  <1>5. CASE AcknowledgeProblems \/ ResolveProblems
    <2>0. request.problem \in Problem
      BY <1>0, <1>5 DEF Requested, AcknowledgeProblems, ResolveProblems
    <2>1. /\ request'.pc = "idle" /\ UNCHANGED tick
          /\ \A j \in Problem : j # request.problem => rows'[j] = rows[j]
          /\ \/ request.pc = "acknowledge"
             \/ rows'[request.problem].status = "resolved"
      BY <1>0, <1>5, <2>0, AnswerDoes, FreshTypes
    <2>2. ASSUME NEW j \in Problem, Claimed(j)' PROVE Claimed(j)
      <3>1. Unresolved(rows'[j]) => Claimed(j)
        BY <2>1 DEF Claimed, Unresolved
      <3> QED
        BY <2>1, <2>2, <3>1 DEF Claimed, Reopens
    <2>3. \A q \in Pod : Opening(q)' => Opening(q)
      BY <2>1 DEF Opening
    <2>4. LateAck'
      BY <2>1 DEF LateAck
    <2> QED
      BY <1>0, <2>2, <2>3, <2>4, NothingClaimed
  <1>6. CASE Advance
    <2>1. UNCHANGED <<rows, request, tick>> /\ request.pc = "idle"
      BY <1>6 DEF Advance, podVars
    <2>2. LateAck'
      BY <2>1 DEF LateAck
    <2> QED
      BY <1>1, <2>1, <2>2
  <1>7. CASE UNCHANGED vars
    <2>1. UNCHANGED <<rows, request, tick, leader, mem, now>>
      BY <1>7 DEF vars
    <2>2. LateAck'
      BY <1>0, <2>1 DEF LateAck, Closing
    <2> QED
      BY <1>1, <2>1, <2>2
  <1> QED
    BY <1>2, <1>3, <1>4, <1>5, <1>6, <1>7

\* OneOpen for any number of pods, problems, leader changes and crashes,
\* operators included, provided that a tick ends before the next one is due:
\* an acknowledgement still on its way when a second tick starts could revive
\* the problem the first one resolved beside the one the second opens.
THEOREM AlertOneOpen ==
  ASSUME MaxTick < Interval
  PROVE  Spec => []OneOpen
  <1>1. Init => OneOpenInv
    <2>1. SUFFICES ASSUME Init PROVE OneOpenInv
      OBVIOUS
    <2>2. LifeInv
      BY <2>1, LifeInit
    <2>3. \A i \in Problem : ~Claimed(i)
      BY <2>1, FreshTypes DEF Init, Claimed, Reopens
    <2>4. LateAck
      BY <2>1, FreshTypes DEF Init, LateAck
    <2> QED
      BY <2>2, <2>3, <2>4 DEF OneOpenInv, OneClaim, NoClaim
  <1>2. OneOpenInv /\ [Next]_vars => OneOpenInv'
    BY TickOneOpen, OtherOneOpen DEF Next
  <1>3. OneOpenInv => OneOpen
    BY DEF OneOpenInv, OneClaim, OneOpen, Claimed
  <1> QED
    BY <1>1, <1>2, <1>3, PTL DEF Spec

-----------------------------------------------------------------------------
(* The cooldown.                                                           *)

\* A step that stamps nothing: the memories stay or forget.
LEMMA StampsStay ==
  ASSUME CooldownInv, LifeInv', UNCHANGED resolvedOn, mirror'["resolved"] = mirror["resolved"],
         now' \in Nat, now' >= now,
         \A q \in Pod : /\ mem'[q].resolved \in {None, mem[q].resolved}
                        /\ leader' # q => leader # q \/ mem'[q].resolved = None
                        /\ tick'[q].pc = "open" => tick[q].pc = "open"
  PROVE  CooldownInv'
  <1>0. Stamped /\ now \in Nat /\ resolvedOn \in Nat /\ CooldownSec \in Nat
    BY TypeFacts, Constants DEF CooldownInv, LifeInv
  <1>1. Stamped'
    BY <1>0 DEF Stamped
  <1>2. ASSUME NEW q \in Pod PROVE Remembers(q)'
    <2>1. Remembers(q)
      BY DEF CooldownInv
    <2> QED
      BY <1>0, <2>1 DEF Remembers
  <1> QED
    BY <1>1, <1>2 DEF CooldownInv

\* The cooldown gate: the stamp it finds is the last resolve, or that is long
\* past.
LEMMA GateKeeps ==
  ASSUME CooldownInv, NEW p \in Pod, CooldownGate(p)
  PROVE  CooldownInv'
  <1>0. /\ TypeOK /\ LifeInv /\ Stamped /\ Remembers(p) /\ Ticking(p)
        /\ now \in Nat /\ resolvedOn \in Nat /\ tick[p].at \in Nat /\ mem[p].resolved \in Nat
    BY TickFields, TypeFacts, Constants DEF CooldownInv, LifeInv
  <1>1. Tick(p)
    BY DEF Tick
  <1>2. LifeInv' /\ leader = p /\ UNCHANGED <<now, leader>> /\ OthersTick(p) /\ OthersMem(p)
    BY <1>0, <1>1, TickLife
  <1>3. /\ tick[p].pc = "cooldown" /\ mem'[p].resolved \in {mem[p].resolved, resolvedAt(p)}
        /\ \/ Ended(p)
           \/ /\ Carries(p) /\ tick'[p].pc = "open"
              /\ \/ CooldownSec = 0 \/ resolvedAt(p) = None
                 \/ tick[p].at - resolvedAt(p) >= CooldownSec
        /\ UNCHANGED <<now, mirror, leader, resolvedOn>>
    BY <1>0, CooldownDoes
  <1>4. resolvedOn # None =>
          /\ resolvedAt(p) \in {None, resolvedOn}
          /\ resolvedAt(p) = None => now >= resolvedOn + CooldownSec
    <2>1. SUFFICES ASSUME resolvedOn # None
                   PROVE  /\ resolvedAt(p) \in {None, resolvedOn}
                          /\ resolvedAt(p) = None => now >= resolvedOn + CooldownSec
      OBVIOUS
    <2>2. /\ mirror["resolved"].at = resolvedOn
          /\ mirror["resolved"].until = resolvedOn + stampTTL(CooldownSec)
      BY <1>0, <2>1 DEF Stamped
    <2>3. mem[p].resolved \in {None, resolvedOn}
      BY <1>0, <2>1 DEF Remembers
    <2> QED
      BY <1>0, <2>1, <2>2, <2>3, Constants DEF resolvedAt, stampGet
  <1>5. tick[p].at <= now
    BY <1>0, <1>3 DEF Ticking
  <1>6. tick'[p].pc = "open" => resolvedOn = None \/ now - resolvedOn >= CooldownSec
    BY <1>0, <1>3, <1>4, <1>5, Constants DEF Ended, Stamped
  <1>7. ASSUME NEW q \in Pod PROVE Remembers(q)'
    <2>1. CASE q = p
      <3>1. resolvedOn # None => mem'[p].resolved \in {None, resolvedOn}
        BY <1>0, <1>3, <1>4 DEF Remembers
      <3> QED
        BY <1>2, <1>3, <1>6, <2>1, <3>1 DEF Remembers
    <2>2. CASE q # p
      <3>1. Remembers(q) /\ mem'[q] = mem[q] /\ tick'[q] = tick[q]
        BY <1>2, <2>2 DEF CooldownInv, OthersMem, OthersTick
      <3> QED
        BY <1>2, <1>3, <3>1 DEF Remembers
    <2> QED
      BY <2>1, <2>2
  <1>8. Stamped'
    BY <1>0, <1>3 DEF Stamped
  <1> QED
    BY <1>2, <1>7, <1>8 DEF CooldownInv

\* Steps that write the stamps: a resolve by the leader, who alone remembers,
\* and the sweep, which makes it forgotten.
LEMMA StampKeeps ==
  ASSUME CooldownInv, NEW p \in Pod, stampResolved(p) \/ SweepClose(p)
  PROVE  CooldownInv'
  <1>0. TypeOK /\ LifeInv /\ now \in Nat /\ now # None
    BY TypeFacts, Constants DEF CooldownInv, LifeInv, Time, None
  <1>1. Tick(p)
    BY DEF Tick
  <1>2. LifeInv' /\ leader = p /\ UNCHANGED <<now, leader>> /\ OthersTick(p) /\ OthersMem(p)
    BY <1>0, <1>1, TickLife
  <1>3. \/ /\ resolvedOn' = now /\ mem'[p].resolved = now
           /\ mirror'["resolved"] = [at |-> now, until |-> now + stampTTL(CooldownSec)]
        \/ resolvedOn' = None /\ mem'[p].resolved = None
    BY <1>0, StampDoes, SweepCloseDoes
  <1>4. tick'[p].pc # "open"
    BY <1>0, StampDoes, SweepCloseDoes DEF Ended
  <1>5. Stamped'
    BY <1>0, <1>2, <1>3, Constants DEF Stamped
  <1>6. ASSUME NEW q \in Pod PROVE Remembers(q)'
    <2>1. CASE q = p
      BY <1>2, <1>3, <1>4, <2>1 DEF Remembers
    <2>2. CASE q # p
      <3>1. Remembers(q) /\ Ticking(q) /\ mem'[q] = mem[q] /\ tick'[q] = tick[q]
        BY <1>2, <2>2 DEF CooldownInv, LifeInv, OthersMem, OthersTick
      <3>2. mem[q].resolved = None /\ tick[q].pc = "idle"
        BY <1>2, <2>2, <3>1 DEF Remembers, Ticking
      <3> QED
        BY <3>1, <3>2 DEF Remembers
    <2> QED
      BY <2>1, <2>2
  <1> QED
    BY <1>2, <1>5, <1>6 DEF CooldownInv

\* The other steps of a tick.
LEMMA TickCooldown ==
  ASSUME CooldownInv, NEW p \in Pod, Tick(p)
  PROVE  CooldownInv'
  <1>0. TypeOK /\ LifeInv /\ Ticking(p) /\ now \in Nat /\ tick[p].open \in Problem \union {0}
    BY TypeFacts, TickFields, Constants DEF CooldownInv, LifeInv
  <1>1. LifeInv' /\ leader = p /\ UNCHANGED <<now, leader>> /\ OthersTick(p) /\ OthersMem(p)
    BY <1>0, TickLife
  <1>2. ASSUME UNCHANGED resolvedOn, mirror'["resolved"] = mirror["resolved"],
               mem'[p].resolved = mem[p].resolved, tick'[p].pc # "open"
        PROVE  CooldownInv'
    <2>1. ASSUME NEW q \in Pod
          PROVE  /\ mem'[q].resolved \in {None, mem[q].resolved}
                 /\ leader' # q => leader # q \/ mem'[q].resolved = None
                 /\ tick'[q].pc = "open" => tick[q].pc = "open"
      BY <1>1, <1>2 DEF OthersMem, OthersTick
    <2> QED
      BY <1>0, <1>1, <1>2, <2>1, StampsStay
  <1>3. CASE Begin(p)
    BY <1>0, <1>2, <1>3, BeginDoes
  <1>4. CASE OpenProblemsSnapshot(p)
    BY <1>0, <1>2, <1>4, SnapshotDoes
  <1>5. ASSUME NEW s \in Signal, Measure(p, s) PROVE CooldownInv'
    <2>1. /\ mem'[p].resolved = mem[p].resolved /\ mirror'["resolved"] = mirror["resolved"]
          /\ UNCHANGED resolvedOn /\ tick'[p].pc # "open"
      BY <1>0, <1>5, MeasureDoes DEF MemKept, Ended
    <2> QED
      BY <1>2, <2>1
  <1>6. CASE CooldownGate(p)
    BY <1>6, GateKeeps
  <1>7. CASE Open(p)
    BY <1>0, <1>2, <1>7, OpenDoes DEF Ended
  <1>8. CASE Refresh(p)
    <2>1. tick[p].open \in Problem
      BY <1>0, <1>8 DEF Refresh, Ticking
    <2> QED
      BY <1>0, <1>2, <1>8, <2>1, RefreshDoes DEF Ended
  <1>9. CASE Resolve(p)
    <2>1. tick[p].open \in Problem
      BY <1>0, <1>9 DEF Resolve, Ticking
    <2> QED
      BY <1>0, <1>2, <1>9, <2>1, ResolveDoes
  <1>10. CASE stampResolved(p) \/ SweepClose(p)
    BY <1>10, StampKeeps
  <1>11. CASE SweepList(p)
    BY <1>0, <1>2, <1>11, SweepListDoes
  <1>12. CASE writeHeartbeat(p)
    BY <1>0, <1>2, <1>12, HeartbeatDoes
  <1> QED
    BY <1>3, <1>4, <1>5, <1>6, <1>7, <1>8, <1>9, <1>10, <1>11, <1>12 DEF Tick

\* Operators, leadership and time, if a pod that loses the lease restarts.
LEMMA OtherCooldown ==
  ASSUME CooldownInv, ~Bounce,
         \/ \E p \in Pod : Elect(p) \/ Demote(p) \/ Restart(p)
         \/ \E i \in Problem : AskAcknowledge(i) \/ AskResolve(i)
         \/ AcknowledgeProblems \/ ResolveProblems
         \/ Advance
         \/ UNCHANGED vars
  PROVE  CooldownInv'
  <1>0. LifeInv /\ LifeInv' /\ TypeOK /\ Requested /\ now \in Nat
    BY OtherLife, TypeFacts, Constants DEF CooldownInv, LifeInv
  <1>1. ASSUME UNCHANGED <<resolvedOn, mirror, mem, tick>>, now' \in {now, now + 1},
               leader' = leader \/ leader = NoPod
        PROVE  CooldownInv'
    <2>1. ASSUME NEW q \in Pod
          PROVE  /\ mem'[q].resolved \in {None, mem[q].resolved}
                 /\ leader' # q => leader # q \/ mem'[q].resolved = None
                 /\ tick'[q].pc = "open" => tick[q].pc = "open"
      BY <1>1, Constants
    <2>2. now' \in Nat /\ now' >= now
      BY <1>0, <1>1
    <2> QED
      BY <1>0, <1>1, <2>1, <2>2, StampsStay
  <1>2. ASSUME NEW p \in Pod, Elect(p) PROVE CooldownInv'
    BY <1>1, <1>2 DEF Elect, podVars
  <1>3. ASSUME NEW p \in Pod, Demote(p) \/ Restart(p) PROVE CooldownInv'
    <2>1. /\ OthersTick(p) /\ OthersMem(p) /\ tick'[p].pc = "idle"
          /\ leader' # p /\ (leader # p => leader' = leader) /\ (leader = p => leader' = NoPod)
          /\ mem'[p].resolved = None
          /\ UNCHANGED <<now, mirror, resolvedOn>>
      BY <1>0, <1>3, LeaveDoes
    <2>2. ASSUME NEW q \in Pod
          PROVE  /\ mem'[q].resolved \in {None, mem[q].resolved}
                 /\ leader' # q => leader # q \/ mem'[q].resolved = None
                 /\ tick'[q].pc = "open" => tick[q].pc = "open"
      BY <2>1 DEF OthersTick, OthersMem
    <2> QED
      BY <1>0, <2>1, <2>2, StampsStay
  <1>4. ASSUME NEW i \in Problem, AskAcknowledge(i) \/ AskResolve(i) PROVE CooldownInv'
    BY <1>0, <1>1, <1>4, AskDoes
  <1>5. CASE AcknowledgeProblems \/ ResolveProblems
    BY <1>1, <1>5 DEF AcknowledgeProblems, ResolveProblems, podVars
  <1>6. CASE Advance
    BY <1>1, <1>6 DEF Advance, podVars
  <1>7. CASE UNCHANGED vars
    BY <1>1, <1>7 DEF vars
  <1> QED
    BY <1>2, <1>3, <1>4, <1>5, <1>6, <1>7

\* Only Open writes a row that was not there.
LEMMA NewProblem ==
  ASSUME LifeInv, Next, NEW i \in Problem, rows[i] = NoRow, rows'[i] # NoRow
  PROVE  \E p \in Pod : Open(p) /\ tick[p].pc = "open"
  <1>0. TypeOK /\ Requested /\ rows[i].status = "none" /\ rows'[i] # rows[i]
    BY FreshTypes DEF LifeInv
  <1>1. ASSUME NEW p \in Pod, Tick(p) PROVE Open(p)
    <2>0. Ticking(p) /\ tick[p].open \in Problem \union {0} /\ tick[p].stale \subseteq Problem
      BY <1>0, TickFields DEF LifeInv
    <2>1. ~Refresh(p)
      <3>1. SUFFICES ASSUME Refresh(p) PROVE FALSE
        OBVIOUS
      <3>2. tick[p].open \in Problem /\ tick[p].open # i
        BY <1>0, <2>0, <3>1 DEF Refresh, Ticking
      <3> QED
        BY <1>0, <3>1, <3>2, RefreshDoes
    <2>2. ~Resolve(p)
      <3>1. SUFFICES ASSUME Resolve(p) PROVE FALSE
        OBVIOUS
      <3>2. tick[p].open \in Problem /\ tick[p].open # i
        BY <1>0, <2>0, <3>1 DEF Resolve, Ticking
      <3> QED
        BY <1>0, <3>1, <3>2, ResolveDoes
    <2>3. ~SweepClose(p)
      <3>1. SUFFICES ASSUME SweepClose(p) PROVE FALSE
        OBVIOUS
      <3>2. PICK j \in tick[p].stale : \A k \in Problem : k # j => rows'[k] = rows[k]
        BY <1>0, <3>1, SweepCloseDoes
      <3>3. rows[j].status # "none"
        BY <2>0, <3>2 DEF Ticking
      <3> QED
        BY <1>0, <3>2, <3>3
    <2>4. ~(Begin(p) \/ OpenProblemsSnapshot(p) \/ (\E s \in Signal : Measure(p, s)) \/ CooldownGate(p)
              \/ stampResolved(p) \/ SweepList(p) \/ writeHeartbeat(p))
      BY <1>0 DEF Begin, OpenProblemsSnapshot, Measure, CooldownGate, stampResolved, SweepList,
                  writeHeartbeat
    <2> QED
      BY <1>1, <2>1, <2>2, <2>3, <2>4 DEF Tick
  <1>2. ~AcknowledgeProblems /\ ~ResolveProblems
    <2>1. SUFFICES ASSUME AcknowledgeProblems \/ ResolveProblems PROVE FALSE
      OBVIOUS
    <2>2. request.problem \in Problem /\ rows[request.problem].status # "none"
      BY <1>0, <2>1 DEF Requested, AcknowledgeProblems, ResolveProblems
    <2>3. \A j \in Problem : j # request.problem => rows'[j] = rows[j]
      BY <1>0, <2>1, <2>2, AnswerDoes
    <2> QED
      BY <1>0, <2>2, <2>3
  <1>3. ~Advance /\ \A p \in Pod : ~Elect(p) /\ ~Demote(p) /\ ~Restart(p)
    BY <1>0 DEF Advance, Elect, Demote, Restart
  <1>4. \A j \in Problem : ~AskAcknowledge(j) /\ ~AskResolve(j)
    BY <1>0 DEF AskAcknowledge, AskResolve
  <1>5. PICK p \in Pod : Open(p)
    BY <1>1, <1>2, <1>3, <1>4 DEF Next
  <1> QED
    BY <1>5 DEF Open

\* CooldownKept for any number of pods and any timing, ticks of any length
\* included, if a pod that loses leadership comes back with empty memory: the
\* stamp in the mirror outlives the cooldown, and no stale one is remembered.
\* It is about resolves that were stamped: one whose pod died first has none.
THEOREM AlertCooldown ==
  ASSUME ~Bounce
  PROVE  Spec => CooldownKept
  <1> DEFINE Kept == \A i \in Problem : rows[i] = NoRow /\ rows'[i] # NoRow
                       => resolvedOn = None \/ now - resolvedOn >= CooldownSec
  <1>1. Init => CooldownInv
    <2>1. SUFFICES ASSUME Init PROVE CooldownInv
      OBVIOUS
    <2>2. LifeInv
      BY <2>1, LifeInit
    <2>3. Stamped
      BY <2>1, Constants DEF Init, Stamped
    <2>4. \A p \in Pod : Remembers(p)
      BY <2>1, FreshTypes DEF Init, Remembers
    <2> QED
      BY <2>2, <2>3, <2>4 DEF CooldownInv
  <1>2. CooldownInv /\ [Next]_vars => CooldownInv'
    BY TickCooldown, OtherCooldown DEF Next
  <1>3. CooldownInv /\ [Next]_vars => [Kept]_vars
    <2>1. SUFFICES ASSUME CooldownInv, Next, NEW i \in Problem, rows[i] = NoRow, rows'[i] # NoRow
                   PROVE  resolvedOn = None \/ now - resolvedOn >= CooldownSec
      OBVIOUS
    <2>2. PICK p \in Pod : tick[p].pc = "open"
      BY <2>1, NewProblem DEF CooldownInv
    <2> QED
      BY <2>1, <2>2 DEF CooldownInv, Remembers
  <1>4. Spec => [][Kept]_vars
    BY <1>1, <1>2, <1>3, PTL DEF Spec
  <1> QED
    BY <1>4 DEF CooldownKept

-----------------------------------------------------------------------------
(* The sweep.                                                              *)

\* A row that is written gets the time and the mark of the copy.
LEMMA UpsertWrites ==
  ASSUME TypeOK, NEW i \in Problem, NEW row \in Row, UpsertProblem(i, row)
  PROVE  /\ rows'[i].updated = now /\ rows'[i].silent = row.silent
         /\ \A j \in Problem : j # i => rows'[j] = rows[j]
  <1>1. rows \in [Problem -> Row] /\ now \in Moment
    BY TypeFacts, Constants
  <1> DEFINE r == [row EXCEPT !.updated = now]
  <1>2. r.updated = now /\ r.silent = row.silent
    BY <1>1 DEF Row
  <1>3. rows' = [rows EXCEPT ![i] = r]
    BY DEF UpsertProblem
  <1> HIDE DEF r
  <1> QED
    BY <1>1, <1>2, <1>3

\* Resolving and acknowledging leave the mark alone.
LEMMA MarkKept ==
  ASSUME NEW row \in Row
  PROVE  /\ MarkResolved(row).silent = row.silent
         /\ [row EXCEPT !.status = "acknowledged"].silent = row.silent
         /\ [row EXCEPT !.status = "open"].silent = row.silent
         /\ [row EXCEPT !.status = "acknowledged"] \in Row /\ [row EXCEPT !.status = "open"] \in Row
  BY DEF MarkResolved, Row, Status

\* A row stays, or is written now without the mark of silence.
Plain(i) == rows'[i] = rows[i] \/ (rows'[i].updated = now /\ ~rows'[i].silent)

\* Only the sweep marks a row as silent.
LEMMA TickWrites ==
  ASSUME LifeInv, Audible, NEW p \in Pod, Tick(p), ~SweepClose(p)
  PROVE  \A i \in Problem : Plain(i)
  <1>0. TypeOK /\ Ticking(p) /\ tick[p].open \in Problem \union {0} /\ tick[p].copy \in Row
    BY TickFields DEF LifeInv
  <1>1. CASE Open(p)
    <2>1. PICK i \in Problem : UpsertProblem(i, [NoRow EXCEPT !.status = "open"])
      BY <1>1 DEF Open
    <2>2. PICK c \in Row : c = [NoRow EXCEPT !.status = "open"] /\ c.silent = NoRow.silent
      BY FreshTypes, MarkKept
    <2>3. ~NoRow.silent
      BY DEF NoRow
    <2>4. rows'[i].updated = now /\ rows'[i].silent = c.silent /\ \A j \in Problem : j # i => rows'[j] = rows[j]
      BY <1>0, <2>1, <2>2, UpsertWrites
    <2> QED
      BY <2>2, <2>3, <2>4 DEF Plain
  <1>2. CASE Refresh(p) \/ Resolve(p)
    <2>1. PICK i \in Problem : i = tick[p].open /\ i # 0
      BY <1>0, <1>2, Constants DEF Refresh, Resolve, Ticking
    <2>2. ~tick[p].copy.silent
      BY <2>1 DEF Audible
    <2>3. PICK c \in Row : UpsertProblem(i, c) /\ c.silent = tick[p].copy.silent
      BY <1>0, <1>2, <2>1, MarkKept, MarkResolvedDoes DEF Refresh, Resolve
    <2>4. rows'[i].updated = now /\ rows'[i].silent = c.silent /\ \A j \in Problem : j # i => rows'[j] = rows[j]
      BY <1>0, <2>3, UpsertWrites
    <2> QED
      BY <2>2, <2>3, <2>4 DEF Plain
  <1>3. CASE rows' = rows
    BY <1>3 DEF Plain
  <1> QED
    BY <1>1, <1>2, <1>3 DEF Tick, Begin, OpenProblemsSnapshot, Measure, CooldownGate, stampResolved,
                            SweepList, writeHeartbeat

\* Operators, leadership and time do not.
LEMMA OtherWrites ==
  ASSUME LifeInv, Audible,
         \/ \E p \in Pod : Elect(p) \/ Demote(p) \/ Restart(p)
         \/ \E i \in Problem : AskAcknowledge(i) \/ AskResolve(i)
         \/ AcknowledgeProblems \/ ResolveProblems
         \/ Advance
         \/ UNCHANGED vars
  PROVE  \A i \in Problem : Plain(i)
  <1>0. TypeOK /\ Requested /\ request.copy \in Row
    BY TypeFacts DEF LifeInv
  <1>1. CASE AcknowledgeProblems \/ ResolveProblems
    <2>1. PICK i \in Problem : i = request.problem
      BY <1>0, <1>1 DEF AcknowledgeProblems, ResolveProblems, Requested
    <2>2. ~request.copy.silent
      BY <1>1 DEF Audible, AcknowledgeProblems, ResolveProblems
    <2>3. PICK c \in Row : UpsertProblem(i, c) /\ c.silent = request.copy.silent
      BY <1>0, <1>1, <2>1, MarkKept, MarkResolvedDoes DEF AcknowledgeProblems, ResolveProblems
    <2>4. rows'[i].updated = now /\ rows'[i].silent = c.silent /\ \A j \in Problem : j # i => rows'[j] = rows[j]
      BY <1>0, <2>3, UpsertWrites
    <2> QED
      BY <2>2, <2>3, <2>4 DEF Plain
  <1>2. CASE rows' = rows
    BY <1>2 DEF Plain
  <1> QED
    BY <1>1, <1>2 DEF Elect, Demote, Restart, AskAcknowledge, AskResolve, Advance, vars

\* The row the sweep closes: one listed, and resolved.
LEMMA CloseWrites ==
  ASSUME TypeOK, NEW p \in Pod, SweepClose(p)
  PROVE  \E i \in tick[p].stale :
           /\ rows'[i].status = "resolved" /\ rows'[i].updated = now
           /\ \A j \in Problem : j # i => rows'[j] = rows[j]
  <1>0. rows \in [Problem -> Row] /\ tick[p].stale \subseteq Problem
    BY TickFields, TypeFacts
  <1>1. PICK i \in tick[p].stale : UpsertProblem(i, [MarkResolved(rows[i]) EXCEPT !.silent = TRUE])
    BY DEF SweepClose
  <1>2. i \in Problem /\ rows[i] \in Row
    BY <1>0, <1>1
  <1>3. PICK d \in Row : d = MarkResolved(rows[i]) /\ d.status = "resolved"
    BY <1>2, MarkResolvedDoes
  <1>4. ASSUME NEW b \in BOOLEAN
        PROVE  [d EXCEPT !.silent = b] \in Row /\ [d EXCEPT !.silent = b].status = "resolved"
    BY <1>3 DEF Row
  <1>5. PICK c \in Row : c = [MarkResolved(rows[i]) EXCEPT !.silent = TRUE] /\ c.status = "resolved"
    <2>1. TRUE \in BOOLEAN
      OBVIOUS
    <2> QED
      BY <1>3, <1>4, <2>1
  <1>6. rows'[i].status = c.status /\ rows'[i].updated = now /\ \A j \in Problem : j # i => rows'[j] = rows[j]
    BY <1>1, <1>2, <1>5, UpsertDoes, UpsertWrites
  <1> QED
    BY <1>5, <1>6

\* The unresolved are not marked, once a step marks none but what it resolves.
LEMMA AudibleStays ==
  ASSUME LifeInv, Audible,
         \A i \in Problem : Plain(i) \/ ~Unresolved(rows'[i]),
         request'.pc # "idle" => request' = request \/ ~request'.copy.silent,
         \A q \in Pod : tick'[q].open # 0 =>
           \/ tick'[q].open = tick[q].open /\ tick'[q].copy = tick[q].copy
           \/ ~tick'[q].copy.silent
  PROVE  Audible'
  <1>1. ASSUME NEW i \in Problem, Unresolved(rows'[i]) PROVE ~rows'[i].silent
    <2>1. Plain(i)
      BY <1>1
    <2>2. CASE rows'[i] = rows[i]
      <3>1. Unresolved(rows[i])
        BY <1>1, <2>2
      <3> QED
        BY <2>2, <3>1 DEF Audible
    <2> QED
      BY <2>1, <2>2 DEF Plain
  <1>2. ASSUME request'.pc # "idle" PROVE ~request'.copy.silent
    BY <1>2 DEF Audible
  <1>3. ASSUME NEW q \in Pod, tick'[q].open # 0 PROVE ~tick'[q].copy.silent
    BY <1>3 DEF Audible
  <1> QED
    BY <1>1, <1>2, <1>3 DEF Audible

\* A step of a tick.
LEMMA TickAudible ==
  ASSUME LifeInv, Audible, NEW p \in Pod, Tick(p)
  PROVE  Audible'
  <1>0. /\ TypeOK /\ Ticking(p) /\ OthersTick(p) /\ request' = request
        /\ tick[p].open \in Problem \union {0}
    BY TickLife, TickFields DEF LifeInv
  <1>1. ASSUME NEW i \in Problem PROVE Plain(i) \/ ~Unresolved(rows'[i])
    <2>1. CASE SweepClose(p)
      <3>1. PICK j \in tick[p].stale : rows'[j].status = "resolved" /\ \A k \in Problem : k # j => rows'[k] = rows[k]
        BY <1>0, <2>1, CloseWrites
      <3> QED
        BY <3>1 DEF Plain, Unresolved
    <2>2. CASE ~SweepClose(p)
      BY <2>2, TickWrites
    <2> QED
      BY <2>1, <2>2
  <1>2. \/ tick'[p].open = 0
        \/ tick'[p].open = tick[p].open /\ tick'[p].copy = tick[p].copy
        \/ OpenProblemsSnapshot(p)
    <2>0. tick[p].pc \in {"refresh", "resolve"} => tick[p].open \in Problem
      BY <1>0 DEF Ticking
    <2>1. CASE Begin(p)
      BY <1>0, <2>1, BeginDoes DEF Carries
    <2>2. CASE OpenProblemsSnapshot(p)
      BY <2>2
    <2>3. ASSUME NEW s \in Signal, Measure(p, s)
          PROVE  tick'[p].open = 0 \/ (tick'[p].open = tick[p].open /\ tick'[p].copy = tick[p].copy)
      BY <1>0, <2>3, MeasureDoes DEF Carries, Ended
    <2>4. CASE CooldownGate(p)
      BY <1>0, <2>4, CooldownDoes DEF Carries, Ended
    <2>5. CASE Open(p)
      BY <1>0, <2>5, OpenDoes DEF Ended
    <2>6. CASE Refresh(p)
      <3>1. tick[p].open \in Problem
        BY <2>0, <2>6 DEF Refresh
      <3> QED
        BY <1>0, <2>6, <3>1, RefreshDoes DEF Ended
    <2>7. CASE Resolve(p)
      <3>1. tick[p].open \in Problem
        BY <2>0, <2>7 DEF Resolve
      <3> QED
        BY <1>0, <2>7, <3>1, ResolveDoes DEF Carries
    <2>8. CASE stampResolved(p)
      BY <1>0, <2>8, StampDoes DEF Ended
    <2>9. CASE SweepList(p)
      <3>1. tick[p].open = 0 /\ tick'[p].open = tick[p].open
        BY <1>0, <2>9, SweepListDoes DEF Ticking
      <3> QED
        BY <3>1
    <2>10. CASE SweepClose(p)
      <3>1. tick[p].open = 0 /\ tick'[p].open = tick[p].open
        BY <1>0, <2>10, SweepCloseDoes DEF Ticking
      <3> QED
        BY <3>1
    <2>11. CASE writeHeartbeat(p)
      BY <1>0, <2>11, HeartbeatDoes
    <2> QED
      BY <2>1, <2>2, <2>3, <2>4, <2>5, <2>6, <2>7, <2>8, <2>9, <2>10, <2>11 DEF Tick
  <1>3. ASSUME OpenProblemsSnapshot(p), tick'[p].open # 0 PROVE ~tick'[p].copy.silent
    <2>1. PICK j \in Problem : j = tick'[p].open /\ Unresolved(rows[j]) /\ tick'[p].copy = rows[j]
      BY <1>0, <1>3, SnapshotDoes
    <2> QED
      BY <2>1 DEF Audible
  <1>4. ASSUME NEW q \in Pod, tick'[q].open # 0
        PROVE  \/ tick'[q].open = tick[q].open /\ tick'[q].copy = tick[q].copy
               \/ ~tick'[q].copy.silent
    BY <1>0, <1>2, <1>3, <1>4 DEF OthersTick
  <1> QED
    BY <1>0, <1>1, <1>4, AudibleStays

\* Any other step.
LEMMA OtherAudible ==
  ASSUME LifeInv, Audible,
         \/ \E p \in Pod : Elect(p) \/ Demote(p) \/ Restart(p)
         \/ \E i \in Problem : AskAcknowledge(i) \/ AskResolve(i)
         \/ AcknowledgeProblems \/ ResolveProblems
         \/ Advance
         \/ UNCHANGED vars
  PROVE  Audible'
  <1>0. TypeOK /\ \A i \in Problem : Plain(i)
    BY OtherWrites DEF LifeInv
  <1>1. request'.pc # "idle" => request' = request \/ ~request'.copy.silent
    <2>1. ASSUME NEW i \in Problem, AskAcknowledge(i) \/ AskResolve(i) PROVE ~request'.copy.silent
      <3>1. Unresolved(rows[i]) /\ request'.copy = rows[i]
        BY <2>1 DEF AskAcknowledge, AskResolve, Unresolved
      <3> QED
        BY <3>1 DEF Audible
    <2>2. AcknowledgeProblems \/ ResolveProblems => request'.pc = "idle"
      BY DEF AcknowledgeProblems, ResolveProblems, NoRequest
    <2> QED
      BY <2>1, <2>2 DEF Elect, Demote, Restart, Advance, vars
  <1>2. ASSUME NEW q \in Pod
        PROVE  tick'[q].open # 0 => tick'[q].open = tick[q].open /\ tick'[q].copy = tick[q].copy
    <2>1. ASSUME NEW p \in Pod, Demote(p) \/ Restart(p)
          PROVE  tick'[q].open # 0 => tick'[q].open = tick[q].open /\ tick'[q].copy = tick[q].copy
      BY <1>0, <2>1, LeaveDoes DEF OthersTick
    <2>2. CASE tick' = tick
      BY <2>2
    <2> QED
      BY <2>1, <2>2 DEF Elect, AskAcknowledge, AskResolve, AcknowledgeProblems, ResolveProblems,
                        Advance, podVars, vars
  <1> QED
    BY <1>0, <1>1, <1>2, AudibleStays

\* A breach being measured was so before, and its row stays, or the row is
\* written.
Shift == \A i \in Problem : Breaching(i)' =>
           rows'[i].updated = now \/ (Breaching(i) /\ rows'[i] = rows[i])

\* The step of a tick that opens or refreshes a row leaves no other unresolved.
LEMMA Freshened ==
  ASSUME SweepInv, NEW p \in Pod, Open(p) \/ Refresh(p)
  PROVE  \A i \in Problem : Unresolved(rows'[i]) => rows'[i].updated = now
  <1>0. /\ TypeOK /\ LifeInv /\ Ticking(p) /\ OneClaim /\ NoClaim /\ Audible
        /\ tick[p].open \in Problem \union {0}
    BY TickFields DEF SweepInv, OneOpenInv, LifeInv
  <1>1. SUFFICES ASSUME NEW i \in Problem, Unresolved(rows'[i]), rows'[i].updated # now PROVE FALSE
    OBVIOUS
  <1>2. Tick(p) /\ ~SweepClose(p)
    BY DEF Tick, Open, Refresh, SweepClose
  <1>3. rows'[i] = rows[i]
    BY <1>0, <1>1, <1>2, TickWrites DEF Plain
  <1>4. Claimed(i)
    BY <1>1, <1>3 DEF Claimed
  <1>5. CASE Open(p)
    BY <1>0, <1>4, <1>5 DEF NoClaim, Opening, Open
  <1>6. CASE Refresh(p)
    <2>1. tick[p].open \in Problem /\ tick[p].pc = "refresh"
      BY <1>0, <1>6 DEF Refresh, Ticking
    <2>2. Claimed(tick[p].open)
      BY <2>1, Constants DEF Claimed, Reopens
    <2>3. i = tick[p].open
      BY <1>0, <1>4, <2>1, <2>2 DEF OneClaim
    <2>4. tick[p].copy \in Row
      BY <1>0, TickFields
    <2>5. UpsertProblem(i, tick[p].copy)
      BY <1>6, <2>3 DEF Refresh
    <2> QED
      BY <1>0, <1>1, <2>4, <2>5, UpsertWrites
  <1> QED
    BY <1>5, <1>6

\* A step of a tick shifts rows only as said.
LEMMA TickShift ==
  ASSUME SweepInv, NEW p \in Pod, Tick(p)
  PROVE  Shift
  <1>0. TypeOK /\ LifeInv /\ Audible
    BY DEF SweepInv, OneOpenInv, LifeInv
  <1>1. CASE Open(p) \/ Refresh(p)
    BY <1>1, Freshened DEF Shift, Breaching
  <1>2. CASE ~Open(p) /\ ~Refresh(p)
    <2>1. quiet => quiet'
      BY <1>2 DEF Tick, Begin, OpenProblemsSnapshot, Measure, CooldownGate, Resolve, stampResolved,
                  SweepList, SweepClose, writeHeartbeat
    <2>2. ASSUME NEW i \in Problem PROVE rows'[i] = rows[i] \/ rows'[i].updated = now
      <3>1. CASE SweepClose(p)
        BY <1>0, <3>1, CloseWrites
      <3>2. CASE ~SweepClose(p)
        BY <1>0, <3>2, TickWrites DEF Plain
      <3> QED
        BY <3>1, <3>2
    <2> QED
      BY <2>1, <2>2 DEF Shift, Breaching
  <1> QED
    BY <1>1, <1>2

\* The numbers the sweep goes by.
LEMMA Ages ==
  ASSUME TypeOK
  PROVE  /\ now \in Nat /\ breachAt \in Nat /\ mirror["breach"].until \in Nat
         /\ \A i \in Problem : rows[i].updated \in Nat
         /\ \A p \in Pod : mem[p].lastTickAt \in Nat /\ mem[p].contSince \in Nat /\ mem[p].breach \in Nat
         /\ heartbeat.started \in Nat /\ heartbeat.contSince \in Nat
         /\ tickGapTolerance \in Nat /\ SweepAge \in Nat
  <1>1. now \in Nat /\ heartbeat.started \in Nat /\ heartbeat.contSince \in Nat
    BY TypeFacts, Constants
  <1>2. breachAt \in Nat /\ mirror["breach"].until \in Nat
    <2>1. mirror["breach"] \in Stamp
      BY TypeFacts DEF Stamps
    <2> QED
      BY <2>1, Constants DEF Stamp, breachAt, Moment
  <1>3. ASSUME NEW i \in Problem PROVE rows[i].updated \in Nat
    <2>1. rows[i] \in Row
      BY TypeFacts
    <2> QED
      BY <2>1, Constants DEF Row, Moment
  <1>4. ASSUME NEW p \in Pod
        PROVE  mem[p].lastTickAt \in Nat /\ mem[p].contSince \in Nat /\ mem[p].breach \in Nat
    BY TickFields, Constants
  <1> QED
    BY <1>1, <1>2, <1>3, <1>4, Constants DEF tickGapTolerance, SweepAge

\* What a tick has settled is pending when the next begins without a gap.
LEMMA NextTick ==
  ASSUME NEW u \in Nat, NEW b \in Nat, NEW t \in Nat, NEW c \in Nat, NEW n \in Nat,
         Settled(u, b, t, c), n - t <= tickGapTolerance
  PROVE  Pending(u, b, n, c)
  BY Constants DEF Settled, Pending, StampedSoon, tickGapTolerance

\* Written rows stay settled and pending, and so does all else.
LEMMA SettledStays ==
  ASSUME TypeOK, Shift, breachAt' = breachAt, NEW i \in Problem, Breaching(i)',
         NEW t \in Nat, NEW c \in Nat, t <= now
  PROVE  /\ (Breaching(i) => Settled(rows[i].updated, breachAt, t, c))
              => Settled(rows'[i].updated, breachAt', t, c)
         /\ (Breaching(i) => Pending(rows[i].updated, breachAt, t, c))
              => Pending(rows'[i].updated, breachAt', t, c)
  <1>1. now \in Nat /\ tickGapTolerance \in Nat
    BY Ages
  <1>2. CASE rows'[i].updated = now
    BY <1>1, <1>2 DEF Settled, Pending
  <1>3. CASE Breaching(i) /\ rows'[i] = rows[i]
    BY <1>3
  <1> QED
    BY <1>2, <1>3 DEF Shift

\* The heartbeat's word stays good, while it counts.
LEMMA BeatStays ==
  ASSUME TypeOK, Beat, Shift, breachAt' = breachAt, heartbeat' = heartbeat,
         now' \in Nat, now' >= now
  PROVE  Beat'
  <1>0. now \in Nat /\ heartbeat.started \in Nat /\ heartbeat.contSince \in Nat /\ tickGapTolerance \in Nat
    BY Ages
  <1>1. PICK t \in Nat, c \in Nat : t = heartbeat.started /\ c = heartbeat.contSince
    BY <1>0
  <1>2. ASSUME t # None
        PROVE  /\ c # None /\ c <= t /\ t <= now'
               /\ now' <= t + tickGapTolerance =>
                    \A i \in Problem : Breaching(i)' => Settled(rows'[i].updated, breachAt', t, c)
    <2>1. /\ c # None /\ c <= t /\ t <= now
          /\ now <= t + tickGapTolerance =>
               \A i \in Problem : Breaching(i) => Settled(rows[i].updated, breachAt, t, c)
      BY <1>1, <1>2 DEF Beat, Unbroken
    <2>2. ASSUME now' <= t + tickGapTolerance, NEW i \in Problem, Breaching(i)'
          PROVE  Settled(rows'[i].updated, breachAt', t, c)
      <3>1. Breaching(i) => Settled(rows[i].updated, breachAt, t, c)
        BY <1>0, <1>1, <2>1, <2>2
      <3> QED
        BY <2>1, <2>2, <3>1, SettledStays
    <2> QED
      BY <1>0, <1>1, <2>1, <2>2
  <1> QED
    BY <1>1, <1>2 DEF Beat, Unbroken

\* A step of the leader: the other pods remember nothing.
LEMMA LeaderSweep ==
  ASSUME SweepInv, OneOpenInv', NEW p \in Pod, Tick(p), mem'[p].lastTickAt # None,
         breachAt' <= now, breachAt' # None => mirror'["breach"].until = breachAt' + stampTTL(ForSec),
         mem'[p].breach # None => mem'[p].breach = breachAt',
         Beat', Follows(p)'
  PROVE  SweepInv'
  <1>0. LifeInv /\ Audible /\ leader = p /\ leader' = leader /\ now' = now /\ OthersTick(p) /\ OthersMem(p)
    BY TickLife DEF SweepInv, OneOpenInv
  <1>1. Audible'
    BY <1>0, TickAudible
  <1>2. ASSUME NEW q \in Pod, q # p
        PROVE  Forgets(q)' /\ Follows(q)' /\ mem'[q].breach = None
    <2>1. mem[q] = FreshMem /\ tick[q].pc = "idle" /\ mem'[q] = mem[q] /\ tick'[q] = tick[q]
      BY <1>0, <1>2 DEF SweepInv, Forgets, LifeInv, Ticking, OthersMem, OthersTick
    <2>2. FreshMem.breach = None /\ FreshMem.lastTickAt = None
      BY DEF FreshMem
    <2> QED
      BY <2>1, <2>2 DEF Forgets, Follows
  <1>3. Forgets(p)'
    BY <1>0 DEF Forgets
  <1>4. Mirrored'
    BY <1>0, <1>2 DEF Mirrored
  <1> QED
    BY <1>1, <1>2, <1>3, <1>4 DEF SweepInv

\* Steps that touch neither the breach stamps nor the continuity of ticks.
Calm(p) ==
  /\ mem'[p].breach = mem[p].breach /\ mem'[p].lastTickAt = mem[p].lastTickAt
  /\ mem'[p].contSince = mem[p].contSince
  /\ mirror'["breach"] = mirror["breach"] /\ heartbeat' = heartbeat

\* The steps that write the cooldown's stamp are among them.
LEMMA OnlyResolved ==
  ASSUME TypeOK, NEW p \in Pod, CooldownGate(p) \/ stampResolved(p) \/ SweepClose(p)
  PROVE  Calm(p)
  <1>0. mem \in [Pod -> MemRec] /\ mem[p] \in MemRec /\ mirror \in Stamps
    BY TypeFacts
  <1>1. ASSUME NEW x, mem' = [mem EXCEPT ![p].resolved = x]
        PROVE  /\ mem'[p].breach = mem[p].breach /\ mem'[p].lastTickAt = mem[p].lastTickAt
               /\ mem'[p].contSince = mem[p].contSince
    <2>1. mem'[p] = [mem[p] EXCEPT !.resolved = x]
      BY <1>0, <1>1
    <2> QED
      BY <1>0, <2>1 DEF MemRec
  <1>2. (\E x : mem' = [mem EXCEPT ![p].resolved = x]) \/ mem' = mem
    BY DEF CooldownGate, stampResolved, SweepClose
  <1>3. mirror'["breach"] = mirror["breach"] /\ heartbeat' = heartbeat
    BY <1>0 DEF CooldownGate, stampResolved, SweepClose, Stamps
  <1> QED
    BY <1>1, <1>2, <1>3 DEF Calm

\* What is left to show of such a step.
LEMMA CalmSweep ==
  ASSUME SweepInv, MaxTick < Interval, NEW p \in Pod, Tick(p), Calm(p), tick[p].pc # "idle", Follows(p)'
  PROVE  SweepInv'
  <1>0. /\ TypeOK /\ LifeInv /\ OneOpenInv /\ Ticking(p) /\ Mirrored /\ Beat /\ now' = now
        /\ breachAt' = breachAt
    BY TickLife DEF SweepInv, OneOpenInv, LifeInv, Calm, breachAt
  <1>1. OneOpenInv' /\ Shift
    BY <1>0, TickOneOpen, TickShift
  <1>2. Beat'
    BY <1>0, <1>1, Ages, BeatStays DEF Calm
  <1>3. mem'[p].lastTickAt # None
    BY <1>0 DEF Calm, Ticking
  <1>4. /\ breachAt' <= now /\ (breachAt' # None => mirror'["breach"].until = breachAt' + stampTTL(ForSec))
        /\ mem'[p].breach # None => mem'[p].breach = breachAt'
    BY <1>0 DEF Mirrored, Calm
  <1> QED
    BY <1>1, <1>2, <1>3, <1>4, LeaderSweep

\* The snapshot reads.
LEMMA SnapshotSweep ==
  ASSUME SweepInv, MaxTick < Interval, NEW p \in Pod, OpenProblemsSnapshot(p)
  PROVE  SweepInv'
  <1>0. TypeOK /\ Follows(p) /\ Tick(p)
    BY DEF SweepInv, OneOpenInv, LifeInv, Tick
  <1>1. /\ tick[p].pc = "snapshot" /\ tick'[p].pc = "measure"
        /\ UNCHANGED <<now, rows, mirror, heartbeat, leader, mem, request, resolvedOn, quiet>>
    BY <1>0, SnapshotDoes
  <1>2. Follows(p)'
    BY <1>0, <1>1 DEF Follows, Unbroken, Breaching, breachAt
  <1>3. Calm(p)
    BY <1>1 DEF Calm
  <1> QED
    BY <1>0, <1>1, <1>2, <1>3, CalmSweep

\* The gate ends the tick when nothing is unresolved, or goes on to open.
LEMMA GateSweep ==
  ASSUME SweepInv, MaxTick < Interval, NEW p \in Pod, CooldownGate(p)
  PROVE  SweepInv'
  <1>0. TypeOK /\ NoClaim /\ Follows(p) /\ Tick(p)
    BY DEF SweepInv, OneOpenInv, LifeInv, Tick
  <1>1. tick[p].pc = "cooldown" /\ tick'[p].pc \in {"sweep", "open"} /\ UNCHANGED <<now, rows, quiet>>
    BY <1>0, CooldownDoes DEF Ended
  <1>2. \A i \in Problem : ~Unresolved(rows[i])
    BY <1>0, <1>1 DEF NoClaim, Opening, Claimed
  <1>3. Calm(p)
    BY <1>0, OnlyResolved
  <1>4. Follows(p)'
    BY <1>0, <1>1, <1>2, <1>3 DEF Follows, Unbroken, Breaching, Calm
  <1> QED
    BY <1>0, <1>1, <1>3, <1>4, CalmSweep

\* A row is opened or refreshed, and no other is unresolved.
LEMMA FreshenSweep ==
  ASSUME SweepInv, MaxTick < Interval, NEW p \in Pod, Open(p) \/ Refresh(p)
  PROVE  SweepInv'
  <1>0. /\ TypeOK /\ Follows(p) /\ Tick(p) /\ Ticking(p)
        /\ now \in Nat /\ mem[p].lastTickAt \in Nat /\ tick[p].open \in Problem \union {0}
    BY Ages, TickFields DEF SweepInv, OneOpenInv, LifeInv, Tick
  <1>1. /\ tick[p].pc \in {"open", "refresh"} /\ UNCHANGED <<now, mem, mirror, heartbeat>>
        /\ Done(p)
    BY DEF Open, Refresh
  <1>2. tick'[p].pc = "sweep"
    BY <1>0, <1>1, DoneDoes
  <1>3. Calm(p)
    BY <1>1 DEF Calm
  <1>4. mem[p].lastTickAt # None /\ mem[p].lastTickAt <= now
    BY <1>0, <1>1 DEF Ticking, Follows, Unbroken
  <1>5. ASSUME NEW i \in Problem, Breaching(i)' PROVE rows'[i].updated >= mem[p].lastTickAt
    <2>1. rows'[i].updated = now
      BY <1>5, Freshened DEF Breaching
    <2> QED
      BY <1>0, <1>4, <2>1
  <1>6. Follows(p)'
    BY <1>0, <1>1, <1>2, <1>5 DEF Follows, Unbroken, Settled
  <1> QED
    BY <1>0, <1>1, <1>3, <1>6, CalmSweep

\* A resolve: the tick has seen no breach.
LEMMA ResolveSweep ==
  ASSUME SweepInv, MaxTick < Interval, NEW p \in Pod, Resolve(p) \/ stampResolved(p)
  PROVE  SweepInv'
  <1>0. TypeOK /\ Follows(p) /\ Tick(p) /\ Ticking(p) /\ tick[p].open \in Problem \union {0}
    BY TickFields DEF SweepInv, OneOpenInv, LifeInv, Tick
  <1>1. /\ tick[p].pc \in {"resolve", "stampResolved"} /\ tick'[p].pc \in {"stampResolved", "sweep"}
        /\ UNCHANGED <<now, quiet>>
    <2>1. tick[p].pc = "resolve" => tick[p].open \in Problem
      BY <1>0 DEF Ticking
    <2> QED
      BY <1>0, <2>1, ResolveDoes, StampDoes DEF Resolve, stampResolved, Ended
  <1>2. quiet /\ quiet'
    BY <1>0, <1>1 DEF Follows
  <1>3. Calm(p)
    BY <1>0, OnlyResolved DEF Resolve, Calm
  <1>4. Follows(p)'
    BY <1>0, <1>1, <1>2, <1>3 DEF Follows, Unbroken, Breaching, Calm
  <1> QED
    BY <1>0, <1>1, <1>3, <1>4, CalmSweep

\* What the sweep lists is old, and the ticks have been unbroken as long.
LEMMA ListFinds ==
  ASSUME TypeOK, NEW p \in Pod, SweepList(p)
  PROVE  \A i \in tick'[p].stale :
           /\ i \in Problem /\ Unresolved(rows[i])
           /\ rows[i].updated < now - SweepAge /\ now - mem[p].contSince >= SweepAge
  <1> DEFINE stale == IF sweepIsTrustworthy(p)
                      THEN {i \in Problem : Unresolved(rows[i]) /\ rows[i].updated < now - SweepAge}
                      ELSE {}
  <1>1. tick' = [tick EXCEPT ![p].pc = "close", ![p].stale = stale]
    BY DEF SweepList
  <1>2. \A i \in stale : /\ i \in Problem /\ Unresolved(rows[i])
                         /\ rows[i].updated < now - SweepAge /\ now - mem[p].contSince >= SweepAge
    BY DEF sweepIsTrustworthy
  <1> HIDE DEF stale
  <1>3. tick[p] \in TickRec /\ tick \in [Pod -> TickRec]
    BY TypeFacts
  <1>4. tick'[p] = [tick[p] EXCEPT !.pc = "close", !.stale = stale]
    BY <1>1, <1>3
  <1>5. tick'[p].stale = stale
    BY <1>3, <1>4 DEF TickRec
  <1> QED
    BY <1>2, <1>5

\* A row settled by this tick is not as old as that: the breach would have
\* been sustained, and the row refreshed, before.
LEMMA NotStale ==
  ASSUME NEW u \in Nat, NEW b \in Nat, NEW t \in Nat, NEW c \in Nat, NEW n \in Nat,
         Settled(u, b, t, c), n <= t + MaxTick, ForSec + 2 * MaxTick <= Interval,
         u < n - SweepAge
  PROVE  ~(n - c >= SweepAge)
  BY Constants DEF Settled, StampedSoon, tickGapTolerance, SweepAge

\* The sweep lists nothing unless some tick saw no breach.
LEMMA ListSweep ==
  ASSUME SweepInv, MaxTick < Interval, ForSec + 2 * MaxTick <= Interval, NEW p \in Pod, SweepList(p)
  PROVE  SweepInv'
  <1>0. TypeOK /\ Follows(p) /\ Tick(p) /\ Ticking(p)
    BY DEF SweepInv, OneOpenInv, LifeInv, Tick
  <1>1. /\ tick[p].pc = "sweep" /\ tick'[p].pc = "close"
        /\ UNCHANGED <<now, rows, mirror, heartbeat, leader, mem, request, resolvedOn, quiet>>
    BY <1>0, SweepListDoes
  <1>2. ASSUME NEW i \in tick'[p].stale, ~quiet PROVE FALSE
    <2>1. /\ i \in Problem /\ Unresolved(rows[i])
          /\ rows[i].updated < now - SweepAge /\ now - mem[p].contSince >= SweepAge
      BY <1>0, <1>2, ListFinds
    <2>2. mem[p].lastTickAt # None /\ now <= mem[p].lastTickAt + MaxTick
      BY <1>0, <1>1 DEF Ticking
    <2>3. Settled(rows[i].updated, breachAt, mem[p].lastTickAt, mem[p].contSince)
      BY <1>0, <1>1, <1>2, <2>1, <2>2 DEF Follows, Breaching
    <2>4. /\ rows[i].updated \in Nat /\ breachAt \in Nat /\ now \in Nat
          /\ mem[p].lastTickAt \in Nat /\ mem[p].contSince \in Nat
      BY <1>0, <2>1, Ages
    <2> QED
      BY <2>1, <2>2, <2>3, <2>4, NotStale
  <1>3. Follows(p)'
    BY <1>0, <1>1, <1>2 DEF Follows, Unbroken, Breaching, breachAt
  <1>4. Calm(p)
    BY <1>1 DEF Calm
  <1> QED
    BY <1>0, <1>1, <1>3, <1>4, CalmSweep

\* A listed row is closed.
LEMMA CloseSweep ==
  ASSUME SweepInv, MaxTick < Interval, NEW p \in Pod, SweepClose(p)
  PROVE  SweepInv' /\ quiet
  <1>0. TypeOK /\ Follows(p) /\ Tick(p) /\ Ticking(p)
    BY DEF SweepInv, OneOpenInv, LifeInv, Tick
  <1>1. tick[p].pc = "close" /\ tick'[p].pc = "close" /\ UNCHANGED <<now, quiet>> /\ tick[p].stale # {}
    BY <1>0, SweepCloseDoes
  <1>2. quiet /\ quiet'
    BY <1>0, <1>1 DEF Follows
  <1>3. Calm(p)
    BY <1>0, OnlyResolved
  <1>4. Follows(p)'
    BY <1>0, <1>1, <1>2, <1>3 DEF Follows, Unbroken, Breaching, Calm
  <1> QED
    BY <1>0, <1>1, <1>2, <1>3, <1>4, CalmSweep

\* The heartbeat tells of the tick that ends.
LEMMA HeartbeatSweep ==
  ASSUME SweepInv, MaxTick < Interval, NEW p \in Pod, writeHeartbeat(p)
  PROVE  SweepInv'
  <1>0. /\ TypeOK /\ LifeInv /\ OneOpenInv /\ Follows(p) /\ Tick(p) /\ Ticking(p) /\ Mirrored
        /\ OneOpenInv'
    BY TickOneOpen DEF SweepInv, OneOpenInv, LifeInv, Tick
  <1>1. /\ tick[p].pc = "close" /\ tick'[p].pc = "idle"
        /\ UNCHANGED <<now, rows, mirror, leader, mem, request, resolvedOn, quiet>>
        /\ heartbeat'.started = mem[p].lastTickAt /\ heartbeat'.contSince = mem[p].contSince
    BY <1>0, HeartbeatDoes DEF writeHeartbeat
  <1>2. mem'[p].lastTickAt # None
    BY <1>0, <1>1 DEF Ticking
  <1>3. Follows(p)'
    BY <1>0, <1>1 DEF Follows, Unbroken, Breaching, breachAt
  <1>4. Beat'
    BY <1>0, <1>1, <1>2 DEF Follows, Beat, Unbroken, Breaching, breachAt
  <1>5. /\ breachAt' <= now /\ (breachAt' # None => mirror'["breach"].until = breachAt' + stampTTL(ForSec))
        /\ mem'[p].breach # None => mem'[p].breach = breachAt'
    BY <1>0, <1>1 DEF Mirrored, breachAt
  <1> QED
    BY <1>0, <1>2, <1>3, <1>4, <1>5, LeaderSweep

\* A tick begins: what the last one settled is pending, or the series is new.
LEMMA BeginSweep ==
  ASSUME SweepInv, MaxTick < Interval, NEW p \in Pod, Begin(p)
  PROVE  SweepInv'
  <1>0. /\ TypeOK /\ LifeInv /\ OneOpenInv /\ Follows(p) /\ Forgets(p) /\ Beat /\ Tick(p) /\ Mirrored
        /\ OneOpenInv'
    BY TickOneOpen DEF SweepInv, OneOpenInv, LifeInv, Tick
  <1>1. /\ tick[p].pc = "idle" /\ tick'[p].pc = "snapshot" /\ mem'[p].lastTickAt = now /\ leader = p
        /\ UNCHANGED <<now, rows, mirror, heartbeat, leader, request, resolvedOn, quiet>>
    BY <1>0, BeginDoes
  <1>2. now \in Nat /\ now # None /\ tickGapTolerance \in Nat
    BY <1>0, TypeFacts, Ages, Constants DEF Time
  <1>3. mem'[p].breach = mem[p].breach /\ mem'[p].contSince = noteTickContinuity(p)
    <2>1. mem \in [Pod -> MemRec] /\ mem[p] \in MemRec
      BY <1>0, TypeFacts
    <2>2. PICK c : c = noteTickContinuity(p)
      OBVIOUS
    <2>3. mem'[p] = [mem[p] EXCEPT !.lastTickAt = now, !.contSince = c]
      BY <2>1, <2>2 DEF Begin
    <2> QED
      BY <2>1, <2>2, <2>3 DEF MemRec
  <1> DEFINE After(t, c) ==
               /\ t # None /\ Unbroken(t, c)
               /\ \A i \in Problem : Breaching(i) => Settled(rows[i].updated, breachAt, t, c)
  <1>4. \/ noteTickContinuity(p) = now
        \/ \E t, c \in Nat : After(t, c) /\ now - t <= tickGapTolerance /\ noteTickContinuity(p) = c
    <2>1. SUFFICES ASSUME noteTickContinuity(p) # now
                   PROVE  \E t, c \in Nat : After(t, c) /\ now - t <= tickGapTolerance /\ noteTickContinuity(p) = c
      OBVIOUS
    <2>2. CASE mem[p].lastTickAt # None
      <3>1. PICK t \in Nat, c \in Nat : t = mem[p].lastTickAt /\ c = mem[p].contSince
        BY <1>0, Ages
      <3>2. After(t, c)
        BY <1>0, <1>1, <2>2, <3>1 DEF Follows
      <3>3. c # None
        BY <3>2 DEF Unbroken
      <3>4. ~(now - t > tickGapTolerance) /\ noteTickContinuity(p) = c
        BY <2>1, <2>2, <3>1, <3>3 DEF noteTickContinuity
      <3> QED
        BY <1>2, <3>2, <3>4
    <2>3. CASE mem[p].lastTickAt = None
      <3>1. PICK t \in Nat, c \in Nat : t = heartbeat.started /\ c = heartbeat.contSince
        BY <1>0, Ages
      <3>2. mem[p].contSince = None
        BY <1>0, <2>3 DEF Forgets, FreshMem
      <3>3. t # None /\ ~(now - t > tickGapTolerance)
        BY <2>1, <2>3, <3>1 DEF noteTickContinuity
      <3>4. now - t <= tickGapTolerance /\ now <= t + tickGapTolerance
        BY <1>2, <3>3
      <3>5. After(t, c)
        BY <1>0, <3>1, <3>3, <3>4 DEF Beat
      <3>6. c # None
        BY <3>5 DEF Unbroken
      <3>7. noteTickContinuity(p) = c
        BY <2>1, <2>3, <3>1, <3>2, <3>3, <3>6 DEF noteTickContinuity
      <3> QED
        BY <3>4, <3>5, <3>7
    <2> QED
      BY <2>2, <2>3
  <1>5. PICK c \in Nat :
          /\ c = noteTickContinuity(p) /\ c # None /\ c <= now
          /\ \A i \in Problem : Breaching(i) => Pending(rows[i].updated, breachAt, now, c)
    <2>1. CASE noteTickContinuity(p) = now
      BY <1>2, <2>1 DEF Pending
    <2>2. CASE noteTickContinuity(p) # now
      <3>1. PICK t \in Nat, c \in Nat :
              After(t, c) /\ now - t <= tickGapTolerance /\ noteTickContinuity(p) = c
        BY <1>4, <2>2
      <3>2. ASSUME NEW i \in Problem, Breaching(i) PROVE Pending(rows[i].updated, breachAt, now, c)
        BY <1>0, <1>2, <3>1, <3>2, Ages, NextTick
      <3>3. c # None /\ c <= now
        BY <1>2, <3>1 DEF Unbroken
      <3> QED
        BY <3>1, <3>2, <3>3
    <2> QED
      BY <2>1, <2>2
  <1>6. Follows(p)'
    BY <1>1, <1>2, <1>3, <1>5 DEF Follows, Unbroken, Breaching, breachAt
  <1>7. Beat'
    BY <1>0, <1>1 DEF Beat, Unbroken, Breaching, breachAt
  <1>8. /\ breachAt' <= now /\ (breachAt' # None => mirror'["breach"].until = breachAt' + stampTTL(ForSec))
        /\ mem'[p].breach # None => mem'[p].breach = breachAt'
    BY <1>0, <1>1, <1>3 DEF Mirrored, breachAt
  <1>9. mem'[p].lastTickAt # None
    BY <1>1, <1>2
  <1> QED
    BY <1>0, <1>6, <1>7, <1>8, <1>9, LeaderSweep

\* Measuring a sustained breach: the stamp is the pod's, or the mirrored one,
\* or new; a mirrored stamp that has not expired is kept.
LEMMA StampBreach ==
  ASSUME SweepInv, NEW p \in Pod, SustainGate(p), ForSec # 0, now' = now
  PROVE  /\ breachAt' \in Nat /\ breachAt' # None /\ breachAt' <= now /\ mem'[p].breach = breachAt'
         /\ mem'[p].lastTickAt = mem[p].lastTickAt /\ mem'[p].contSince = mem[p].contSince
         /\ mirror'["breach"].until = breachAt' + stampTTL(ForSec)
         /\ breachAt # None /\ now < breachAt + stampTTL(ForSec) => breachAt' = breachAt
         /\ (Done(p) /\ now < breachAt' + ForSec) \/ LookUp(p)
  <1>0. /\ TypeOK /\ Mirrored /\ now \in Nat /\ now # None /\ breachAt \in Nat /\ mem[p].breach \in Nat
        /\ mem \in [Pod -> MemRec] /\ mem[p] \in MemRec /\ mirror \in Stamps
    BY TypeFacts, Ages, Constants DEF SweepInv, OneOpenInv, LifeInv, Time
  <1>1. PICK b : b = breachStart(p)
    OBVIOUS
  <1>2. stampGet("breach") = IF mirror["breach"].until > now THEN breachAt ELSE None
    BY DEF stampGet, breachAt
  <1>3. CASE Sighted(p)
    <2>1. b = breachAt /\ breachAt # None
      BY <1>0, <1>1, <1>2, <1>3 DEF Sighted, breachStart, Mirrored
    <2>2. mirror' = mirror /\ breachAt' = breachAt
      BY <1>3 DEF SustainGate, breachAt
    <2>3. mem'[p] = [mem[p] EXCEPT !.breach = b]
      BY <1>0, <1>1 DEF SustainGate
    <2>4. /\ mem'[p].breach = b /\ mem'[p].lastTickAt = mem[p].lastTickAt
          /\ mem'[p].contSince = mem[p].contSince
      BY <1>0, <2>3 DEF MemRec
    <2>5. (Done(p) /\ now < breachAt + ForSec) \/ LookUp(p)
      BY <1>0, <1>1, <1>3, <2>1, Constants DEF SustainGate
    <2> QED
      BY <1>0, <2>1, <2>2, <2>4, <2>5 DEF Mirrored
  <1>4. CASE ~Sighted(p)
    <2>1. b = now
      BY <1>1, <1>4 DEF Sighted, breachStart
    <2>2. mirror' = [mirror EXCEPT !["breach"] = [at |-> now, until |-> now + stampTTL(ForSec)]]
      BY <1>4 DEF SustainGate
    <2>3. breachAt' = now /\ mirror'["breach"].until = now + stampTTL(ForSec)
      BY <1>0, <2>2 DEF breachAt, Stamps
    <2>4. mem'[p] = [mem[p] EXCEPT !.breach = b]
      BY <1>0, <1>1 DEF SustainGate
    <2>5. /\ mem'[p].breach = b /\ mem'[p].lastTickAt = mem[p].lastTickAt
          /\ mem'[p].contSince = mem[p].contSince
      BY <1>0, <2>4 DEF MemRec
    <2>6. Done(p) /\ now < now + ForSec
      BY <1>0, <1>4, Constants DEF SustainGate
    <2>7. ~(breachAt # None /\ now < breachAt + stampTTL(ForSec))
      BY <1>0, <1>2, <1>4 DEF Sighted, Mirrored
    <2> QED
      BY <1>0, <2>1, <2>3, <2>5, <2>6, <2>7
  <1> QED
    BY <1>3, <1>4

\* What was settled within the gap, and what is pending, goes by a stamp that
\* has not expired, if there is one.
LEMMA StampLasts ==
  ASSUME NEW u \in Nat, NEW b \in Nat, NEW t \in Nat, NEW c \in Nat, NEW n \in Nat, NEW d \in Nat,
         ForSec + 2 * Interval + MaxTick <= stampTTL(ForSec),
         b # None /\ n < b + stampTTL(ForSec) => d = b, d # None, d <= n, t <= n
  PROVE  /\ Settled(u, b, t, c) /\ n <= t + tickGapTolerance => Settled(u, d, t, c)
         /\ Pending(u, b, t, c) /\ n <= t + MaxTick /\ n < d + ForSec => Settled(u, d, t, c)
  <1>1. /\ Interval \in Nat /\ MaxTick \in Nat /\ ForSec \in Nat /\ stampTTL(ForSec) \in Nat
        /\ tickGapTolerance = 2 * Interval
    BY Constants DEF tickGapTolerance
  <1>2. ASSUME Settled(u, b, t, c), n <= t + tickGapTolerance PROVE Settled(u, d, t, c)
    BY <1>1, <1>2 DEF Settled, StampedSoon
  <1>3. ASSUME Pending(u, b, t, c), n <= t + MaxTick, n < d + ForSec PROVE Settled(u, d, t, c)
    BY <1>1, <1>3 DEF Settled, Pending, StampedSoon
  <1> QED
    BY <1>2, <1>3

\* Measuring: no breach is seen, or it is not sustained yet, or the tick goes
\* on to refresh or to open.
LEMMA MeasureSweep ==
  ASSUME SweepInv, MaxTick < Interval, ForSec + 2 * Interval + MaxTick <= stampTTL(ForSec),
         NEW p \in Pod, NEW s \in Signal, Measure(p, s)
  PROVE  SweepInv'
  <1>0. /\ TypeOK /\ LifeInv /\ OneOpenInv /\ Follows(p) /\ Beat /\ Tick(p) /\ Mirrored /\ Ticking(p)
        /\ OneOpenInv'
    BY TickOneOpen DEF SweepInv, OneOpenInv, LifeInv, Tick
  <1>1. /\ tick[p].pc = "measure" /\ UNCHANGED <<now, rows, heartbeat>>
        /\ mem'[p].lastTickAt = mem[p].lastTickAt
        /\ tick'[p].pc \in {"sweep", "refresh", "resolve", "cooldown"}
    BY <1>0, MeasureDoes DEF MemKept, Ended
  <1>2. mem[p].lastTickAt # None /\ now <= mem[p].lastTickAt + MaxTick
    BY <1>0, <1>1 DEF Ticking
  <1>3. CASE s # "breach"
    <2>1. quiet'
      BY <1>3 DEF Measure
    <2>2. /\ mem'[p].contSince = mem[p].contSince
          /\ \/ mirror' = mirror /\ mem'[p].breach \in {mem[p].breach, None}
             \/ mirror' = [mirror EXCEPT !["breach"] = NoStamp] /\ mem'[p].breach = None
      <3>1. mem \in [Pod -> MemRec] /\ mem[p] \in MemRec
        BY <1>0, TypeFacts
      <3>2. CASE UNCHANGED <<mem, mirror>>
        BY <3>2
      <3>3. CASE clearBreach(p)
        <4>1. mem'[p] = [mem[p] EXCEPT !.breach = None]
          BY <3>1, <3>3 DEF clearBreach
        <4>2. mem'[p].breach = None /\ mem'[p].contSince = mem[p].contSince
          BY <3>1, <4>1 DEF MemRec
        <4>3. mirror' = mirror \/ mirror' = [mirror EXCEPT !["breach"] = NoStamp]
          BY <3>3 DEF clearBreach
        <4> QED
          BY <4>2, <4>3
      <3> QED
        BY <1>3, <3>2, <3>3 DEF Measure
    <2>3. Follows(p)'
      BY <1>0, <1>1, <2>1, <2>2 DEF Follows, Unbroken, Breaching
    <2>4. Beat'
      BY <1>0, <1>1, <2>1 DEF Beat, Unbroken, Breaching
    <2>5. /\ breachAt' <= now /\ (breachAt' # None => mirror'["breach"].until = breachAt' + stampTTL(ForSec))
          /\ mem'[p].breach # None => mem'[p].breach = breachAt'
      <3>1. CASE mirror' = mirror
        <4>1. mem'[p].breach \in {mem[p].breach, None}
          BY <2>2
        <4> QED
          BY <1>0, <3>1, <4>1 DEF Mirrored, breachAt
      <3>2. CASE mirror' = [mirror EXCEPT !["breach"] = NoStamp] /\ mem'[p].breach = None
        <4>1. mirror \in Stamps
          BY <1>0, TypeFacts
        <4>2. mirror'["breach"] = NoStamp
          BY <3>2, <4>1 DEF Stamps
        <4>3. breachAt' = None
          BY <4>2 DEF breachAt, NoStamp
        <4> QED
          BY <1>0, <3>2, <4>3, Ages, Constants
      <3> QED
        BY <2>2, <3>1, <3>2
    <2> QED
      BY <1>0, <1>1, <1>2, <2>3, <2>4, <2>5, LeaderSweep
  <1>4. CASE s = "breach" /\ ForSec = 0
    <2>1. LookUp(p) /\ UNCHANGED <<mem, mirror>> /\ quiet' = quiet
      BY <1>0, <1>4 DEF Measure, SustainGate, LifeInv, TypeOK
    <2>2. tick'[p].pc \in {"refresh", "cooldown"}
      <3>1. tick \in [Pod -> TickRec] /\ tick[p] \in TickRec
        BY <1>0, TypeFacts
      <3>2. PICK pc \in {"refresh", "cooldown"} : tick' = [tick EXCEPT ![p].at = now, ![p].pc = pc]
        BY <2>1 DEF LookUp
      <3>3. tick'[p] = [tick[p] EXCEPT !.at = now, !.pc = pc]
        BY <3>1, <3>2
      <3> QED
        BY <3>1, <3>3 DEF TickRec
    <2>3. Follows(p)'
      BY <1>0, <1>1, <2>1, <2>2 DEF Follows, Unbroken
    <2>4. Calm(p)
      BY <1>1, <2>1 DEF Calm
    <2> QED
      BY <1>0, <1>1, <2>3, <2>4, CalmSweep
  <1>5. CASE s = "breach" /\ ForSec # 0
    <2>1. SustainGate(p) /\ quiet' = quiet
      BY <1>0, <1>5 DEF Measure, LifeInv, TypeOK
    <2>2. /\ breachAt' \in Nat /\ breachAt' # None /\ breachAt' <= now /\ mem'[p].breach = breachAt'
          /\ mem'[p].contSince = mem[p].contSince
          /\ mirror'["breach"].until = breachAt' + stampTTL(ForSec)
          /\ breachAt # None /\ now < breachAt + stampTTL(ForSec) => breachAt' = breachAt
          /\ (Done(p) /\ now < breachAt' + ForSec) \/ LookUp(p)
      BY <1>1, <1>5, <2>1, StampBreach
    <2>3. PICK d \in Nat : d = breachAt'
      BY <2>2
    <2>4. /\ now \in Nat /\ breachAt \in Nat /\ heartbeat.started \in Nat /\ heartbeat.contSince \in Nat
          /\ mem[p].lastTickAt \in Nat /\ mem[p].contSince \in Nat
          /\ \A i \in Problem : rows[i].updated \in Nat
      BY <1>0, Ages
    <2>5. Beat'
      <3>1. ASSUME heartbeat.started # None, now <= heartbeat.started + tickGapTolerance,
                   NEW i \in Problem, Breaching(i)
            PROVE  Settled(rows[i].updated, d, heartbeat.started, heartbeat.contSince)
        <4>1. /\ Settled(rows[i].updated, breachAt, heartbeat.started, heartbeat.contSince)
              /\ heartbeat.started <= now
          BY <1>0, <3>1 DEF Beat, Unbroken
        <4> QED
          BY <2>2, <2>3, <2>4, <3>1, <4>1, StampLasts
      <3> QED
        BY <1>0, <1>1, <2>1, <2>3, <3>1 DEF Beat, Unbroken, Breaching
    <2>6. Follows(p)'
      <3>1. CASE Done(p) /\ now < d + ForSec
        <4>1. tick'[p].pc = "sweep"
          BY <1>0, <3>1, DoneDoes
        <4>2. mem[p].lastTickAt <= now
          BY <1>0, <1>2 DEF Follows, Unbroken
        <4>3. ASSUME NEW i \in Problem, Breaching(i)
              PROVE  Settled(rows[i].updated, d, mem[p].lastTickAt, mem[p].contSince)
          <5>1. Pending(rows[i].updated, breachAt, mem[p].lastTickAt, mem[p].contSince)
            BY <1>0, <1>1, <4>3 DEF Follows
          <5> QED
            BY <1>2, <2>2, <2>3, <2>4, <3>1, <4>2, <5>1, StampLasts
        <4> QED
          BY <1>0, <1>1, <2>1, <2>2, <2>3, <4>1, <4>3 DEF Follows, Unbroken, Breaching
      <3>2. CASE LookUp(p)
        <4>1. tick'[p].pc \in {"refresh", "cooldown"}
          <5>1. tick \in [Pod -> TickRec] /\ tick[p] \in TickRec
            BY <1>0, TypeFacts
          <5>2. PICK pc \in {"refresh", "cooldown"} : tick' = [tick EXCEPT ![p].at = now, ![p].pc = pc]
            BY <3>2 DEF LookUp
          <5>3. tick'[p] = [tick[p] EXCEPT !.at = now, !.pc = pc]
            BY <5>1, <5>2
          <5> QED
            BY <5>1, <5>3 DEF TickRec
        <4> QED
          BY <1>0, <1>1, <2>2, <4>1 DEF Follows, Unbroken
      <3> QED
        BY <2>2, <2>3, <3>1, <3>2
    <2> QED
      BY <1>0, <1>1, <1>2, <2>2, <2>5, <2>6, LeaderSweep
  <1> QED
    BY <1>3, <1>4, <1>5

\* A step outside the ticks: rows may be written, pods may lose their memory.
LEMMA OutsideSweep ==
  ASSUME SweepInv, OneOpenInv', Audible', UNCHANGED <<mirror, heartbeat, quiet>>,
         now' \in {now, now + 1}, \A i \in Problem : Plain(i),
         \A q \in Pod : /\ leader' # q => leader # q \/ mem'[q] = FreshMem
                        /\ \/ mem'[q] = mem[q] /\ tick'[q] = tick[q]
                           \/ mem'[q] = FreshMem /\ tick'[q].pc = "idle"
  PROVE  SweepInv'
  <1>0. TypeOK /\ Mirrored /\ Beat /\ now \in Nat /\ breachAt' = breachAt /\ breachAt \in Nat
    BY Ages DEF SweepInv, OneOpenInv, LifeInv, breachAt
  <1>1. Shift
    BY DEF Shift, Breaching, Plain
  <1>2. now' \in Nat /\ now' >= now
    BY <1>0
  <1>3. Beat'
    BY <1>0, <1>1, <1>2, BeatStays
  <1>4. FreshMem.breach = None /\ FreshMem.lastTickAt = None
    BY DEF FreshMem
  <1>5. Mirrored'
    BY <1>0, <1>2, <1>4 DEF Mirrored
  <1>6. ASSUME NEW q \in Pod PROVE Forgets(q)' /\ Follows(q)'
    <2>0. Forgets(q) /\ Follows(q)
      BY DEF SweepInv
    <2>1. CASE mem'[q] = FreshMem /\ tick'[q].pc = "idle"
      BY <1>4, <2>1 DEF Forgets, Follows
    <2>2. CASE mem'[q] = mem[q] /\ tick'[q] = tick[q]
      <3>1. PICK t \in Nat, c \in Nat : t = mem[q].lastTickAt /\ c = mem[q].contSince
        BY <1>0, Ages
      <3>2. t # None => Unbroken(t, c) /\ Unbroken(t, c)'
        BY <1>0, <1>2, <2>0, <3>1 DEF Follows, Unbroken
      <3>3. Forgets(q)'
        BY <2>0, <2>2 DEF Forgets
      <3>4. ASSUME t # None, tick[q].pc \in {"idle", "sweep", "close"}, NEW i \in Problem, Breaching(i)'
            PROVE  Settled(rows'[i].updated, breachAt', t, c)
        <4>1. t <= now /\ (Breaching(i) => Settled(rows[i].updated, breachAt, t, c))
          BY <2>0, <3>1, <3>2, <3>4 DEF Follows, Unbroken
        <4> QED
          BY <1>0, <1>1, <3>4, <4>1, SettledStays
      <3>5. ASSUME t # None, tick[q].pc \in {"snapshot", "measure"}, NEW i \in Problem, Breaching(i)'
            PROVE  Pending(rows'[i].updated, breachAt', t, c)
        <4>1. t <= now /\ (Breaching(i) => Pending(rows[i].updated, breachAt, t, c))
          BY <2>0, <3>1, <3>2, <3>5 DEF Follows, Unbroken
        <4> QED
          BY <1>0, <1>1, <3>5, <4>1, SettledStays
      <3>6. tick[q].pc # "idle" => t # None
        BY <3>1 DEF SweepInv, OneOpenInv, LifeInv, Ticking
      <3>7. Follows(q)'
        BY <2>0, <2>2, <3>1, <3>2, <3>4, <3>5, <3>6 DEF Follows
      <3> QED
        BY <3>3, <3>7
    <2> QED
      BY <2>1, <2>2
  <1> QED
    BY <1>3, <1>5, <1>6 DEF SweepInv

\* Operators, leadership and time, if a pod that loses the lease restarts.
LEMMA OtherSweep ==
  ASSUME SweepInv, ~Bounce, MaxTick < Interval,
         \/ \E p \in Pod : Elect(p) \/ Demote(p) \/ Restart(p)
         \/ \E i \in Problem : AskAcknowledge(i) \/ AskResolve(i)
         \/ AcknowledgeProblems \/ ResolveProblems
         \/ Advance
         \/ UNCHANGED vars
  PROVE  SweepInv'
  <1>0. /\ TypeOK /\ LifeInv /\ OneOpenInv /\ OneOpenInv' /\ Audible'
        /\ \A i \in Problem : Plain(i)
    BY OtherOneOpen, OtherAudible, OtherWrites DEF SweepInv, OneOpenInv, LifeInv
  <1>1. UNCHANGED <<mirror, heartbeat, quiet>> /\ now' \in {now, now + 1}
    BY DEF Elect, Demote, Restart, AskAcknowledge, AskResolve, AcknowledgeProblems, ResolveProblems,
           Advance, vars
  <1>2. ASSUME NEW q \in Pod
        PROVE  /\ leader' # q => leader # q \/ mem'[q] = FreshMem
               /\ \/ mem'[q] = mem[q] /\ tick'[q] = tick[q]
                  \/ mem'[q] = FreshMem /\ tick'[q].pc = "idle"
    <2>1. ASSUME NEW p \in Pod, Demote(p) \/ Restart(p)
          PROVE  /\ leader' # q => leader # q \/ mem'[q] = FreshMem
                 /\ \/ mem'[q] = mem[q] /\ tick'[q] = tick[q]
                    \/ mem'[q] = FreshMem /\ tick'[q].pc = "idle"
      <3>1. /\ OthersTick(p) /\ OthersMem(p) /\ tick'[p].pc = "idle"
            /\ leader # p => leader' = leader
        BY <1>0, <2>1, LeaveDoes
      <3>2. mem' = [mem EXCEPT ![p] = FreshMem]
        BY <2>1 DEF Demote, Restart
      <3>3. mem'[p] = FreshMem
        BY <1>0, <3>2, MemDoes, FreshTypes
      <3> QED
        BY <3>1, <3>3 DEF OthersTick, OthersMem
    <2>2. ASSUME NEW p \in Pod, Elect(p)
          PROVE  leader # q /\ mem'[q] = mem[q] /\ tick'[q] = tick[q]
      BY <2>2, Constants DEF Elect, podVars
    <2>3. CASE UNCHANGED <<leader, mem, tick>>
      BY <2>3
    <2> QED
      BY <2>1, <2>2, <2>3 DEF AskAcknowledge, AskResolve, AcknowledgeProblems, ResolveProblems,
                              Advance, podVars, vars
  <1> QED
    BY <1>0, <1>1, <1>2, OutsideSweep

\* A step of a tick.
LEMMA TickSweep ==
  ASSUME SweepInv, MaxTick < Interval, ForSec + 2 * MaxTick <= Interval,
         ForSec + 2 * Interval + MaxTick <= stampTTL(ForSec), NEW p \in Pod, Tick(p)
  PROVE  SweepInv'
  BY BeginSweep, SnapshotSweep, MeasureSweep, GateSweep, FreshenSweep, ResolveSweep, ListSweep,
     CloseSweep, HeartbeatSweep DEF Tick

\* SweepOnlySilent for any number of pods, if a sustained breach fits into an
\* interval with room for two ticks, the mirrored stamp outlives the longest
\* gap between ticks in one series, and a pod that loses leadership comes back
\* with empty memory: a problem is closed as silent only after some tick saw
\* no breach, whoever leads and whoever crashes.
THEOREM AlertSweep ==
  ASSUME ~Bounce, ForSec + 2 * MaxTick <= Interval,
         ForSec + 2 * Interval + MaxTick <= stampTTL(ForSec)
  PROVE  Spec => SweepOnlySilent
  <1> DEFINE Heard == \A i \in Problem : ~rows[i].silent /\ rows'[i].silent => quiet
  <1>0. MaxTick < Interval
    BY Constants
  <1>1. Init => SweepInv
    <2>1. SUFFICES ASSUME Init PROVE SweepInv
      OBVIOUS
    <2>2. LifeInv
      BY <2>1, LifeInit
    <2>3. \A i \in Problem : ~Unresolved(rows[i])
      BY <2>1, FreshTypes DEF Init
    <2>4. (\A i \in Problem : ~Claimed(i)) /\ LateAck
      BY <2>1, FreshTypes DEF Init, Claimed, Reopens, LateAck
    <2>5. OneOpenInv
      BY <2>2, <2>4 DEF OneOpenInv, OneClaim, NoClaim
    <2>6. /\ \A p \in Pod : mem[p] = FreshMem /\ tick[p] = IdleTick
          /\ request = NoRequest /\ heartbeat.started = None /\ mirror["breach"] = NoStamp /\ now = 1
      BY <2>1 DEF Init
    <2>7. Mirrored
      BY <2>6, Constants DEF Mirrored, breachAt, NoStamp, FreshMem
    <2>8. Audible
      BY <2>3, <2>6 DEF Audible, NoRequest, IdleTick
    <2>9. Beat
      BY <2>6 DEF Beat
    <2>10. \A p \in Pod : Forgets(p) /\ Follows(p)
      BY <2>6 DEF Forgets, Follows, FreshMem, IdleTick
    <2> QED
      BY <2>5, <2>7, <2>8, <2>9, <2>10 DEF SweepInv
  <1>2. SweepInv /\ [Next]_vars => SweepInv'
    BY <1>0, TickSweep, OtherSweep DEF Next
  <1>3. SweepInv /\ [Next]_vars => [Heard]_vars
    <2>1. SUFFICES ASSUME SweepInv, Next, NEW i \in Problem, ~rows[i].silent, rows'[i].silent PROVE quiet
      OBVIOUS
    <2>2. ~Plain(i)
      BY <2>1 DEF Plain
    <2>3. LifeInv /\ Audible
      BY <2>1 DEF SweepInv, OneOpenInv
    <2>4. PICK p \in Pod : SweepClose(p)
      BY <2>1, <2>2, <2>3, TickWrites, OtherWrites DEF Next
    <2> QED
      BY <1>0, <2>1, <2>4, CloseSweep
  <1>4. Spec => [][Heard]_vars
    BY <1>1, <1>2, <1>3, PTL DEF Spec
  <1> QED
    BY <1>4 DEF SweepOnlySilent
=============================================================================

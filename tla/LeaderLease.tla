---------------------------- MODULE LeaderLease ----------------------------
(***************************************************************************)
(* Leader election of a background worker over a Redis lease:              *)
(* internal/cache leader.go (LeaderHolder), redis.go (redisLock),          *)
(* cache.go (noopLock) and switchable.go (SwitchableLock, the re-probe).   *)
(*                                                                         *)
(* One worker, hence one lock key.  Each pod runs a LeaderHolder goroutine *)
(* that acquires, refreshes every TTL/3 and demotes.  A Redis round trip   *)
(* is three steps: the call starts, the server executes it, the reply      *)
(* comes back; it may fail at any point, executed or not, and an abandoned *)
(* request may still be executed later.  Time is discrete and every timer  *)
(* counts down to zero; a pod whose timer is at zero acts before the clock *)
(* moves on.                                                               *)
(***************************************************************************)
EXTENDS Integers, FiniteSets

CONSTANTS
  Pod,
  TTL,       \* lease TTL, in ticks
  Retry,     \* acquireRetryInterval
  RPCMax,    \* the client's network timeouts bound a round trip
  Token,     \* randomToken values: numbers, used again once forgotten
  MaxStray   \* bound: abandoned requests still on their way

ASSUME LeaseAssumption ==
  /\ IsFiniteSet(Pod) /\ Pod # {}
  /\ TTL \in Nat /\ Retry \in Nat \ {0} /\ RPCMax \in Nat \ {0}
  /\ TTL % 3 = 0
  /\ 3 * RPCMax <= TTL \div 3
  /\ Retry <= TTL \div 3
  /\ MaxStray \in Nat
  /\ Token \subseteq Nat \ {0} /\ IsFiniteSet(Token)
  /\ Cardinality(Token) > Cardinality(Pod) + MaxStray

Refresh == TTL \div 3
NoTok == 0

VARIABLES
  key, left,   \* server: the token stored under the key, ticks until it expires
  stray,       \* abandoned requests the server may still execute
  at,          \* holder's place: down, acquire, hold or stop (deferred release)
  phase,       \* wait, or a round trip: sent, then executed with yes or no
  timer,       \* ticks left of the wait or of the round trip
  impl,        \* what SwitchableLock forwards to: noop or redis
  held,        \* IsLeader
  tok,         \* the token registry of the pod's redisLock
  req,         \* token carried by the request in flight
  since,       \* time.Since(lastOK), capped at TTL
  stable,      \* from now on no crash, shutdown or failed round trip
  lapsed,      \* history: ticks a pod has led on Redis without its lease
  headless     \* history: ticks without a leader once stable

podVars == <<at, phase, timer, impl, held, tok, req, since>>
vars == <<key, left, stray, at, phase, timer, impl, held, tok, req, since, stable,
          lapsed, headless>>

Up == {p \in Pod : at[p] # "down"}
Leaders == {p \in Pod : held[p]}

\* The pod's view of its lease: the deferred Release takes the token out of
\* the registry before it asks Redis.
LeaseOf(p) == IF at[p] = "stop" THEN req[p] ELSE tok[p]
Owns(p) == key # NoTok /\ key = LeaseOf(p)

InUse == {key} \union {tok[p] : p \in Pod} \union {req[p] : p \in Pod}
           \union {r.tok : r \in stray}
FreshToken == CHOOSE t \in Token : t \notin InUse

-----------------------------------------------------------------------------
Init ==
  /\ key = NoTok /\ left = 0 /\ stray = {}
  /\ at = [p \in Pod |-> "down"]
  /\ phase = [p \in Pod |-> "wait"]
  /\ timer = [p \in Pod |-> 0]
  /\ impl = [p \in Pod |-> "redis"]
  /\ held = [p \in Pod |-> FALSE]
  /\ tok = [p \in Pod |-> NoTok] /\ req = [p \in Pod |-> NoTok]
  /\ since = [p \in Pod |-> 0]
  /\ stable = FALSE
  /\ lapsed = [p \in Pod |-> 0]
  /\ headless = 0

-----------------------------------------------------------------------------
(* The scripts and the SETNX, as the server runs them for request r.       *)

\* Mutant: a blind DEL releases whoever holds the key.
GrantedBlindly(r) ==
  CASE r.op = "acquire" -> key = NoTok
    [] r.op = "refresh" -> key = r.tok
    [] OTHER -> TRUE

\* Does the server grant r?  SETNX wants the key absent, the refresh and
\* release scripts want the caller's own token under it.
Granted(r) == IF r.op = "acquire" THEN key = NoTok ELSE key = r.tok

\* Mutant: a refresh adds a TTL to what is left of the lease.
ServeAdding(r) ==
  IF Granted(r)
  THEN IF r.op = "release" THEN key' = NoTok /\ left' = 0
                           ELSE key' = r.tok /\ left' = left + TTL
  ELSE UNCHANGED <<key, left>>

Serve(r) ==
  IF Granted(r)
  THEN IF r.op = "release" THEN key' = NoTok /\ left' = 0
                           ELSE key' = r.tok /\ left' = TTL
  ELSE UNCHANGED <<key, left>>

Request(p) == [op |-> CASE at[p] = "acquire" -> "acquire"
                        [] at[p] = "hold" -> "refresh"
                        [] OTHER -> "release",
               tok |-> req[p]]

\* The server executes p's request in flight.
Execute(p) ==
  /\ at[p] # "down" /\ phase[p] = "sent"
  /\ Serve(Request(p))
  /\ phase' = [phase EXCEPT ![p] = IF Granted(Request(p)) THEN "yes" ELSE "no"]
  /\ UNCHANGED <<stray, at, timer, impl, held, tok, req, since, stable, lapsed, headless>>

\* A request whose caller has given up is executed, or lost.
StrayServed(r) ==
  /\ Serve(r)
  /\ stray' = stray \ {r}
  /\ UNCHANGED <<podVars, stable, lapsed, headless>>

StrayLost(r) ==
  /\ stray' = stray \ {r}
  /\ UNCHANGED <<key, left, podVars, stable, lapsed, headless>>

\* The caller gives up on its request: executed or never to be executed, or,
\* if the server has not seen it yet, possibly executed later.
Forsake(p) ==
  \/ UNCHANGED stray
  \/ /\ phase[p] = "sent"
     /\ Cardinality(stray) < MaxStray
     /\ stray' = stray \union {Request(p)}

-----------------------------------------------------------------------------
(* The holder goroutine, run.                                              *)

\* Pod p's goroutine moves on: where it is, the wait or round trip it is in
\* and for how long, with what token in flight.
MoveTo(p, a, ph, t, rq) ==
  /\ at' = [at EXCEPT ![p] = a]
  /\ phase' = [phase EXCEPT ![p] = ph]
  /\ timer' = [timer EXCEPT ![p] = t]
  /\ req' = [req EXCEPT ![p] = rq]

Win(p) ==
  /\ MoveTo(p, "hold", "wait", Refresh, NoTok)
  /\ held' = [held EXCEPT ![p] = TRUE]
  /\ since' = [since EXCEPT ![p] = 0]

\* held drops and the acquire loop is entered; it tries at once.  A token
\* left in the registry is not read again before the next acquisition
\* overwrites it, so it is forgotten here.
Demote(p) ==
  /\ MoveTo(p, "acquire", "wait", 0, NoTok)
  /\ held' = [held EXCEPT ![p] = FALSE]
  /\ tok' = [tok EXCEPT ![p] = NoTok]
  /\ since' = [since EXCEPT ![p] = 0]
  /\ lapsed' = [lapsed EXCEPT ![p] = 0]

\* TryAcquire: the noop lock says yes at once, redisLock sends a SETNX with
\* a fresh token.
CallAcquire(p) ==
  /\ at[p] = "acquire" /\ phase[p] = "wait" /\ timer[p] = 0
  /\ IF impl[p] = "noop"
     THEN Win(p)
     ELSE MoveTo(p, "acquire", "sent", RPCMax, FreshToken) /\ UNCHANGED <<held, since>>
  /\ UNCHANGED <<key, left, stray, impl, tok, stable, lapsed, headless>>

\* Mutant: a refresh without a token for the key says yes.
CallRefreshTokenless(p) ==
  /\ at[p] = "hold" /\ phase[p] = "wait" /\ timer[p] = 0
  /\ IF impl[p] = "noop" \/ tok[p] = NoTok
     THEN Win(p) /\ UNCHANGED <<tok, lapsed>>
     ELSE /\ MoveTo(p, "hold", "sent", RPCMax, tok[p])
          /\ UNCHANGED <<held, tok, since, lapsed>>
  /\ UNCHANGED <<key, left, stray, impl, stable, headless>>

\* Refresh: the noop lock says yes; redisLock without a token for the key
\* answers no without a round trip.
CallRefresh(p) ==
  /\ at[p] = "hold" /\ phase[p] = "wait" /\ timer[p] = 0
  /\ CASE impl[p] = "noop" -> Win(p) /\ UNCHANGED <<tok, lapsed>>
       [] impl[p] = "redis" /\ tok[p] = NoTok -> Demote(p)
       [] OTHER -> MoveTo(p, "hold", "sent", RPCMax, tok[p])
                  /\ UNCHANGED <<held, tok, since, lapsed>>
  /\ UNCHANGED <<key, left, stray, impl, stable, headless>>

\* Mutant: a refused acquisition waits for the refresh interval.
AcquireReplySlow(p) ==
  /\ at[p] = "acquire"
  /\ \/ /\ phase[p] = "yes"
        /\ tok' = [tok EXCEPT ![p] = req[p]]
        /\ Win(p)
     \/ /\ phase[p] = "no"
        /\ MoveTo(p, "acquire", "wait", Refresh, NoTok)
        /\ UNCHANGED <<tok, held, since>>
  /\ UNCHANGED <<key, left, stray, impl, stable, lapsed, headless>>

\* TryAcquire's answer: register the token and lead, or wait and retry.
AcquireReply(p) ==
  /\ at[p] = "acquire"
  /\ \/ /\ phase[p] = "yes"
        /\ tok' = [tok EXCEPT ![p] = req[p]]
        /\ Win(p)
     \/ /\ phase[p] = "no"
        /\ MoveTo(p, "acquire", "wait", Retry, NoTok)
        /\ UNCHANGED <<tok, held, since>>
  /\ UNCHANGED <<key, left, stray, impl, stable, lapsed, headless>>

\* Refresh's answer: extended, or the token owns the key no longer.
RefreshReply(p) ==
  /\ at[p] = "hold"
  /\ \/ /\ phase[p] = "yes"
        /\ Win(p)
        /\ UNCHANGED <<tok, lapsed>>
     \/ /\ phase[p] = "no"
        /\ Demote(p)
  /\ UNCHANGED <<key, left, stray, impl, stable, headless>>

\* Network error or timeout of a TryAcquire.
AcquireError(p) ==
  /\ at[p] = "acquire" /\ phase[p] # "wait" /\ ~stable
  /\ Forsake(p)
  /\ MoveTo(p, "acquire", "wait", Retry, NoTok)
  /\ UNCHANGED <<key, left, impl, held, tok, since, stable, lapsed, headless>>

refreshOutlivedLease(p) == since[p] >= TTL

\* Mutant: errors never demote.
RefreshErrorTolerated(p) ==
  /\ at[p] = "hold" /\ phase[p] # "wait" /\ ~stable
  /\ Forsake(p)
  /\ MoveTo(p, "hold", "wait", Refresh, NoTok)
  /\ UNCHANGED <<key, left, impl, held, tok, since, stable, lapsed, headless>>

\* Network error or timeout of a Refresh: demote once the errors have
\* outlived the lease, else keep leading and try again.
RefreshError(p) ==
  /\ at[p] = "hold" /\ phase[p] # "wait" /\ ~stable
  /\ Forsake(p)
  /\ IF refreshOutlivedLease(p)
     THEN Demote(p)
     ELSE MoveTo(p, "hold", "wait", Refresh, NoTok) /\ UNCHANGED <<held, tok, since, lapsed>>
  /\ UNCHANGED <<key, left, impl, stable, headless>>

\* The process is gone, with its registry.
Gone(p) ==
  /\ MoveTo(p, "down", "wait", 0, NoTok)
  /\ held' = [held EXCEPT ![p] = FALSE]
  /\ tok' = [tok EXCEPT ![p] = NoTok]
  /\ since' = [since EXCEPT ![p] = 0]
  /\ impl' = [impl EXCEPT ![p] = "redis"]
  /\ lapsed' = [lapsed EXCEPT ![p] = 0]

\* The context is cancelled: a round trip in flight fails; a pod that still
\* leads then sends the deferred Release, if its registry has a token.
Shutdown(p) ==
  /\ at[p] \in {"acquire", "hold"} /\ ~stable
  /\ Forsake(p)
  /\ LET demoted == at[p] = "hold" /\ phase[p] # "wait" /\ refreshOutlivedLease(p)
     IN  IF held[p] /\ ~demoted /\ impl[p] = "redis" /\ tok[p] # NoTok
         THEN /\ MoveTo(p, "stop", "sent", RPCMax, tok[p])
              /\ tok' = [tok EXCEPT ![p] = NoTok]
              /\ UNCHANGED <<impl, held, since, lapsed>>
         ELSE Gone(p)
  /\ UNCHANGED <<key, left, stable, headless>>

\* Release has returned, in whichever way; held drops after it.
ReleaseReturns(p) ==
  /\ at[p] = "stop"
  /\ \/ phase[p] # "sent" /\ UNCHANGED stray
     \/ ~stable /\ Forsake(p)
  /\ Gone(p)
  /\ UNCHANGED <<key, left, stable, headless>>

Crash(p) ==
  /\ at[p] # "down" /\ ~stable
  /\ Forsake(p)
  /\ Gone(p)
  /\ UNCHANGED <<key, left, stable, headless>>

\* cache.New: the boot ping decides between redisLock and the noop fallback.
Boot(p) ==
  /\ at[p] = "down"
  /\ MoveTo(p, "acquire", "wait", 0, NoTok)
  /\ \E i \in {"redis", "noop"} :
       /\ i = "noop" => ~stable
       /\ impl' = [impl EXCEPT ![p] = i]
  /\ UNCHANGED <<key, left, stray, held, tok, since, stable, lapsed, headless>>

\* StartRedisReprobe: the first successful connect swaps the real lock in,
\* once; the holder finds out at its next heartbeat.
Reprobe(p) ==
  /\ at[p] # "down" /\ impl[p] = "noop"
  /\ impl' = [impl EXCEPT ![p] = "redis"]
  /\ UNCHANGED <<key, left, stray, at, phase, timer, held, tok, req, since, stable,
                 lapsed, headless>>

-----------------------------------------------------------------------------
(* Time and faults.                                                        *)

MaxLapse(p) == IF tok[p] = NoTok /\ at[p] # "stop" THEN Refresh ELSE 4 * RPCMax
MaxHeadless == TTL + Retry + 3 * RPCMax - 1
AtMost(m, n) == IF n <= m THEN n ELSE m

Tick ==
  /\ \A p \in Up : timer[p] > 0
  /\ left' = IF left > 0 THEN left - 1 ELSE 0
  /\ key' = IF left > 1 THEN key ELSE NoTok
  /\ timer' = [p \in Pod |-> IF p \in Up THEN timer[p] - 1 ELSE 0]
  /\ since' = [p \in Pod |-> IF at[p] = "hold" THEN AtMost(TTL, since[p] + 1) ELSE 0]
  /\ lapsed' = [p \in Pod |-> IF held[p] /\ impl[p] = "redis" /\ ~Owns(p)
                              THEN AtMost(TTL, lapsed[p] + 1) ELSE 0]
  /\ headless' = IF stable /\ Up # {} /\ Leaders = {}
                 THEN AtMost(MaxHeadless + 1, headless + 1) ELSE 0
  /\ UNCHANGED <<stray, at, phase, impl, held, tok, req, stable>>

\* The faults end, at any moment at which no abandoned request is on its way.
Stabilize ==
  /\ ~stable /\ stray = {}
  /\ stable' = TRUE
  /\ UNCHANGED <<key, left, stray, podVars, lapsed, headless>>

Holder(p) == CallAcquire(p) \/ CallRefresh(p) \/ AcquireReply(p) \/ RefreshReply(p)
               \/ ReleaseReturns(p)

Next ==
  \/ \E p \in Pod : \/ Holder(p) \/ Execute(p) \/ AcquireError(p) \/ RefreshError(p)
                    \/ Shutdown(p) \/ Crash(p) \/ Boot(p) \/ Reprobe(p)
  \/ \E r \in stray : StrayServed(r) \/ StrayLost(r)
  \/ Tick
  \/ Stabilize

Spec == Init /\ [][Next]_vars

\* Goroutines, the server and the clock go on; crashed pods are restarted; a
\* re-probe succeeds once Redis can be reached.
Fairness ==
  /\ WF_vars(Tick)
  /\ \A p \in Pod : /\ WF_vars(Holder(p)) /\ WF_vars(Execute(p))
                    /\ WF_vars(Boot(p)) /\ WF_vars(Reprobe(p))

FairSpec == Spec /\ Fairness

-----------------------------------------------------------------------------
(* What the election guarantees.                                           *)

TypeOK ==
  /\ key \in Token \union {NoTok} /\ left \in 0..TTL
  /\ stray \subseteq [op : {"acquire", "refresh", "release"}, tok : Token]
  /\ at \in [Pod -> {"down", "acquire", "hold", "stop"}]
  /\ phase \in [Pod -> {"wait", "sent", "yes", "no"}]
  /\ timer \in [Pod -> Nat]
  /\ impl \in [Pod -> {"noop", "redis"}]
  /\ held \in [Pod -> BOOLEAN]
  /\ tok \in [Pod -> Token \union {NoTok}] /\ req \in [Pod -> Token \union {NoTok}]
  /\ since \in [Pod -> 0..TTL]
  /\ stable \in BOOLEAN
  /\ lapsed \in [Pod -> 0..TTL] /\ headless \in Nat

\* Lease crossover is bounded: a pod leads without its lease, so possibly
\* next to the lease's new owner, for at most four round trips after a
\* partition, and for at most one refresh interval after the real lock
\* replaced the always-leader fallback.
OverlapBounded == \A p \in Pod : held[p] /\ impl[p] = "redis" => lapsed[p] <= MaxLapse(p)

\* No pod's step takes another pod's live lease away: a late Refresh or a
\* Release after the lease moved on leaves the new owner's key alone.
LeaseYieldedByOwner ==
  [][\A p \in Pod : Owns(p) /\ held[p] /\ left > 1
       => key' = key \/ at[p]' = "down" \/ phase[p]' # phase[p]]_vars

\* After a failover there is a leader again within the lease TTL, one retry
\* interval and three round trips: one refused just before the lease ran out,
\* one that finds the key free, and that of a pod that comes up just then and
\* is served first.
FailoverBounded == headless <= MaxHeadless

\* Why: the parts of an inductive invariant.  Where a holder is tells what it
\* has in its registry and in flight; ...
Placed(p) ==
  /\ held[p] <=> at[p] \in {"hold", "stop"}
  /\ at[p] # "hold" \/ impl[p] = "noop" => tok[p] = NoTok
  /\ at[p] = "stop" => phase[p] # "wait"
  /\ IF phase[p] = "wait" THEN req[p] = NoTok
     ELSE /\ at[p] # "down" /\ impl[p] = "redis" /\ req[p] # NoTok
          /\ at[p] = "hold" => req[p] = tok[p]
Places == (\A p \in Pod : Placed(p)) /\ (key = NoTok <=> left = 0)

\* ... no two pods know the same token, and no abandoned request but a refresh
\* carries a token some pod knows; ...
TokensApart ==
  /\ \A p, q \in Pod : p # q => {tok[p], req[p]} \intersect {tok[q], req[q]} \subseteq {NoTok}
  /\ \A p \in Pod, r \in stray : r.op # "refresh" => r.tok \notin {tok[p], req[p]}
  /\ Cardinality(stray) <= MaxStray

\* ... a lease granted is the pod's until TTL after its request was sent, and
\* the third refresh is the last that may fail; ...
Waiting(p) ==
  IF since[p] < TTL
  THEN \E k \in 1..3 : k * Refresh <= since[p] + timer[p]
                       /\ since[p] + timer[p] <= k * Refresh + (k - 1) * RPCMax
  ELSE lapsed[p] + timer[p] <= 3 * RPCMax
Refreshing(p) ==
  IF since[p] < TTL
  THEN \E k \in 1..2 : k * Refresh <= since[p] /\ since[p] + timer[p] <= k * Refresh + k * RPCMax
  ELSE lapsed[p] + timer[p] <= 4 * RPCMax
Leased(p) ==
  /\ since[p] + RPCMax < TTL => key = tok[p] /\ left + since[p] + RPCMax >= TTL
  /\ since[p] < TTL => lapsed[p] = 0 \/ lapsed[p] + TTL <= since[p] + RPCMax
  /\ key = tok[p] => lapsed[p] = 0
  /\ IF phase[p] = "wait" THEN Waiting(p) ELSE Refreshing(p)
Timed(p) ==
  /\ phase[p] # "wait" => timer[p] <= RPCMax
  /\ at[p] = "acquire" /\ phase[p] = "wait" => timer[p] <= Retry
  /\ ~held[p] \/ impl[p] = "noop" => lapsed[p] = 0
  /\ at[p] # "stop" /\ phase[p] = "yes" => key = req[p] /\ left + RPCMax >= TTL + timer[p]
  /\ at[p] = "stop" => lapsed[p] + timer[p] <= 4 * RPCMax
  /\ at[p] = "hold" /\ tok[p] = NoTok => lapsed[p] + timer[p] <= Refresh
  /\ at[p] = "hold" /\ tok[p] # NoTok => Leased(p)
LeaseTimes == \A p \in Pod : Timed(p)

LeaseInv == TypeOK /\ Places /\ TokensApart /\ LeaseTimes

\* ... and without a leader somebody is about to have the lease, or it runs
\* out, or it is free and somebody is about to ask for it.
Asks(p) == CASE phase[p] = "no" -> timer[p] + Retry + RPCMax
             [] phase[p] = "wait" -> timer[p] + RPCMax
             [] OTHER -> timer[p]
Winner(p) == at[p] = "acquire" /\ phase[p] = "yes"
Succession ==
  /\ headless > 0 => stable
  /\ stable => stray = {}
  /\ Up = {} => headless = 0
  /\ \A p \in Leaders : headless = 0 \/ (at[p] = "hold" /\ phase[p] = "wait" /\ timer[p] = Refresh)
  /\ stable /\ Leaders = {} /\ Up # {} =>
       /\ \A p \in Pod : Winner(p) => headless + timer[p] <= MaxHeadless
       /\ key # NoTok /\ (\A p \in Pod : ~Winner(p)) => headless + left <= TTL
       /\ key = NoTok => \E p \in Up : headless + Asks(p) + RPCMax <= MaxHeadless

FailoverInv == LeaseInv /\ Succession /\ FailoverBounded

\* Once the faults end the fleet converges to one leader, who stays.
Converges == <>[]stable => <>[](Cardinality(Leaders) = 1)
=============================================================================

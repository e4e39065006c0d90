-------------------------- MODULE LeaderLeaseProofs --------------------------
(***************************************************************************)
(* The election keeps its promises for any number of pods and any timing   *)
(* that the assumptions allow: crossover and failover are bounded, and     *)
(* nobody's step takes another pod's live lease away.                      *)
(***************************************************************************)
EXTENDS LeaderLease, FiniteSetTheorems, TLAPS

Op == {"acquire", "refresh", "release"}

\* The constants as numbers: the refresh interval is a third of the lease and
\* at least three round trips.
LEMMA Constants ==
  /\ TTL \in Nat /\ Refresh \in Nat /\ Retry \in Nat /\ RPCMax \in Nat /\ MaxStray \in Nat
  /\ TTL = 3 * Refresh /\ 3 * RPCMax <= Refresh /\ Retry <= Refresh
  /\ Retry >= 1 /\ RPCMax >= 1
  /\ NoTok \notin Token /\ NoTok = 0
  BY LeaseAssumption DEF Refresh, NoTok

-----------------------------------------------------------------------------
(* Tokens.                                                                 *)

\* The token pod p knows, if any.
TokenOf(p) == IF tok[p] # NoTok THEN tok[p] ELSE req[p]

\* There are finitely many requests.
LEMMA StrayFinite ==
  ASSUME TypeOK
  PROVE  IsFiniteSet(stray)
  <1>1. IsFiniteSet(Op)
    <2>1. IsFiniteSet({"acquire"}) /\ IsFiniteSet({"refresh"}) /\ IsFiniteSet({"release"})
      BY FS_Singleton
    <2>2. IsFiniteSet(({"acquire"} \union {"refresh"}) \union {"release"})
      BY <2>1, FS_Union
    <2>3. Op = ({"acquire"} \union {"refresh"}) \union {"release"}
      BY DEF Op
    <2> QED
      BY <2>2, <2>3
  <1>2. IsFiniteSet(Op \X Token)
    BY LeaseAssumption, <1>1, FS_Product
  <1> DEFINE R == [op : Op, tok : Token]
             h == [x \in Op \X Token |-> [op |-> x[1], tok |-> x[2]]]
  <1>3. h \in Surjection(Op \X Token, R)
    <2>1. ASSUME NEW x \in Op \X Token PROVE h[x] \in R
      OBVIOUS
    <2>2. ASSUME NEW r \in R PROVE \E x \in Op \X Token : h[x] = r
      <3>1. <<r.op, r.tok>> \in Op \X Token /\ h[<<r.op, r.tok>>] = [op |-> r.op, tok |-> r.tok]
        OBVIOUS
      <3>2. r = [op |-> r.op, tok |-> r.tok]
        OBVIOUS
      <3> QED
        BY <3>1, <3>2
    <2>3. h = [x \in Op \X Token |-> h[x]]
      OBVIOUS
    <2> HIDE DEF h, R
    <2>4. h \in [Op \X Token -> R]
      BY <2>1, <2>3
    <2> QED
      BY <2>2, <2>4 DEF Surjection
  <1>4. IsFiniteSet(R)
    BY <1>2, <1>3, FS_Surjection
  <1>5. stray \subseteq R
    BY DEF TypeOK, Op
  <1> QED
    BY <1>4, <1>5, FS_Subset

\* A pod about to acquire knows no token, so there is one nobody uses: the
\* others know one each, the key holds one, and abandoned requests are few.
LEMMA FreshTokenType ==
  ASSUME LeaseInv, NEW p \in Pod, at[p] = "acquire", phase[p] = "wait"
  PROVE  FreshToken \in Token /\ FreshToken \notin InUse
  <1> DEFINE P == Pod \ {p}
             A == {TokenOf(q) : q \in P}
             B == {r.tok : r \in stray}
             f == [q \in P |-> TokenOf(q)]
             g == [r \in stray |-> r.tok]
  <1>1. /\ IsFiniteSet(Pod) /\ IsFiniteSet(Token) /\ MaxStray \in Nat
        /\ Cardinality(Pod) \in Nat /\ Cardinality(Token) \in Nat
    BY LeaseAssumption, FS_CardinalityType
  <1>2. IsFiniteSet(P) /\ Cardinality(P) = Cardinality(Pod) - 1
    BY <1>1, FS_RemoveElement
  <1>3. IsFiniteSet(A) /\ Cardinality(A) <= Cardinality(P)
    <2>1. f \in Surjection(P, A)
      BY DEF Surjection
    <2> QED
      BY <1>2, <2>1, FS_Surjection
  <1>4. IsFiniteSet(stray) /\ Cardinality(stray) <= MaxStray
    BY StrayFinite DEF LeaseInv, TokensApart
  <1>5. IsFiniteSet(B) /\ Cardinality(B) <= Cardinality(stray)
    <2>1. g \in Surjection(stray, B)
      BY DEF Surjection
    <2> QED
      BY <1>4, <2>1, FS_Surjection
  <1>6. InUse \subseteq ((A \union B) \union {key}) \union {NoTok}
    <2>1. \A q \in Pod : Placed(q)
      BY DEF LeaseInv, Places
    <2>2. \A q \in P : tok[q] \in {TokenOf(q), NoTok} /\ req[q] \in {TokenOf(q), NoTok}
      BY <2>1 DEF Placed, TokenOf
    <2>3. tok[p] = NoTok /\ req[p] = NoTok
      BY <2>1 DEF Placed
    <2>4. \A q \in Pod : tok[q] \in A \union {NoTok} /\ req[q] \in A \union {NoTok}
      BY <2>2, <2>3
    <2> HIDE DEF A
    <2> QED
      BY <2>4 DEF InUse
  <1> HIDE DEF A, B, P
  <1>7. /\ IsFiniteSet(A \union B)
        /\ Cardinality(A \union B) <= Cardinality(A) + Cardinality(B)
    <2>1. /\ IsFiniteSet(A \union B) /\ IsFiniteSet(A \intersect B)
          /\ Cardinality(A \union B) = Cardinality(A) + Cardinality(B) - Cardinality(A \intersect B)
      BY <1>3, <1>5, FS_Union, FS_Intersection
    <2>2. Cardinality(A \intersect B) \in Nat /\ Cardinality(A) \in Nat /\ Cardinality(B) \in Nat
      BY <1>3, <1>5, <2>1, FS_CardinalityType
    <2> QED
      BY <2>1, <2>2
  <1> DEFINE U == (A \union B) \union {key}
  <1>8. IsFiniteSet(U) /\ Cardinality(U) <= Cardinality(A \union B) + 1
    <2>1. IsFiniteSet({key}) /\ Cardinality({key}) = 1
      BY FS_Singleton
    <2>2. /\ IsFiniteSet(U) /\ IsFiniteSet((A \union B) \intersect {key})
          /\ Cardinality(U) = Cardinality(A \union B) + Cardinality({key})
                                - Cardinality((A \union B) \intersect {key})
      BY <1>7, <2>1, FS_Union, FS_Intersection
    <2>3. Cardinality((A \union B) \intersect {key}) \in Nat /\ Cardinality(A \union B) \in Nat
      BY <1>7, <2>2, FS_CardinalityType
    <2> QED
      BY <2>1, <2>2, <2>3
  <1>9. Cardinality(U) < Cardinality(Token)
    <2>1. /\ Cardinality(A) \in Nat /\ Cardinality(B) \in Nat /\ Cardinality(U) \in Nat
          /\ Cardinality(P) \in Nat /\ Cardinality(stray) \in Nat /\ Cardinality(A \union B) \in Nat
      BY <1>2, <1>3, <1>4, <1>5, <1>7, <1>8, FS_CardinalityType
    <2>2. Cardinality(Token) > Cardinality(Pod) + MaxStray
      BY LeaseAssumption
    <2> HIDE DEF U
    <2> QED
      BY <1>1, <1>2, <1>3, <1>4, <1>5, <1>7, <1>8, <2>1, <2>2
  <1>10. \E t \in Token : t \notin U
    <2>1. SUFFICES ASSUME Token \subseteq U PROVE FALSE
      OBVIOUS
    <2>2. Cardinality(Token) <= Cardinality(U) /\ Cardinality(U) \in Nat
      BY <1>8, <2>1, FS_Subset, FS_CardinalityType
    <2> QED
      BY <1>1, <1>9, <2>2
  <1>11. \E t \in Token : t \notin InUse
    BY <1>6, <1>10, Constants
  <1> QED
    BY <1>11 DEF FreshToken

-----------------------------------------------------------------------------
(* One pod at a time.                                                      *)

PodsTyped ==
  /\ at \in [Pod -> {"down", "acquire", "hold", "stop"}]
  /\ phase \in [Pod -> {"wait", "sent", "yes", "no"}]
  /\ timer \in [Pod -> Nat]
  /\ impl \in [Pod -> {"noop", "redis"}]
  /\ held \in [Pod -> BOOLEAN]
  /\ tok \in [Pod -> Token \union {NoTok}] /\ req \in [Pod -> Token \union {NoTok}]
  /\ since \in [Pod -> 0..TTL] /\ lapsed \in [Pod -> 0..TTL]

\* No pod but p moves.
Others(p) ==
  \A q \in Pod : q # p =>
    /\ at'[q] = at[q] /\ phase'[q] = phase[q] /\ timer'[q] = timer[q]
    /\ impl'[q] = impl[q] /\ held'[q] = held[q]
    /\ tok'[q] = tok[q] /\ req'[q] = req[q] /\ since'[q] = since[q] /\ lapsed'[q] = lapsed[q]

\* Where pod p is next.
Became(p, a, ph, t, i, h, tk, rq, s, l) ==
  /\ at'[p] = a /\ phase'[p] = ph /\ timer'[p] = t /\ impl'[p] = i /\ held'[p] = h
  /\ tok'[p] = tk /\ req'[p] = rq /\ since'[p] = s /\ lapsed'[p] = l

\* No function changes but at p.
Touched(p) ==
  /\ at' = [at EXCEPT ![p] = at'[p]] /\ phase' = [phase EXCEPT ![p] = phase'[p]]
  /\ timer' = [timer EXCEPT ![p] = timer'[p]] /\ impl' = [impl EXCEPT ![p] = impl'[p]]
  /\ held' = [held EXCEPT ![p] = held'[p]] /\ tok' = [tok EXCEPT ![p] = tok'[p]]
  /\ req' = [req EXCEPT ![p] = req'[p]] /\ since' = [since EXCEPT ![p] = since'[p]]
  /\ lapsed' = [lapsed EXCEPT ![p] = lapsed'[p]]

\* The values of one pod are replaced, the others stay.
LEMMA PodSet ==
  ASSUME PodsTyped, NEW p \in Pod, Touched(p),
         at'[p] \in {"down", "acquire", "hold", "stop"}, phase'[p] \in {"wait", "sent", "yes", "no"},
         timer'[p] \in Nat, impl'[p] \in {"noop", "redis"}, held'[p] \in BOOLEAN,
         tok'[p] \in Token \union {NoTok}, req'[p] \in Token \union {NoTok},
         since'[p] \in 0..TTL, lapsed'[p] \in 0..TTL
  PROVE  PodsTyped' /\ Others(p)
  <1>1. PodsTyped'
    <2>1. /\ at' \in [Pod -> {"down", "acquire", "hold", "stop"}]
          /\ phase' \in [Pod -> {"wait", "sent", "yes", "no"}]
      BY DEF PodsTyped, Touched
    <2>2. timer' \in [Pod -> Nat] /\ impl' \in [Pod -> {"noop", "redis"}]
      BY DEF PodsTyped, Touched
    <2>3. held' \in [Pod -> BOOLEAN]
      BY Zenon DEF PodsTyped, Touched
    <2>4. tok' \in [Pod -> Token \union {NoTok}] /\ req' \in [Pod -> Token \union {NoTok}]
      BY DEF PodsTyped, Touched
    <2>5. since' \in [Pod -> 0..TTL] /\ lapsed' \in [Pod -> 0..TTL]
      BY DEF PodsTyped, Touched
    <2> QED
      BY <2>1, <2>2, <2>3, <2>4, <2>5 DEF PodsTyped
  <1>2. ASSUME NEW q \in Pod, q # p
        PROVE  /\ at'[q] = at[q] /\ phase'[q] = phase[q] /\ timer'[q] = timer[q]
               /\ impl'[q] = impl[q] /\ tok'[q] = tok[q]
               /\ req'[q] = req[q] /\ since'[q] = since[q] /\ lapsed'[q] = lapsed[q]
    BY <1>2 DEF PodsTyped, Touched
  <1>3. ASSUME NEW q \in Pod, q # p PROVE held'[q] = held[q]
    BY <1>3 DEF PodsTyped, Touched
  <1> QED
    BY <1>1, <1>2, <1>3 DEF Others

\* Nothing of one pod: an update by the old value.
LEMMA PodSame ==
  ASSUME PodsTyped, NEW p \in Pod
  PROVE  /\ at = [at EXCEPT ![p] = at[p]] /\ phase = [phase EXCEPT ![p] = phase[p]]
         /\ timer = [timer EXCEPT ![p] = timer[p]] /\ impl = [impl EXCEPT ![p] = impl[p]]
         /\ held = [held EXCEPT ![p] = held[p]] /\ tok = [tok EXCEPT ![p] = tok[p]]
         /\ req = [req EXCEPT ![p] = req[p]] /\ since = [since EXCEPT ![p] = since[p]]
         /\ lapsed = [lapsed EXCEPT ![p] = lapsed[p]]
         /\ at[p] \in {"down", "acquire", "hold", "stop"} /\ phase[p] \in {"wait", "sent", "yes", "no"}
         /\ timer[p] \in Nat /\ impl[p] \in {"noop", "redis"} /\ held[p] \in BOOLEAN
         /\ tok[p] \in Token \union {NoTok} /\ req[p] \in Token \union {NoTok}
         /\ since[p] \in 0..TTL /\ lapsed[p] \in 0..TTL
  BY DEF PodsTyped

\* The request of a pod in a round trip.
LEMMA RequestType ==
  ASSUME PodsTyped, NEW p \in Pod, Placed(p), phase[p] # "wait"
  PROVE  /\ Request(p) \in [op : Op, tok : Token] /\ Request(p).tok = req[p]
         /\ Request(p).op = "refresh" <=> at[p] = "hold"
         /\ Request(p).op = "acquire" <=> at[p] = "acquire"
  <1>1. req[p] \in Token
    BY DEF PodsTyped, Placed
  <1>2. at[p] \in {"acquire", "hold", "stop"}
    BY DEF PodsTyped, Placed
  <1> QED
    BY <1>1, <1>2 DEF Request, Op

\* A step of pod p that leaves the key alone, takes on no token of another
\* pod, and abandons at most its own request.
LEMMA LocalStep ==
  ASSUME LeaseInv, NEW p \in Pod, PodsTyped', Others(p), UNCHANGED <<key, left>>,
         stable' \in BOOLEAN, headless' \in Nat, Placed(p)', Timed(p)',
         \A t \in {tok'[p], req'[p]} : t \in {tok[p], req[p], NoTok} \/ t \notin InUse,
         \/ stray' = stray
         \/ /\ Forsake(p)
            /\ at[p] = "hold" \/ (tok'[p] = NoTok /\ req'[p] = NoTok)
  PROVE  LeaseInv'
  <1>0. TypeOK /\ Places /\ TokensApart /\ LeaseTimes /\ PodsTyped
    BY DEF LeaseInv, TypeOK, PodsTyped
  <1>1. \A q \in Pod : Placed(q)'
    <2>1. SUFFICES ASSUME NEW q \in Pod, q # p PROVE Placed(q)'
      OBVIOUS
    <2> QED
      BY <1>0, <2>1 DEF Places, Placed, Others
  <1>2. \A q \in Pod : Timed(q)'
    <2>1. SUFFICES ASSUME NEW q \in Pod, q # p PROVE Timed(q)'
      OBVIOUS
    <2> QED
      BY <1>0, <2>1 DEF LeaseTimes, Timed, Leased, Waiting, Refreshing, Others
  <1>3. Places'
    BY <1>0, <1>1 DEF Places
  <1>4. stray' = stray \/ /\ stray' = stray \union {Request(p)} /\ phase[p] = "sent"
                          /\ Cardinality(stray) < MaxStray
                          /\ at[p] = "hold" \/ (tok'[p] = NoTok /\ req'[p] = NoTok)
    BY DEF Forsake
  <1>5. phase[p] = "sent" => /\ Request(p) \in [op : Op, tok : Token] /\ Request(p).tok = req[p]
                             /\ Request(p).op = "refresh" <=> at[p] = "hold"
    BY <1>0, RequestType DEF Places
  <1>6. stray' \subseteq [op : {"acquire", "refresh", "release"}, tok : Token]
    BY <1>0, <1>4, <1>5 DEF TypeOK, Op
  <1>7. TypeOK'
    BY <1>0, <1>6 DEF TypeOK, PodsTyped
  <1>8. Cardinality(stray') <= MaxStray
    <2>1. CASE stray' = stray
      BY <1>0, <2>1 DEF TokensApart
    <2>2. CASE stray' = stray \union {Request(p)} /\ Cardinality(stray) < MaxStray
      <3>1. IsFiniteSet(stray) /\ Cardinality(stray) \in Nat
        BY <1>0, StrayFinite, FS_CardinalityType
      <3>2. Cardinality(stray') = Cardinality(stray) \/ Cardinality(stray') = Cardinality(stray) + 1
        BY <2>2, <3>1, FS_AddElement
      <3> QED
        BY <2>2, <3>1, <3>2, Constants
    <2> QED
      BY <1>4, <2>1, <2>2
  <1>9. \A q \in Pod : tok[q] \in InUse /\ req[q] \in InUse
    BY DEF InUse
  <1>10. \A r \in stray : r.tok \in InUse
    BY DEF InUse
  <1>11. ASSUME NEW q \in Pod, q # p
         PROVE  {tok'[p], req'[p]} \intersect {tok[q], req[q]} \subseteq {NoTok}
    BY <1>0, <1>9, <1>11 DEF TokensApart
  <1>12. \A a, b \in Pod : a # b => {tok'[a], req'[a]} \intersect {tok'[b], req'[b]} \subseteq {NoTok}
    <2>1. SUFFICES ASSUME NEW a \in Pod, NEW b \in Pod, a # b
                   PROVE  {tok'[a], req'[a]} \intersect {tok'[b], req'[b]} \subseteq {NoTok}
      OBVIOUS
    <2>2. CASE a = p
      BY <1>11, <2>1, <2>2 DEF Others
    <2>3. CASE b = p
      BY <1>11, <2>1, <2>3 DEF Others
    <2>4. CASE a # p /\ b # p
      BY <1>0, <2>1, <2>4 DEF Others, TokensApart
    <2> QED
      BY <2>2, <2>3, <2>4
  <1>13. ASSUME NEW q \in Pod, NEW r \in stray', r.op # "refresh"
         PROVE  r.tok \notin {tok'[q], req'[q]}
    <2>1. CASE r \in stray
      <3>1. r.tok \in Token /\ r.tok # NoTok
        BY <1>0, <2>1, Constants DEF TypeOK
      <3>2. r.tok \notin {tok[q], req[q]} /\ r.tok \notin {tok[p], req[p]}
        BY <1>0, <1>13, <2>1 DEF TokensApart
      <3> QED
        BY <1>10, <2>1, <3>1, <3>2 DEF Others
    <2>2. CASE r \notin stray
      <3>1. /\ r = Request(p) /\ r.tok = req[p] /\ r.tok \in Token /\ r.tok # NoTok
            /\ tok'[p] = NoTok /\ req'[p] = NoTok
        BY <1>4, <1>5, <1>13, <2>2, Constants
      <3>2. CASE q = p
        BY <3>1, <3>2
      <3>3. CASE q # p
        <4>1. {tok[p], req[p]} \intersect {tok[q], req[q]} \subseteq {NoTok}
          BY <1>0, <3>3 DEF TokensApart
        <4>2. tok'[q] = tok[q] /\ req'[q] = req[q]
          BY <3>3 DEF Others
        <4> QED
          BY <3>1, <4>1, <4>2
      <3> QED
        BY <3>2, <3>3
    <2> QED
      BY <2>1, <2>2
  <1>14. TokensApart'
    BY <1>8, <1>12, <1>13 DEF TokensApart
  <1> QED
    BY <1>2, <1>3, <1>7, <1>14 DEF LeaseInv, LeaseTimes

\* The bounds of a wait and of a refresh in flight, written out.
LEMMA WaitCases ==
  ASSUME NEW x \in Int
  PROVE  (\E k \in 1..3 : k * Refresh <= x /\ x <= k * Refresh + (k - 1) * RPCMax)
           <=> \/ x = Refresh
               \/ 2 * Refresh <= x /\ x <= 2 * Refresh + RPCMax
               \/ 3 * Refresh <= x /\ x <= 3 * Refresh + 2 * RPCMax
  <1> DEFINE W(k) == k * Refresh <= x /\ x <= k * Refresh + (k - 1) * RPCMax
  <1>1. (\E k \in 1..3 : W(k)) <=> W(1) \/ W(2) \/ W(3)
    <2>1. \A k \in 1..3 : k = 1 \/ k = 2 \/ k = 3
      OBVIOUS
    <2>2. 1 \in 1..3 /\ 2 \in 1..3 /\ 3 \in 1..3
      OBVIOUS
    <2> HIDE DEF W
    <2> QED
      BY <2>1, <2>2
  <1>2. W(1) <=> x = Refresh
    BY Constants
  <1>3. W(2) <=> 2 * Refresh <= x /\ x <= 2 * Refresh + RPCMax
    BY Constants
  <1>4. W(3) <=> 3 * Refresh <= x /\ x <= 3 * Refresh + 2 * RPCMax
    BY Constants
  <1> HIDE DEF W
  <1>5. (\E k \in 1..3 : W(k))
           <=> \/ x = Refresh
               \/ 2 * Refresh <= x /\ x <= 2 * Refresh + RPCMax
               \/ 3 * Refresh <= x /\ x <= 3 * Refresh + 2 * RPCMax
    BY <1>1, <1>2, <1>3, <1>4
  <1> QED
    BY <1>5 DEF W

\* The same for the round trip.
LEMMA RefreshCases ==
  ASSUME NEW s \in Int, NEW x \in Int
  PROVE  (\E k \in 1..2 : k * Refresh <= s /\ x <= k * Refresh + k * RPCMax)
           <=> \/ Refresh <= s /\ x <= Refresh + RPCMax
               \/ 2 * Refresh <= s /\ x <= 2 * Refresh + 2 * RPCMax
  <1> DEFINE W(k) == k * Refresh <= s /\ x <= k * Refresh + k * RPCMax
  <1>1. (\E k \in 1..2 : W(k)) <=> W(1) \/ W(2)
    <2>1. \A k \in 1..2 : k = 1 \/ k = 2
      OBVIOUS
    <2>2. 1 \in 1..2 /\ 2 \in 1..2
      OBVIOUS
    <2> HIDE DEF W
    <2> QED
      BY <2>1, <2>2
  <1>2. W(1) <=> Refresh <= s /\ x <= Refresh + RPCMax
    BY Constants
  <1>3. W(2) <=> 2 * Refresh <= s /\ x <= 2 * Refresh + 2 * RPCMax
    BY Constants
  <1> HIDE DEF W
  <1>4. (\E k \in 1..2 : W(k))
           <=> \/ Refresh <= s /\ x <= Refresh + RPCMax
               \/ 2 * Refresh <= s /\ x <= 2 * Refresh + 2 * RPCMax
    BY <1>1, <1>2, <1>3
  <1> QED
    BY <1>4 DEF W

\* What a pod that leads on Redis knows of its lease, written out.
LeasedNow(p) ==
  /\ since[p] + RPCMax < TTL => key = tok[p] /\ left + since[p] + RPCMax >= TTL
  /\ since[p] < TTL => lapsed[p] = 0 \/ lapsed[p] + TTL <= since[p] + RPCMax
  /\ key = tok[p] => lapsed[p] = 0
  /\ phase[p] = "wait" /\ since[p] < TTL =>
       \/ since[p] + timer[p] = Refresh
       \/ 2 * Refresh <= since[p] + timer[p] /\ since[p] + timer[p] <= 2 * Refresh + RPCMax
       \/ 3 * Refresh <= since[p] + timer[p] /\ since[p] + timer[p] <= 3 * Refresh + 2 * RPCMax
  /\ phase[p] = "wait" /\ since[p] >= TTL => lapsed[p] + timer[p] <= 3 * RPCMax
  /\ phase[p] # "wait" /\ since[p] < TTL =>
       \/ Refresh <= since[p] /\ since[p] + timer[p] <= Refresh + RPCMax
       \/ 2 * Refresh <= since[p] /\ since[p] + timer[p] <= 2 * Refresh + 2 * RPCMax
  /\ phase[p] # "wait" /\ since[p] >= TTL => lapsed[p] + timer[p] <= 4 * RPCMax

\* Leased is what it is written out to be.
LEMMA LeasedCases ==
  ASSUME PodsTyped, NEW p \in Pod
  PROVE  Leased(p) <=> LeasedNow(p)
  <1>1. since[p] \in Nat /\ timer[p] \in Nat /\ TTL \in Nat /\ since[p] + timer[p] \in Int
        /\ since[p] \in Int
    BY Constants DEF PodsTyped
  <1>2. Waiting(p) <=>
          IF since[p] < TTL
          THEN \/ since[p] + timer[p] = Refresh
               \/ 2 * Refresh <= since[p] + timer[p] /\ since[p] + timer[p] <= 2 * Refresh + RPCMax
               \/ 3 * Refresh <= since[p] + timer[p] /\ since[p] + timer[p] <= 3 * Refresh + 2 * RPCMax
          ELSE lapsed[p] + timer[p] <= 3 * RPCMax
    BY <1>1, WaitCases DEF Waiting
  <1>3. Refreshing(p) <=>
          IF since[p] < TTL
          THEN \/ Refresh <= since[p] /\ since[p] + timer[p] <= Refresh + RPCMax
               \/ 2 * Refresh <= since[p] /\ since[p] + timer[p] <= 2 * Refresh + 2 * RPCMax
          ELSE lapsed[p] + timer[p] <= 4 * RPCMax
    BY <1>1, RefreshCases DEF Refreshing
  <1>4. since[p] < TTL \/ since[p] >= TTL
    BY <1>1
  <1>5. ~(since[p] < TTL /\ since[p] >= TTL)
    BY <1>1
  <1> QED
    BY <1>2, <1>3, <1>4, <1>5 DEF Leased, LeasedNow

\* The same in the next state.
LEMMA LeasedNext ==
  ASSUME NEW p \in Pod
  PROVE  PodsTyped' => (Leased(p)' <=> LeasedNow(p)')
  <1>1. PodsTyped => (Leased(p) <=> LeasedNow(p))
    BY LeasedCases
  <1> QED
    BY <1>1, PTL

\* What the invariant says of one pod.
LEMMA PodFacts ==
  ASSUME LeaseInv, NEW p \in Pod
  PROVE  /\ PodsTyped /\ Placed(p) /\ Timed(p) /\ (Leased(p) <=> LeasedNow(p))
         /\ timer[p] \in Nat /\ since[p] \in Nat /\ since[p] <= TTL
         /\ lapsed[p] \in Nat /\ lapsed[p] <= TTL /\ left \in Nat
         /\ stable \in BOOLEAN /\ headless \in Nat
         /\ key \in Token \union {NoTok}
  <1>1. PodsTyped /\ Placed(p) /\ Timed(p)
    BY DEF LeaseInv, TypeOK, PodsTyped, Places, LeaseTimes
  <1>2. timer[p] \in Nat /\ since[p] \in Nat /\ since[p] <= TTL /\ lapsed[p] \in Nat /\ lapsed[p] <= TTL
    BY <1>1, Constants DEF PodsTyped
  <1>3. left \in Nat /\ stable \in BOOLEAN /\ headless \in Nat /\ key \in Token \union {NoTok}
    BY Constants DEF LeaseInv, TypeOK
  <1> QED
    BY <1>1, <1>2, <1>3, LeasedCases

\* The pod comes to rest: down, or in the acquire loop without a token.
LEMMA ToRest ==
  ASSUME LeaseInv, NEW p \in Pod, PodsTyped', Others(p), UNCHANGED <<key, left, stable, headless>>,
         NEW a \in {"down", "acquire"}, NEW t \in Nat, t <= Retry, NEW i, NEW s,
         Became(p, a, "wait", t, i, FALSE, NoTok, NoTok, s, 0),
         stray' = stray \/ Forsake(p)
  PROVE  LeaseInv'
  <1>0. stable \in BOOLEAN /\ headless \in Nat
    BY PodFacts
  <1>1. Placed(p)'
    BY DEF Became, Placed
  <1>2. Timed(p)'
    BY DEF Became, Timed
  <1>3. tok'[p] = NoTok /\ req'[p] = NoTok
    BY DEF Became
  <1> QED
    BY <1>0, <1>1, <1>2, <1>3, LocalStep

\* Demote ends in the acquire loop.
LEMMA DemoteInv ==
  ASSUME LeaseInv, NEW p \in Pod, Demote(p), UNCHANGED <<key, left, impl, stable, headless>>,
         stray' = stray \/ Forsake(p)
  PROVE  LeaseInv'
  <1>1. PodsTyped
    BY PodFacts
  <1>2. 0 \in Nat /\ 0 \in 0..TTL /\ 0 <= Retry /\ NoTok \in Token \union {NoTok}
    BY Constants
  <1>3. /\ at' = [at EXCEPT ![p] = "acquire"] /\ phase' = [phase EXCEPT ![p] = "wait"]
        /\ timer' = [timer EXCEPT ![p] = 0] /\ impl' = [impl EXCEPT ![p] = impl[p]]
        /\ held' = [held EXCEPT ![p] = FALSE] /\ tok' = [tok EXCEPT ![p] = NoTok]
        /\ req' = [req EXCEPT ![p] = NoTok] /\ since' = [since EXCEPT ![p] = 0]
        /\ lapsed' = [lapsed EXCEPT ![p] = 0]
    BY <1>1, PodSame DEF Demote, MoveTo
  <1>4. impl[p] \in {"noop", "redis"}
    BY <1>1, PodSame
  <1>5. Became(p, "acquire", "wait", 0, impl[p], FALSE, NoTok, NoTok, 0, 0)
    BY <1>1, <1>3 DEF PodsTyped, Became
  <1>6. Touched(p)
    BY <1>3, <1>5 DEF Became, Touched
  <1>7. PodsTyped' /\ Others(p)
    BY <1>1, <1>2, <1>4, <1>5, <1>6, PodSet DEF Became
  <1> QED
    BY <1>2, <1>5, <1>7, ToRest

\* The process ends.
LEMMA GoneInv ==
  ASSUME LeaseInv, NEW p \in Pod, Gone(p), UNCHANGED <<key, left, stable, headless>>,
         stray' = stray \/ Forsake(p)
  PROVE  LeaseInv'
  <1>1. PodsTyped
    BY PodFacts
  <1>2. 0 \in Nat /\ 0 \in 0..TTL /\ 0 <= Retry /\ NoTok \in Token \union {NoTok}
    BY Constants
  <1>3. Became(p, "down", "wait", 0, "redis", FALSE, NoTok, NoTok, 0, 0)
    BY <1>1 DEF Gone, MoveTo, PodsTyped, Became
  <1>4. Touched(p)
    BY <1>3 DEF Gone, MoveTo, Became, Touched
  <1>5. PodsTyped' /\ Others(p)
    BY <1>1, <1>2, <1>3, <1>4, PodSet DEF Became
  <1> QED
    BY <1>2, <1>3, <1>5, ToRest

\* A win on the always-leader fallback, or with the lease just granted.
LEMMA WinInv ==
  ASSUME LeaseInv, NEW p \in Pod, Win(p), UNCHANGED <<key, left, impl, stray, stable, headless, lapsed>>,
         lapsed[p] = 0,
         NEW tk \in Token \union {NoTok}, tok' = [tok EXCEPT ![p] = tk],
         tk \in {tok[p], req[p]},
         impl[p] = "noop" => tk = NoTok,
         tk # NoTok => key = tk /\ left + RPCMax >= TTL
  PROVE  LeaseInv'
  <1>0. PodsTyped /\ stable \in BOOLEAN /\ headless \in Nat /\ left \in Nat
    BY PodFacts
  <1>1. 0 \in 0..TTL /\ Refresh \in Nat /\ NoTok \in Token \union {NoTok} /\ TRUE \in BOOLEAN
    BY Constants
  <1>2. PodsTyped' /\ Others(p)
        /\ Became(p, "hold", "wait", Refresh, impl[p], TRUE, tk, NoTok, 0, lapsed[p])
    <2>1. /\ at' = [at EXCEPT ![p] = "hold"] /\ phase' = [phase EXCEPT ![p] = "wait"]
          /\ timer' = [timer EXCEPT ![p] = Refresh] /\ impl' = [impl EXCEPT ![p] = impl[p]]
          /\ held' = [held EXCEPT ![p] = TRUE] /\ tok' = [tok EXCEPT ![p] = tk]
          /\ req' = [req EXCEPT ![p] = NoTok] /\ since' = [since EXCEPT ![p] = 0]
          /\ lapsed' = [lapsed EXCEPT ![p] = lapsed[p]]
      BY <1>0, PodSame DEF Win, MoveTo
    <2>2. impl[p] \in {"noop", "redis"} /\ lapsed[p] \in 0..TTL
      BY <1>0, PodSame
    <2>3. Became(p, "hold", "wait", Refresh, impl[p], TRUE, tk, NoTok, 0, lapsed[p])
      BY <1>0, <2>1 DEF PodsTyped, Became
    <2>4. Touched(p)
      BY <2>1, <2>3 DEF Became, Touched
    <2> QED
      BY <1>0, <1>1, <2>2, <2>3, <2>4, PodSet DEF Became
  <1>3. Placed(p)'
    BY <1>2 DEF Became, Placed
  <1>4. Timed(p)'
    <2>1. tk # NoTok => LeasedNow(p)'
      BY <1>0, <1>2, Constants DEF Became, LeasedNow
    <2>2. tk # NoTok => Leased(p)'
      BY <1>2, <2>1, LeasedNext
    <2> QED
      BY <1>2, <2>2, Constants DEF Became, Timed
  <1>5. tok'[p] = tk /\ req'[p] = NoTok
    BY <1>2 DEF Became
  <1> QED
    BY <1>0, <1>2, <1>3, <1>4, <1>5, LocalStep

\* TryAcquire and its answer.
LEMMA AcquireInv ==
  ASSUME LeaseInv, NEW p \in Pod, CallAcquire(p) \/ AcquireReply(p) \/ AcquireError(p)
  PROVE  LeaseInv'
  <1>0. /\ PodsTyped /\ Placed(p) /\ Timed(p) /\ stable \in BOOLEAN /\ headless \in Nat
        /\ tok[p] \in Token \union {NoTok} /\ req[p] \in Token \union {NoTok}
        /\ timer[p] \in Nat /\ left \in Nat
    BY PodFacts, PodSame
  <1>1. at[p] = "acquire" /\ held[p] = FALSE /\ tok[p] = NoTok /\ lapsed[p] = 0
    BY <1>0 DEF CallAcquire, AcquireReply, AcquireError, Placed, Timed, PodsTyped
  <1>2. 0 \in Nat /\ 0 \in 0..TTL /\ Retry \in Nat /\ RPCMax \in Nat /\ NoTok \in Token \union {NoTok}
        /\ Retry <= Retry
    BY Constants
  <1>3. CASE CallAcquire(p) /\ impl[p] = "noop"
    <2>1. Win(p) /\ UNCHANGED <<key, left, impl, stray, stable, headless, lapsed, tok>>
      BY <1>3 DEF CallAcquire
    <2>2. tok' = [tok EXCEPT ![p] = NoTok]
      BY <1>0, <1>1, <2>1, PodSame
    <2> QED
      BY <1>1, <1>2, <2>1, <2>2, WinInv
  <1>4. CASE CallAcquire(p) /\ impl[p] # "noop"
    <2>1. /\ MoveTo(p, "acquire", "sent", RPCMax, FreshToken) /\ phase[p] = "wait"
          /\ UNCHANGED <<held, since, key, left, stray, impl, tok, stable, lapsed, headless>>
      BY <1>4 DEF CallAcquire
    <2>2. FreshToken \in Token /\ FreshToken \notin InUse
      BY <1>1, <2>1, FreshTokenType
    <2>3. PICK f \in Token : f = FreshToken
      BY <2>2
    <2>4. /\ at' = [at EXCEPT ![p] = "acquire"] /\ phase' = [phase EXCEPT ![p] = "sent"]
          /\ timer' = [timer EXCEPT ![p] = RPCMax] /\ req' = [req EXCEPT ![p] = f]
      BY <2>1, <2>3 DEF MoveTo
    <2>5. PodsTyped' /\ Others(p)
          /\ Became(p, "acquire", "sent", RPCMax, impl[p], held[p], tok[p], f, since[p], lapsed[p])
      <3>1. /\ at' = [at EXCEPT ![p] = "acquire"] /\ phase' = [phase EXCEPT ![p] = "sent"]
            /\ timer' = [timer EXCEPT ![p] = RPCMax] /\ impl' = [impl EXCEPT ![p] = impl[p]]
            /\ held' = [held EXCEPT ![p] = held[p]] /\ tok' = [tok EXCEPT ![p] = tok[p]]
            /\ req' = [req EXCEPT ![p] = f] /\ since' = [since EXCEPT ![p] = since[p]]
            /\ lapsed' = [lapsed EXCEPT ![p] = lapsed[p]]
        BY <1>0, <2>1, <2>4, PodSame
      <3>2. /\ impl[p] \in {"noop", "redis"} /\ held[p] \in BOOLEAN
            /\ since[p] \in 0..TTL /\ lapsed[p] \in 0..TTL
        BY <1>0, PodSame
      <3>3. Became(p, "acquire", "sent", RPCMax, impl[p], held[p], tok[p], f, since[p], lapsed[p])
        BY <1>0, <3>1 DEF PodsTyped, Became
      <3>4. Touched(p)
        BY <3>1, <3>3 DEF Became, Touched
      <3> QED
        BY <1>0, <1>2, <3>2, <3>3, <3>4, PodSet DEF Became
    <2>6. impl[p] = "redis" /\ f # NoTok
      BY <1>0, <1>4, Constants DEF PodsTyped
    <2>7. Placed(p)'
      BY <1>0, <1>1, <2>5, <2>6 DEF Became, Placed
    <2>8. Timed(p)'
      BY <1>1, <1>2, <2>5 DEF Became, Timed
    <2>9. \A t \in {tok'[p], req'[p]} : t \in {tok[p], req[p], NoTok} \/ t \notin InUse
      BY <2>2, <2>3, <2>5 DEF Became
    <2> QED
      BY <1>0, <2>1, <2>5, <2>7, <2>8, <2>9, LocalStep
  <1>5. CASE AcquireReply(p) /\ phase[p] = "yes"
    <2>1. /\ Win(p) /\ UNCHANGED <<key, left, impl, stray, stable, headless, lapsed>>
          /\ tok' = [tok EXCEPT ![p] = req[p]]
      BY <1>5 DEF AcquireReply
    <2>2. key = req[p] /\ left + RPCMax >= TTL + timer[p] /\ impl[p] = "redis"
      BY <1>0, <1>1, <1>5 DEF Timed, Placed
    <2>3. left + RPCMax >= TTL
      BY <1>0, <2>2, Constants
    <2>4. PICK r \in Token \union {NoTok} : r = req[p]
      BY <1>0
    <2>5. tok' = [tok EXCEPT ![p] = r] /\ r \in {tok[p], req[p]} /\ key = r
      BY <2>1, <2>2, <2>4
    <2> QED
      BY <1>1, <2>1, <2>2, <2>3, <2>5, WinInv
  <1>6. CASE AcquireError(p) \/ (AcquireReply(p) /\ phase[p] = "no")
    <2>1. /\ MoveTo(p, "acquire", "wait", Retry, NoTok) /\ (stray' = stray \/ Forsake(p))
          /\ UNCHANGED <<key, left, impl, held, tok, since, stable, lapsed, headless>>
      BY <1>6 DEF AcquireError, AcquireReply
    <2>2. PodsTyped' /\ Others(p)
          /\ Became(p, "acquire", "wait", Retry, impl[p], held[p], tok[p], NoTok, since[p], lapsed[p])
      <3>1. /\ at' = [at EXCEPT ![p] = "acquire"] /\ phase' = [phase EXCEPT ![p] = "wait"]
            /\ timer' = [timer EXCEPT ![p] = Retry] /\ impl' = [impl EXCEPT ![p] = impl[p]]
            /\ held' = [held EXCEPT ![p] = held[p]] /\ tok' = [tok EXCEPT ![p] = tok[p]]
            /\ req' = [req EXCEPT ![p] = NoTok] /\ since' = [since EXCEPT ![p] = since[p]]
            /\ lapsed' = [lapsed EXCEPT ![p] = lapsed[p]]
        BY <1>0, <2>1, PodSame DEF MoveTo
      <3>2. /\ impl[p] \in {"noop", "redis"} /\ held[p] \in BOOLEAN
            /\ since[p] \in 0..TTL /\ lapsed[p] \in 0..TTL
        BY <1>0, PodSame
      <3>3. Became(p, "acquire", "wait", Retry, impl[p], held[p], tok[p], NoTok, since[p], lapsed[p])
        BY <1>0, <3>1 DEF PodsTyped, Became
      <3>4. Touched(p)
        BY <3>1, <3>3 DEF Became, Touched
      <3> QED
        BY <1>0, <1>2, <3>2, <3>3, <3>4, PodSet DEF Became
    <2>3. Became(p, "acquire", "wait", Retry, impl[p], FALSE, NoTok, NoTok, since[p], 0)
      BY <1>1, <2>2
    <2>4. PICK i : i = impl[p]
      OBVIOUS
    <2>5. PICK s : s = since[p]
      OBVIOUS
    <2> QED
      BY <1>2, <2>1, <2>2, <2>3, <2>4, <2>5, ToRest
  <1> QED
    BY <1>3, <1>4, <1>5, <1>6 DEF AcquireReply

\* The pod moves within its place: a refresh or a deferred release is sent, or
\* a failed refresh is waited out.  What it knows of its lease stays.
LEMMA SameLease ==
  ASSUME LeaseInv, NEW p \in Pod, NEW a \in {"hold", "stop"}, NEW ph \in {"wait", "sent"},
         NEW t \in Nat, NEW rq \in Token \union {NoTok}, NEW tk \in Token \union {NoTok},
         MoveTo(p, a, ph, t, rq), tok' = [tok EXCEPT ![p] = tk],
         UNCHANGED <<impl, held, since, lapsed>>
  PROVE  /\ PodsTyped' /\ Others(p)
         /\ Became(p, a, ph, t, impl[p], held[p], tk, rq, since[p], lapsed[p])
  <1>0. PodsTyped
    BY PodFacts
  <1>1. /\ at' = [at EXCEPT ![p] = a] /\ phase' = [phase EXCEPT ![p] = ph]
        /\ timer' = [timer EXCEPT ![p] = t] /\ impl' = [impl EXCEPT ![p] = impl[p]]
        /\ held' = [held EXCEPT ![p] = held[p]] /\ tok' = [tok EXCEPT ![p] = tk]
        /\ req' = [req EXCEPT ![p] = rq] /\ since' = [since EXCEPT ![p] = since[p]]
        /\ lapsed' = [lapsed EXCEPT ![p] = lapsed[p]]
    BY <1>0, PodSame DEF MoveTo
  <1>2. Became(p, a, ph, t, impl[p], held[p], tk, rq, since[p], lapsed[p])
    BY <1>0, <1>1 DEF PodsTyped, Became
  <1>3. Touched(p)
    BY <1>1, <1>2 DEF Became, Touched
  <1>4. /\ impl[p] \in {"noop", "redis"} /\ held[p] \in BOOLEAN
        /\ since[p] \in 0..TTL /\ lapsed[p] \in 0..TTL
    BY <1>0, PodSame
  <1> QED
    BY <1>0, <1>2, <1>3, <1>4, PodSet DEF Became

\* Refresh, its answer and its failure: the third failure in a row comes when
\* the lease is over, and demotes.
LEMMA RefreshInv ==
  ASSUME LeaseInv, NEW p \in Pod, CallRefresh(p) \/ RefreshReply(p) \/ RefreshError(p)
  PROVE  LeaseInv'
  <1>0. /\ PodsTyped /\ Placed(p) /\ Timed(p) /\ stable \in BOOLEAN /\ headless \in Nat
        /\ tok[p] \in Token \union {NoTok} /\ req[p] \in Token \union {NoTok}
        /\ timer[p] \in Nat /\ left \in Nat /\ since[p] \in Nat /\ since[p] <= TTL
        /\ lapsed[p] \in Nat /\ impl[p] \in {"noop", "redis"} /\ held[p] \in BOOLEAN
        /\ tok = [tok EXCEPT ![p] = tok[p]] /\ (Leased(p) <=> LeasedNow(p))
    BY PodFacts, PodSame
  <1>1. at[p] = "hold" /\ held[p]
    BY <1>0 DEF CallRefresh, RefreshReply, RefreshError, Placed
  <1>2. RPCMax \in Nat /\ Refresh \in Nat /\ NoTok \in Token \union {NoTok}
    BY Constants
  <1>3. CASE CallRefresh(p) /\ impl[p] = "noop"
    <2>1. Win(p) /\ UNCHANGED <<key, left, impl, stray, stable, headless, lapsed, tok>>
      BY <1>3 DEF CallRefresh
    <2>2. tok[p] = NoTok /\ lapsed[p] = 0 /\ tok' = [tok EXCEPT ![p] = NoTok]
      BY <1>0, <1>3, <2>1 DEF Placed, Timed
    <2> QED
      BY <1>2, <2>1, <2>2, WinInv
  <1>4. CASE Demote(p) /\ UNCHANGED <<key, left, impl, stable, headless>>
             /\ (stray' = stray \/ Forsake(p))
    BY <1>4, DemoteInv
  <1>5. CASE CallRefresh(p) /\ impl[p] # "noop" /\ tok[p] # NoTok
    <2>1. /\ MoveTo(p, "hold", "sent", RPCMax, tok[p]) /\ phase[p] = "wait" /\ timer[p] = 0
          /\ UNCHANGED <<key, left, stray, impl, stable, headless, held, tok, since, lapsed>>
      BY <1>0, <1>5 DEF CallRefresh
    <2>2. PICK k \in Token \union {NoTok} : k = tok[p]
      BY <1>0
    <2>3. MoveTo(p, "hold", "sent", RPCMax, k) /\ tok' = [tok EXCEPT ![p] = k] /\ k # NoTok
      BY <1>0, <1>5, <2>1, <2>2
    <2>4. PodsTyped' /\ Others(p)
          /\ Became(p, "hold", "sent", RPCMax, impl[p], held[p], k, k, since[p], lapsed[p])
      BY <1>2, <2>1, <2>3, SameLease
    <2>5. Placed(p)'
      BY <1>0, <1>1, <1>5, <2>3, <2>4 DEF Became, Placed
    <2>6. LeasedNow(p)
      BY <1>0, <1>1, <1>5 DEF Timed
    <2>7. LeasedNow(p)'
      BY <1>0, <2>1, <2>2, <2>4, <2>6, Constants DEF Became, LeasedNow
    <2>8. Timed(p)'
      <3>1. Leased(p)'
        BY <2>4, <2>7, LeasedNext
      <3> QED
        BY <1>1, <1>2, <1>5, <2>3, <2>4, <3>1, <1>0 DEF Became, Timed
    <2>9. tok'[p] = k /\ req'[p] = k /\ k = tok[p]
      BY <2>2, <2>4 DEF Became
    <2> QED
      BY <1>0, <2>1, <2>4, <2>5, <2>8, <2>9, LocalStep
  <1>6. CASE RefreshReply(p) /\ phase[p] = "yes"
    <2>1. Win(p) /\ UNCHANGED <<key, left, impl, stray, stable, headless, lapsed, tok>>
      BY <1>6 DEF RefreshReply
    <2>2. key = req[p] /\ left + RPCMax >= TTL + timer[p] /\ impl[p] = "redis" /\ req[p] = tok[p]
          /\ req[p] # NoTok
      BY <1>0, <1>1, <1>6 DEF Timed, Placed
    <2>3. left + RPCMax >= TTL
      BY <1>0, <2>2, Constants
    <2>4. LeasedNow(p)
      BY <1>0, <1>1, <2>2 DEF Timed
    <2>5. lapsed[p] = 0
      BY <2>2, <2>4 DEF LeasedNow
    <2>6. PICK k \in Token \union {NoTok} : k = tok[p]
      BY <1>0
    <2>7. tok' = [tok EXCEPT ![p] = k] /\ k \in {tok[p], req[p]} /\ key = k
      BY <1>0, <2>1, <2>2, <2>6
    <2> QED
      BY <2>1, <2>2, <2>3, <2>5, <2>7, WinInv
  <1>7. CASE RefreshError(p) /\ ~refreshOutlivedLease(p)
    <2>1. /\ MoveTo(p, "hold", "wait", Refresh, NoTok) /\ phase[p] # "wait" /\ since[p] < TTL
          /\ Forsake(p) /\ UNCHANGED <<key, left, impl, stable, headless, held, tok, since, lapsed>>
      BY <1>0, <1>7, Constants DEF RefreshError, refreshOutlivedLease
    <2>2. PICK k \in Token \union {NoTok} : k = tok[p]
      BY <1>0
    <2>3. tok' = [tok EXCEPT ![p] = k] /\ k # NoTok /\ impl[p] = "redis"
      BY <1>0, <1>1, <2>1, <2>2 DEF Placed
    <2>4. PodsTyped' /\ Others(p)
          /\ Became(p, "hold", "wait", Refresh, impl[p], held[p], k, NoTok, since[p], lapsed[p])
      BY <1>2, <2>1, <2>3, SameLease
    <2>5. Placed(p)'
      BY <1>0, <1>1, <2>3, <2>4 DEF Became, Placed
    <2>6. LeasedNow(p)
      BY <1>0, <1>1, <2>2, <2>3 DEF Timed
    <2>7. LeasedNow(p)'
      BY <1>0, <2>1, <2>2, <2>4, <2>6, Constants DEF Became, LeasedNow
    <2>8. Timed(p)'
      <3>1. Leased(p)'
        BY <2>4, <2>7, LeasedNext
      <3> QED
        BY <1>0, <1>1, <2>3, <2>4, <3>1 DEF Became, Timed
    <2>9. tok'[p] = tok[p] /\ req'[p] = NoTok
      BY <2>2, <2>4 DEF Became
    <2> QED
      BY <1>0, <1>1, <2>1, <2>4, <2>5, <2>8, <2>9, LocalStep
  <1> QED
    <2>1. CASE CallRefresh(p)
      BY <1>0, <1>3, <1>4, <1>5, <2>1 DEF CallRefresh
    <2>2. CASE RefreshReply(p)
      BY <1>4, <1>6, <2>2 DEF RefreshReply
    <2>3. CASE RefreshError(p)
      BY <1>4, <1>7, <2>3 DEF RefreshError
    <2> QED
      BY <2>1, <2>2, <2>3

\* Shutdown, the end of the deferred release, a crash.
LEMMA StopInv ==
  ASSUME LeaseInv, NEW p \in Pod, Shutdown(p) \/ ReleaseReturns(p) \/ Crash(p)
  PROVE  LeaseInv'
  <1>0. /\ PodsTyped /\ Placed(p) /\ Timed(p) /\ stable \in BOOLEAN /\ headless \in Nat
        /\ tok[p] \in Token \union {NoTok}
        /\ timer[p] \in Nat /\ since[p] \in Nat /\ since[p] <= TTL
        /\ lapsed[p] \in Nat /\ impl[p] \in {"noop", "redis"} /\ held[p] \in BOOLEAN
        /\ Leased(p) <=> LeasedNow(p)
    BY PodFacts, PodSame
  <1>1. CASE Gone(p) /\ UNCHANGED <<key, left, stable, headless>> /\ (stray' = stray \/ Forsake(p))
    BY <1>1, GoneInv
  <1>2. CASE Shutdown(p) /\ ~Gone(p)
    <2>1. /\ held[p] /\ impl[p] = "redis" /\ tok[p] # NoTok /\ Forsake(p)
          /\ ~(at[p] = "hold" /\ phase[p] # "wait" /\ refreshOutlivedLease(p))
          /\ MoveTo(p, "stop", "sent", RPCMax, tok[p]) /\ tok' = [tok EXCEPT ![p] = NoTok]
          /\ UNCHANGED <<impl, held, since, lapsed, key, left, stable, headless>>
      BY <1>2 DEF Shutdown
    <2>2. at[p] = "hold" /\ (phase[p] = "wait" \/ since[p] < TTL)
      BY <1>0, <2>1, Constants DEF Placed, refreshOutlivedLease
    <2>3. PICK k \in Token \union {NoTok} : k = tok[p]
      BY <1>0
    <2>4. MoveTo(p, "stop", "sent", RPCMax, k) /\ k # NoTok
      BY <2>1, <2>3
    <2>5. RPCMax \in Nat /\ NoTok \in Token \union {NoTok}
      BY Constants
    <2>6. PodsTyped' /\ Others(p)
          /\ Became(p, "stop", "sent", RPCMax, impl[p], held[p], NoTok, k, since[p], lapsed[p])
      BY <2>1, <2>4, <2>5, SameLease
    <2>7. Placed(p)'
      BY <1>0, <2>1, <2>4, <2>6 DEF Became, Placed
    <2>8. LeasedNow(p)
      BY <1>0, <2>1, <2>2 DEF Timed
    <2>9. lapsed[p] <= 3 * RPCMax
      BY <1>0, <2>2, <2>8, Constants DEF LeasedNow
    <2>10. Timed(p)'
      BY <1>0, <2>1, <2>5, <2>6, <2>9 DEF Became, Timed
    <2>11. tok'[p] = NoTok /\ req'[p] = tok[p]
      BY <2>3, <2>6 DEF Became
    <2> QED
      BY <1>0, <2>1, <2>2, <2>6, <2>7, <2>10, <2>11, LocalStep
  <1> QED
    BY <1>1, <1>2 DEF Shutdown, ReleaseReturns, Crash

\* A pod boots, or finds Redis: its lock is swapped in under it.
LEMMA BootInv ==
  ASSUME LeaseInv, NEW p \in Pod, Boot(p) \/ Reprobe(p)
  PROVE  LeaseInv'
  <1>0. /\ PodsTyped /\ Placed(p) /\ Timed(p) /\ stable \in BOOLEAN /\ headless \in Nat
        /\ tok[p] \in Token \union {NoTok} /\ at[p] \in {"down", "acquire", "hold", "stop"}
        /\ phase[p] \in {"wait", "sent", "yes", "no"} /\ req[p] \in Token \union {NoTok}
        /\ timer[p] \in Nat /\ since[p] \in 0..TTL /\ lapsed[p] \in 0..TTL /\ held[p] \in BOOLEAN
    BY PodFacts, PodSame
  <1>1. 0 \in Nat /\ 0 <= Retry /\ NoTok \in Token \union {NoTok} /\ Refresh \in Nat
    BY Constants
  <1>2. CASE Boot(p)
    <2>1. PICK i \in {"redis", "noop"} : impl' = [impl EXCEPT ![p] = i]
      BY <1>2 DEF Boot
    <2>2. /\ at[p] = "down" /\ MoveTo(p, "acquire", "wait", 0, NoTok)
          /\ UNCHANGED <<key, left, stray, held, tok, since, stable, lapsed, headless>>
      BY <1>2 DEF Boot
    <2>3. held[p] = FALSE /\ tok[p] = NoTok /\ lapsed[p] = 0
      BY <1>0, <2>2 DEF Placed, Timed
    <2>4. /\ at' = [at EXCEPT ![p] = "acquire"] /\ phase' = [phase EXCEPT ![p] = "wait"]
          /\ timer' = [timer EXCEPT ![p] = 0] /\ impl' = [impl EXCEPT ![p] = i]
          /\ held' = [held EXCEPT ![p] = FALSE] /\ tok' = [tok EXCEPT ![p] = NoTok]
          /\ req' = [req EXCEPT ![p] = NoTok] /\ since' = [since EXCEPT ![p] = since[p]]
          /\ lapsed' = [lapsed EXCEPT ![p] = 0]
      BY <1>0, <2>1, <2>2, <2>3, PodSame DEF MoveTo
    <2>5. PICK s \in 0..TTL : s = since[p]
      BY <1>0
    <2>6. Became(p, "acquire", "wait", 0, i, FALSE, NoTok, NoTok, s, 0)
      BY <1>0, <2>4, <2>5 DEF PodsTyped, Became
    <2>7. Touched(p)
      BY <2>4, <2>5, <2>6 DEF Became, Touched
    <2>8. 0 \in 0..TTL
      BY Constants
    <2>9. PodsTyped' /\ Others(p)
      BY <1>0, <1>1, <2>6, <2>7, <2>8, PodSet DEF Became
    <2> QED
      BY <1>1, <2>2, <2>6, <2>9, ToRest
  <1>3. CASE Reprobe(p)
    <2>1. /\ at[p] # "down" /\ impl[p] = "noop" /\ impl' = [impl EXCEPT ![p] = "redis"]
          /\ UNCHANGED <<key, left, stray, at, phase, timer, held, tok, req, since, stable, lapsed, headless>>
      BY <1>3 DEF Reprobe
    <2>2. /\ phase[p] = "wait" /\ tok[p] = NoTok /\ lapsed[p] = 0 /\ at[p] # "stop"
      BY <1>0, <2>1 DEF Placed, Timed
    <2>3. Became(p, at[p], phase[p], timer[p], "redis", held[p], tok[p], req[p], since[p], lapsed[p])
      BY <1>0, <2>1 DEF PodsTyped, Became
    <2>4. Touched(p)
      BY <1>0, <2>1, <2>3, PodSame DEF Became, Touched
    <2>5. PodsTyped' /\ Others(p)
      BY <1>0, <2>3, <2>4, PodSet DEF Became
    <2>6. Placed(p)'
      BY <1>0, <2>1, <2>2, <2>3 DEF Became, Placed
    <2>7. Timed(p)'
      BY <1>0, <1>1, <2>1, <2>2, <2>3 DEF Became, Timed
    <2>8. tok'[p] = tok[p] /\ req'[p] = req[p]
      BY <2>3 DEF Became
    <2> QED
      BY <1>0, <2>1, <2>5, <2>6, <2>7, <2>8, LocalStep
  <1> QED
    BY <1>2, <1>3

-----------------------------------------------------------------------------
(* The server and the clock.                                               *)

\* What serving a request does to a token that is not its to release: it stays
\* under the key for no shorter, and does not come to be there.
LEMMA Served ==
  ASSUME key \in Token \union {NoTok}, left \in 0..TTL, key = NoTok <=> left = 0,
         NEW r \in [op : Op, tok : Token], Serve(r)
  PROVE  /\ key' \in Token \union {NoTok} /\ left' \in 0..TTL /\ (key' = NoTok <=> left' = 0)
         /\ \A t \in Token : r.op = "refresh" \/ r.tok # t =>
              (key' = t <=> key = t) /\ (key = t => left' >= left)
         /\ ~Granted(r) => key' = key /\ left' = left
         /\ Granted(r) /\ r.op # "release" => key' = r.tok /\ left' = TTL
  <1>1. TTL \in Nat /\ TTL > 0 /\ NoTok \notin Token /\ r.tok \in Token /\ r.op \in Op
    BY Constants
  <1>2. CASE ~Granted(r)
    BY <1>1, <1>2 DEF Serve
  <1>3. CASE Granted(r) /\ r.op = "release"
    BY <1>1, <1>3 DEF Serve, Granted
  <1>4. CASE Granted(r) /\ r.op = "refresh"
    BY <1>1, <1>4 DEF Serve, Granted
  <1>5. CASE Granted(r) /\ r.op = "acquire"
    BY <1>1, <1>5 DEF Serve, Granted
  <1> QED
    BY <1>1, <1>2, <1>3, <1>4, <1>5 DEF Op

\* A pod that does not move and whose token is not released keeps its lease.
LEMMA StillTimed ==
  ASSUME LeaseInv, NEW q \in Pod, PodsTyped', left' \in Nat,
         at'[q] = at[q], phase'[q] = phase[q], timer'[q] = timer[q], impl'[q] = impl[q],
         held'[q] = held[q], tok'[q] = tok[q], req'[q] = req[q], since'[q] = since[q],
         lapsed'[q] = lapsed[q],
         \A t \in Token \intersect {tok[q], req[q]} : (key' = t <=> key = t) /\ (key = t => left' >= left)
  PROVE  Placed(q)' /\ Timed(q)'
  <1>0. /\ PodsTyped /\ Placed(q) /\ Timed(q) /\ (Leased(q) <=> LeasedNow(q))
        /\ timer[q] \in Nat /\ since[q] \in Nat /\ left \in Nat /\ lapsed[q] \in Nat
        /\ tok[q] \in Token \union {NoTok} /\ req[q] \in Token \union {NoTok}
    BY PodFacts, PodSame
  <1>1. Placed(q)'
    BY <1>0 DEF Placed
  <1>2. at[q] = "hold" /\ tok[q] # NoTok => LeasedNow(q)'
    <2>1. SUFFICES ASSUME at[q] = "hold", tok[q] # NoTok PROVE LeasedNow(q)'
      OBVIOUS
    <2>2. LeasedNow(q)
      BY <1>0, <2>1 DEF Timed
    <2>3. (key' = tok[q] <=> key = tok[q]) /\ (key = tok[q] => left' >= left)
      BY <1>0, <2>1
    <2> QED
      BY <1>0, <2>2, <2>3, Constants DEF LeasedNow
  <1>3. phase[q] = "yes" /\ at[q] # "stop" => key' = req[q] /\ left' + RPCMax >= TTL + timer[q]
    <2>1. SUFFICES ASSUME phase[q] = "yes", at[q] # "stop"
                   PROVE  key' = req[q] /\ left' + RPCMax >= TTL + timer[q]
      OBVIOUS
    <2>2. key = req[q] /\ left + RPCMax >= TTL + timer[q] /\ req[q] \in Token
      BY <1>0, <2>1 DEF Timed, Placed
    <2> QED
      BY <1>0, <2>2, Constants
  <1>4. Timed(q)'
    <2>1. at[q] = "hold" /\ tok[q] # NoTok => Leased(q)'
      BY <1>2, LeasedNext
    <2> QED
      BY <1>0, <1>3, <2>1 DEF Timed
  <1> QED
    BY <1>1, <1>4

\* The server executes a request in flight: the caller learns the answer, and
\* nobody else's token is concerned.
LEMMA ExecuteInv ==
  ASSUME LeaseInv, NEW p \in Pod, Execute(p)
  PROVE  LeaseInv'
  <1>0. /\ PodsTyped /\ Placed(p) /\ Timed(p) /\ (Leased(p) <=> LeasedNow(p))
        /\ TypeOK /\ Places /\ TokensApart /\ LeaseTimes
        /\ timer[p] \in Nat /\ since[p] \in Nat /\ left \in Nat /\ lapsed[p] \in Nat
        /\ key \in Token \union {NoTok} /\ left \in 0..TTL /\ (key = NoTok <=> left = 0)
    BY PodFacts DEF LeaseInv, TypeOK, Places
  <1> DEFINE r == Request(p)
             ph == IF Granted(r) THEN "yes" ELSE "no"
  <1>1. /\ at[p] # "down" /\ phase[p] = "sent" /\ Serve(r) /\ phase' = [phase EXCEPT ![p] = ph]
        /\ UNCHANGED <<stray, at, timer, impl, held, tok, req, since, stable, lapsed, headless>>
    BY DEF Execute
  <1>2. /\ r \in [op : Op, tok : Token] /\ r.tok = req[p]
        /\ (r.op = "refresh" <=> at[p] = "hold") /\ (r.op = "acquire" <=> at[p] = "acquire")
    BY <1>0, <1>1, RequestType
  <1>3. ph \in {"yes", "no"} /\ (ph = "yes" <=> Granted(r))
    OBVIOUS
  <1> HIDE DEF r, ph
  <1>4. /\ key' \in Token \union {NoTok} /\ left' \in 0..TTL /\ (key' = NoTok <=> left' = 0)
        /\ \A t \in Token : r.op = "refresh" \/ r.tok # t =>
              (key' = t <=> key = t) /\ (key = t => left' >= left)
        /\ ~Granted(r) => key' = key /\ left' = left
        /\ Granted(r) /\ r.op # "release" => key' = r.tok /\ left' = TTL
    BY <1>0, <1>1, <1>2, Served
  <1>5. phase' \in [Pod -> {"wait", "sent", "yes", "no"}] /\ phase'[p] = ph
        /\ \A q \in Pod : q # p => phase'[q] = phase[q]
    BY <1>0, <1>1, <1>3 DEF PodsTyped
  <1>6. PodsTyped' /\ TypeOK' /\ left' \in Nat
    BY <1>0, <1>1, <1>4, <1>5, Constants DEF PodsTyped, TypeOK
  <1>7. ASSUME NEW q \in Pod, q # p PROVE Placed(q)' /\ Timed(q)'
    <2>1. req[p] \in Token /\ req[p] # NoTok
      BY <1>2, Constants
    <2>2. req[p] \notin {tok[q], req[q]}
      <3>1. {tok[p], req[p]} \intersect {tok[q], req[q]} \subseteq {NoTok}
        BY <1>0, <1>7 DEF TokensApart
      <3> QED
        BY <2>1, <3>1
    <2>3. \A t \in Token \intersect {tok[q], req[q]} :
            (key' = t <=> key = t) /\ (key = t => left' >= left)
      BY <1>2, <1>4, <2>2
    <2> QED
      BY <1>1, <1>5, <1>6, <1>7, <2>3, StillTimed
  <1>8. Placed(p)'
    BY <1>0, <1>1, <1>3, <1>5 DEF Placed
  <1>9. Timed(p)'
    <2>1. at[p] = "hold" /\ tok[p] # NoTok => Leased(p)'
      <3>1. SUFFICES ASSUME at[p] = "hold", tok[p] # NoTok PROVE LeasedNow(p)'
        BY <1>6, LeasedNext
      <3>2. LeasedNow(p) /\ req[p] = tok[p]
        BY <1>0, <1>1, <3>1 DEF Timed, Placed
      <3>3. (key' = tok[p] <=> key = tok[p]) /\ (key = tok[p] => left' >= left)
        BY <1>2, <1>4, <3>1, <3>2
      <3> QED
        BY <1>0, <1>1, <1>3, <1>5, <1>6, <3>2, <3>3, Constants DEF LeasedNow
    <2>2. at[p] # "stop" /\ ph = "yes" => key' = req[p] /\ left' + RPCMax >= TTL + timer[p]
      <3>1. SUFFICES ASSUME at[p] # "stop", ph = "yes"
                     PROVE  key' = req[p] /\ left' + RPCMax >= TTL + timer[p]
        OBVIOUS
      <3>2. r.op # "release"
        BY <1>0, <1>1, <1>2, <3>1 DEF Op, PodsTyped
      <3>3. key' = req[p] /\ left' = TTL
        BY <1>2, <1>3, <1>4, <3>1, <3>2
      <3>4. timer[p] <= RPCMax
        BY <1>0, <1>1 DEF Timed
      <3> QED
        BY <1>0, <3>3, <3>4, Constants
    <2> QED
      BY <1>0, <1>1, <1>3, <1>5, <2>1, <2>2 DEF Timed
  <1>10. Places' /\ LeaseTimes'
    BY <1>4, <1>7, <1>8, <1>9 DEF Places, LeaseTimes
  <1>11. TokensApart'
    BY <1>0, <1>1 DEF TokensApart
  <1> QED
    BY <1>6, <1>10, <1>11 DEF LeaseInv

\* An abandoned request is executed or lost: only a refresh may carry a token
\* some pod still knows.
LEMMA StrayInv ==
  ASSUME LeaseInv, NEW r \in stray, StrayServed(r) \/ StrayLost(r)
  PROVE  LeaseInv'
  <1>0. /\ TypeOK /\ Places /\ TokensApart /\ LeaseTimes /\ PodsTyped
        /\ key \in Token \union {NoTok} /\ left \in 0..TTL /\ (key = NoTok <=> left = 0)
        /\ r \in [op : Op, tok : Token]
    BY DEF LeaseInv, TypeOK, Places, PodsTyped, Op
  <1>1. stray' = stray \ {r} /\ UNCHANGED <<podVars, stable, lapsed, headless>>
    BY DEF StrayServed, StrayLost
  <1>2. UNCHANGED <<at, phase, timer, impl, held, tok, req, since>>
    BY <1>1 DEF podVars
  <1>3. /\ key' \in Token \union {NoTok} /\ left' \in 0..TTL /\ (key' = NoTok <=> left' = 0)
        /\ \A t \in Token : r.op = "refresh" \/ r.tok # t =>
              (key' = t <=> key = t) /\ (key = t => left' >= left)
    <2>1. CASE StrayServed(r)
      BY <1>0, <2>1, Served DEF StrayServed
    <2>2. CASE StrayLost(r)
      BY <1>0, <2>2, Constants DEF StrayLost
    <2> QED
      BY <2>1, <2>2
  <1>4. TypeOK' /\ PodsTyped' /\ left' \in Nat
    BY <1>0, <1>1, <1>2, <1>3, Constants DEF TypeOK, PodsTyped
  <1>5. ASSUME NEW q \in Pod PROVE Placed(q)' /\ Timed(q)'
    <2>1. r.op = "refresh" \/ r.tok \notin {tok[q], req[q]}
      BY <1>0 DEF TokensApart
    <2>2. \A t \in Token \intersect {tok[q], req[q]} :
            (key' = t <=> key = t) /\ (key = t => left' >= left)
      BY <1>3, <2>1
    <2> QED
      BY <1>1, <1>2, <1>4, <2>2, StillTimed
  <1>6. TokensApart'
    <2>1. IsFiniteSet(stray) /\ Cardinality(stray) \in Nat
      BY <1>0, StrayFinite, FS_CardinalityType
    <2>2. Cardinality(stray') <= Cardinality(stray) /\ Cardinality(stray') \in Nat
      BY <1>1, <2>1, FS_Subset, FS_CardinalityType
    <2>3. Cardinality(stray') <= MaxStray
      BY <1>0, <2>1, <2>2, Constants DEF TokensApart
    <2> QED
      BY <1>0, <1>1, <1>2, <2>3 DEF TokensApart
  <1> QED
    BY <1>3, <1>4, <1>5, <1>6 DEF LeaseInv, Places, LeaseTimes

\* The clock, for one pod.
TickOf(p) ==
  /\ timer'[p] = IF p \in Up THEN timer[p] - 1 ELSE 0
  /\ since'[p] = IF at[p] = "hold" THEN AtMost(TTL, since[p] + 1) ELSE 0
  /\ lapsed'[p] = IF held[p] /\ impl[p] = "redis" /\ ~Owns(p) THEN AtMost(TTL, lapsed[p] + 1) ELSE 0
  /\ at'[p] = at[p] /\ phase'[p] = phase[p] /\ impl'[p] = impl[p] /\ held'[p] = held[p]
  /\ tok'[p] = tok[p] /\ req'[p] = req[p]
  /\ p \in Up => timer[p] >= 1

\* What a tick does to the server's lease.
TickKey ==
  /\ left' = IF left > 0 THEN left - 1 ELSE 0
  /\ key' = IF left > 1 THEN key ELSE NoTok

\* A tick keeps the types and the key's lease.
LEMMA TickTypes ==
  ASSUME LeaseInv, Tick
  PROVE  /\ TypeOK' /\ PodsTyped' /\ TickKey /\ (key' = NoTok <=> left' = 0)
         /\ \A p \in Pod : TickOf(p)
  <1>0. TypeOK /\ PodsTyped /\ (key = NoTok <=> left = 0) /\ TTL \in Nat /\ MaxHeadless \in Nat
    BY Constants DEF LeaseInv, TypeOK, PodsTyped, Places, MaxHeadless
  <1>1. TickKey /\ key' \in Token \union {NoTok} /\ left' \in 0..TTL /\ (key' = NoTok <=> left' = 0)
    BY <1>0 DEF Tick, TypeOK, TickKey
  <1>2. ASSUME NEW p \in Pod
        PROVE  /\ (IF p \in Up THEN timer[p] - 1 ELSE 0) \in Nat
               /\ (IF at[p] = "hold" THEN AtMost(TTL, since[p] + 1) ELSE 0) \in 0..TTL
               /\ (IF held[p] /\ impl[p] = "redis" /\ ~Owns(p)
                   THEN AtMost(TTL, lapsed[p] + 1) ELSE 0) \in 0..TTL
               /\ p \in Up => timer[p] >= 1
    <2>1. timer[p] \in Nat /\ since[p] \in 0..TTL /\ lapsed[p] \in 0..TTL
      BY <1>0 DEF PodsTyped
    <2>2. p \in Up => timer[p] > 0
      BY DEF Tick
    <2> QED
      BY <1>0, <2>1, <2>2 DEF AtMost
  <1>3. timer' \in [Pod -> Nat] /\ since' \in [Pod -> 0..TTL] /\ lapsed' \in [Pod -> 0..TTL]
    BY <1>2 DEF Tick
  <1>4. headless' \in Nat
    BY <1>0 DEF Tick, AtMost, TypeOK
  <1>5. UNCHANGED <<stray, at, phase, impl, held, tok, req, stable>>
    BY DEF Tick
  <1>6. TypeOK' /\ PodsTyped'
    BY <1>0, <1>1, <1>3, <1>4, <1>5 DEF TypeOK, PodsTyped
  <1>7. ASSUME NEW p \in Pod PROVE TickOf(p)
    <2>1. /\ timer'[p] = IF p \in Up THEN timer[p] - 1 ELSE 0
          /\ since'[p] = IF at[p] = "hold" THEN AtMost(TTL, since[p] + 1) ELSE 0
          /\ lapsed'[p] = IF held[p] /\ impl[p] = "redis" /\ ~Owns(p)
                          THEN AtMost(TTL, lapsed[p] + 1) ELSE 0
      BY DEF Tick
    <2> QED
      BY <1>2, <1>5, <2>1 DEF TickOf
  <1> QED
    BY <1>1, <1>6, <1>7

\* A tick on a leader that knows its lease: the sum of what it has counted and
\* what it still waits for stays, and what it leads without the lease is
\* counted against what its wait has left.
LEMMA TickLeased ==
  ASSUME LeaseInv, NEW p \in Pod, TickKey, TickOf(p), at[p] = "hold", tok[p] # NoTok
  PROVE  LeasedNow(p)'
  <1>0. /\ LeasedNow(p) /\ impl[p] = "redis" /\ held[p] /\ p \in Up
        /\ timer[p] \in Nat /\ since[p] \in Nat /\ since[p] <= TTL
        /\ lapsed[p] \in Nat /\ lapsed[p] <= TTL /\ left \in Nat
    <2>1. Placed(p) /\ Timed(p) /\ PodsTyped /\ (Leased(p) <=> LeasedNow(p))
      BY PodFacts
    <2>2. impl[p] \in {"noop", "redis"}
      BY <2>1, PodSame
    <2> QED
      BY <2>1, <2>2, PodFacts DEF Placed, Timed, Up
  <1>1. /\ timer'[p] = timer[p] - 1 /\ timer[p] >= 1 /\ phase'[p] = phase[p] /\ tok'[p] = tok[p]
        /\ since'[p] = IF since[p] + 1 <= TTL THEN since[p] + 1 ELSE TTL
    BY <1>0 DEF TickOf, AtMost
  <1>2. IF key = tok[p] THEN lapsed'[p] = 0
        ELSE lapsed'[p] = IF lapsed[p] + 1 <= TTL THEN lapsed[p] + 1 ELSE TTL
    BY <1>0 DEF TickOf, AtMost, Owns, LeaseOf
  <1>3. since'[p] + RPCMax < TTL => key' = tok[p] /\ left' + since'[p] + RPCMax >= TTL
    BY <1>0, <1>1, Constants DEF LeasedNow, TickKey
  <1>4. since'[p] < TTL => lapsed'[p] = 0 \/ lapsed'[p] + TTL <= since'[p] + RPCMax
    BY <1>0, <1>1, <1>2, Constants DEF LeasedNow
  <1>5. key' = tok[p] => lapsed'[p] = 0
    BY <1>2 DEF TickKey
  <1>6. lapsed'[p] <= lapsed[p] + 1 /\ lapsed'[p] \in Nat
    BY <1>0, <1>2, Constants
  <1>7. CASE phase[p] = "wait"
    <2>1. CASE since[p] + 1 < TTL
      BY <1>0, <1>1, <1>3, <1>4, <1>5, <1>7, <2>1, Constants DEF LeasedNow
    <2>2. CASE since[p] + 1 = TTL
      <3>1. timer'[p] <= 2 * RPCMax
        BY <1>0, <1>1, <1>7, <2>2, Constants DEF LeasedNow
      <3>2. lapsed[p] + 1 <= RPCMax
        BY <1>0, <2>2, Constants DEF LeasedNow
      <3> QED
        BY <1>0, <1>1, <1>3, <1>4, <1>5, <1>6, <1>7, <2>2, <3>1, <3>2, Constants DEF LeasedNow
    <2>3. CASE since[p] = TTL
      BY <1>0, <1>1, <1>3, <1>4, <1>5, <1>6, <1>7, <2>3, Constants DEF LeasedNow
    <2> QED
      BY <1>0, <2>1, <2>2, <2>3, Constants
  <1>8. CASE phase[p] # "wait"
    <2>1. CASE since[p] + 1 < TTL
      BY <1>0, <1>1, <1>3, <1>4, <1>5, <1>8, <2>1, Constants DEF LeasedNow
    <2>2. CASE since[p] + 1 = TTL
      BY <1>0, <1>1, <1>8, <2>2, Constants DEF LeasedNow
    <2>3. CASE since[p] = TTL
      BY <1>0, <1>1, <1>3, <1>4, <1>5, <1>6, <1>8, <2>3, Constants DEF LeasedNow
    <2> QED
      BY <1>0, <2>1, <2>2, <2>3, Constants
  <1> QED
    BY <1>7, <1>8

\* The clock moves on.
LEMMA TickInv ==
  ASSUME LeaseInv, Tick
  PROVE  LeaseInv'
  <1>0. /\ TypeOK' /\ PodsTyped' /\ TickKey /\ (key' = NoTok <=> left' = 0)
        /\ \A p \in Pod : TickOf(p)
    BY TickTypes
  <1>1. ASSUME NEW p \in Pod PROVE Placed(p)' /\ Timed(p)'
    <2>0. /\ Placed(p) /\ Timed(p) /\ TickOf(p) /\ (p \in Up <=> at[p] # "down")
          /\ timer[p] \in Nat /\ lapsed[p] \in Nat /\ left \in Nat
          /\ impl[p] \in {"noop", "redis"} /\ at[p] \in {"down", "acquire", "hold", "stop"}
      BY <1>0, PodFacts, PodSame DEF Up
    <2>1. Placed(p)'
      BY <2>0 DEF Placed, TickOf
    <2>2. timer'[p] \in Nat /\ (at[p] # "down" => timer'[p] = timer[p] - 1 /\ timer[p] >= 1)
          /\ (at[p] = "down" => timer'[p] = 0)
      BY <2>0 DEF TickOf
    <2>3. lapsed'[p] \in Nat /\ lapsed'[p] <= lapsed[p] + 1
          /\ (~held[p] \/ impl[p] = "noop" => lapsed'[p] = 0)
      BY <2>0, Constants DEF TickOf, AtMost
    <2>4. at[p] = "hold" /\ tok[p] # NoTok => Leased(p)'
      BY <1>0, <2>0, TickLeased, LeasedNext
    <2>5. at[p] # "stop" /\ phase[p] = "yes" => key' = req[p] /\ left' + RPCMax >= TTL + timer'[p]
      <3>1. SUFFICES ASSUME at[p] # "stop", phase[p] = "yes"
                     PROVE  key' = req[p] /\ left' + RPCMax >= TTL + timer'[p]
        OBVIOUS
      <3>2. key = req[p] /\ left + RPCMax >= TTL + timer[p] /\ at[p] # "down"
        BY <2>0, <3>1 DEF Timed, Placed
      <3>3. left > 1 /\ left' = left - 1
        BY <1>0, <2>0, <2>2, <3>2, Constants DEF TickKey
      <3> QED
        BY <1>0, <2>0, <2>2, <3>2, <3>3, Constants DEF TickKey
    <2>6. /\ at[p] = "stop" => lapsed'[p] + timer'[p] <= 4 * RPCMax
          /\ at[p] = "hold" /\ tok[p] = NoTok => lapsed'[p] + timer'[p] <= Refresh
      BY <2>0, <2>2, <2>3, Constants DEF Timed
    <2>7. /\ phase[p] # "wait" => timer'[p] <= RPCMax
          /\ at[p] = "acquire" /\ phase[p] = "wait" => timer'[p] <= Retry
      BY <2>0, <2>2, Constants DEF Timed, Placed
    <2>8. /\ at'[p] = at[p] /\ phase'[p] = phase[p] /\ impl'[p] = impl[p] /\ held'[p] = held[p]
          /\ tok'[p] = tok[p] /\ req'[p] = req[p]
      BY <2>0 DEF TickOf
    <2>9. Timed(p)'
      BY <2>3, <2>4, <2>5, <2>6, <2>7, <2>8 DEF Timed
    <2> QED
      BY <2>1, <2>9
  <1>2. TokensApart'
    BY DEF LeaseInv, TokensApart, Tick
  <1> QED
    BY <1>0, <1>1, <1>2 DEF LeaseInv, Places, LeaseTimes

-----------------------------------------------------------------------------
(* The theorems.                                                           *)

\* Nothing is known and nothing is held at first.
LEMMA LeaseInit ==
  ASSUME Init
  PROVE  LeaseInv
  <1>0. /\ TTL \in Nat /\ Retry \in Nat /\ 0 \in 0..TTL /\ 0 <= Retry
        /\ NoTok = 0 /\ MaxStray \in Nat /\ Cardinality({}) = 0
    BY Constants, FS_EmptySet
  <1>1. held \in [Pod -> BOOLEAN] /\ stable \in BOOLEAN
    BY DEF Init
  <1>2. TypeOK
    BY <1>0, <1>1 DEF Init, TypeOK
  <1>3. Places
    BY <1>0 DEF Init, Places, Placed
  <1>4. TokensApart
    BY <1>0 DEF Init, TokensApart
  <1>5. LeaseTimes
    BY <1>0 DEF Init, LeaseTimes, Timed
  <1> QED
    BY <1>2, <1>3, <1>4, <1>5 DEF LeaseInv

\* Every step, and no step, keeps the invariant.
LEMMA LeaseNext ==
  ASSUME LeaseInv, [Next]_vars
  PROVE  LeaseInv'
  <1>1. ASSUME NEW p \in Pod, Holder(p) \/ Execute(p) \/ AcquireError(p) \/ RefreshError(p)
                              \/ Shutdown(p) \/ Crash(p) \/ Boot(p) \/ Reprobe(p)
        PROVE  LeaseInv'
    <2>1. CASE CallAcquire(p) \/ AcquireReply(p) \/ AcquireError(p)
      BY <2>1, AcquireInv
    <2>2. CASE CallRefresh(p) \/ RefreshReply(p) \/ RefreshError(p)
      BY <2>2, RefreshInv
    <2>3. CASE Shutdown(p) \/ ReleaseReturns(p) \/ Crash(p)
      BY <2>3, StopInv
    <2>4. CASE Boot(p) \/ Reprobe(p)
      BY <2>4, BootInv
    <2>5. CASE Execute(p)
      BY <2>5, ExecuteInv
    <2> QED
      BY <1>1, <2>1, <2>2, <2>3, <2>4, <2>5 DEF Holder
  <1>2. ASSUME NEW r \in stray, StrayServed(r) \/ StrayLost(r) PROVE LeaseInv'
    BY <1>2, StrayInv
  <1>3. CASE Tick
    BY <1>3, TickInv
  <1>4. CASE Stabilize \/ UNCHANGED vars
    <2>1. /\ UNCHANGED <<key, left, stray, lapsed, headless>>
          /\ UNCHANGED <<at, phase, timer, impl, held, tok, req, since>>
          /\ stable' \in {TRUE, stable}
      BY <1>4 DEF Stabilize, vars, podVars
    <2>2. TypeOK'
      BY <2>1 DEF LeaseInv, TypeOK
    <2>3. Places' /\ TokensApart'
      BY <2>1 DEF LeaseInv, Places, Placed, TokensApart
    <2>4. LeaseTimes'
      BY <2>1 DEF LeaseInv, LeaseTimes, Timed, Leased, Waiting, Refreshing
    <2> QED
      BY <2>2, <2>3, <2>4 DEF LeaseInv
  <1> QED
    BY <1>1, <1>2, <1>3, <1>4 DEF Next

\* The election's inductive invariant: registry and request of every pod, the
\* tokens apart, and the arithmetic of refresh interval, lease and time-outs.
THEOREM LeaseInvariant == Spec => []LeaseInv
  <1>1. Init => LeaseInv
    BY LeaseInit
  <1>2. LeaseInv /\ [Next]_vars => LeaseInv'
    BY LeaseNext
  <1> QED
    BY <1>1, <1>2, PTL DEF Spec

\* Every variable keeps its type: a fresh token is always to be had, and no
\* timer is let to run below zero.
THEOREM LeaseTypeOK == Spec => []TypeOK
  <1>1. LeaseInv => TypeOK
    BY DEF LeaseInv
  <1> QED
    BY <1>1, LeaseInvariant, PTL

\* The crossover bound of OverlapBounded, for any number of pods and any
\* timing: leading without the lease ends within four round trips, or one
\* refresh interval if there never was a lease.
THEOREM LeaseOverlap == Spec => []OverlapBounded
  <1>1. ASSUME LeaseInv PROVE OverlapBounded
    <2>1. SUFFICES ASSUME NEW p \in Pod, held[p], impl[p] = "redis"
                   PROVE  lapsed[p] <= MaxLapse(p)
      BY DEF OverlapBounded
    <2>2. /\ Placed(p) /\ Timed(p) /\ (Leased(p) <=> LeasedNow(p))
          /\ timer[p] \in Nat /\ since[p] \in Nat /\ lapsed[p] \in Nat /\ since[p] <= TTL
      BY <1>1, PodFacts
    <2>3. at[p] \in {"hold", "stop"}
      BY <2>1, <2>2 DEF Placed
    <2>4. CASE at[p] = "stop"
      BY <2>2, <2>4, Constants DEF Timed, MaxLapse
    <2>5. CASE at[p] = "hold" /\ tok[p] = NoTok
      BY <2>2, <2>5, Constants DEF Timed, MaxLapse
    <2>6. CASE at[p] = "hold" /\ tok[p] # NoTok
      <3>1. LeasedNow(p)
        BY <2>2, <2>6 DEF Timed
      <3>2. lapsed[p] <= 4 * RPCMax
        BY <2>2, <3>1, Constants DEF LeasedNow
      <3> QED
        BY <2>6, <3>2 DEF MaxLapse
    <2> QED
      BY <2>3, <2>4, <2>5, <2>6
  <1>2. LeaseInv => OverlapBounded
    BY <1>1
  <1> QED
    BY <1>2, LeaseInvariant, PTL

\* The action property LeaseYieldedByOwner: no step but the owner's own, or
\* the lease's expiry, takes the key from a leader that owns it.
THEOREM LeaseYielded == Spec => LeaseYieldedByOwner
  <1> DEFINE Kept(p) == key' = key \/ at[p]' = "down" \/ phase[p]' # phase[p]
             Yield == \A p \in Pod : Owns(p) /\ held[p] /\ left > 1 => Kept(p)
  <1>1. ASSUME LeaseInv, [Next]_vars PROVE [Yield]_vars
    <2>1. SUFFICES ASSUME Next, NEW p \in Pod, Owns(p), held[p], left > 1, key' # key
                   PROVE  at'[p] = "down" \/ phase'[p] # phase[p]
      BY <1>1
    <2>2. /\ PodsTyped /\ Placed(p) /\ TokensApart /\ Places /\ TypeOK
          /\ key \in Token \union {NoTok} /\ left \in 0..TTL /\ (key = NoTok <=> left = 0)
      BY <1>1, PodFacts DEF LeaseInv, Places, TypeOK
    <2>3. key \in Token /\ key \in {tok[p], req[p]}
      BY <2>1, <2>2 DEF Owns, LeaseOf
    <2>4. ASSUME NEW q \in Pod, Execute(q) PROVE q = p
      <3>1. SUFFICES ASSUME q # p PROVE FALSE
        OBVIOUS
      <3>2. Placed(q) /\ phase[q] # "wait" /\ Serve(Request(q))
        BY <2>2, <2>4 DEF Places, Execute
      <3>3. Request(q) \in [op : Op, tok : Token] /\ Request(q).tok = req[q]
        BY <2>2, <3>2, RequestType
      <3>4. {tok[p], req[p]} \intersect {tok[q], req[q]} \subseteq {NoTok} /\ NoTok \notin Token
        BY <2>2, <3>1, Constants DEF TokensApart
      <3>5. Request(q).tok # key
        BY <2>3, <3>3, <3>4
      <3>6. key' = key
        BY <2>2, <2>3, <3>2, <3>3, <3>5, Served
      <3> QED
        BY <2>1, <3>6
    <2>5. ASSUME NEW q \in Pod, Execute(q) PROVE phase'[p] # phase[p]
      <3>1. q = p
        BY <2>4, <2>5
      <3> QED
        BY <2>2, <2>5, <3>1 DEF Execute, PodsTyped
    <2>6. ASSUME NEW r \in stray, StrayServed(r) PROVE FALSE
      <3>1. r \in [op : Op, tok : Token] /\ Serve(r)
        BY <2>2, <2>6 DEF TypeOK, Op, StrayServed
      <3>2. r.op = "refresh" \/ r.tok # key
        BY <2>2, <2>3 DEF TokensApart
      <3>3. key' = key
        BY <2>2, <2>3, <3>1, <3>2, Served
      <3> QED
        BY <2>1, <3>3
    <2>7. CASE Tick
      BY <2>1, <2>7 DEF Tick
    <2>8. CASE Stabilize
      BY <2>1, <2>8 DEF Stabilize
    <2>9. ASSUME NEW r \in stray, StrayLost(r) PROVE FALSE
      BY <2>1, <2>9 DEF StrayLost
    <2>10. ASSUME NEW q \in Pod, Holder(q) \/ AcquireError(q) \/ RefreshError(q)
                              \/ Shutdown(q) \/ Crash(q) \/ Boot(q) \/ Reprobe(q)
           PROVE  FALSE
      BY <2>1, <2>10 DEF Holder, CallAcquire, CallRefresh, AcquireReply, RefreshReply, ReleaseReturns,
                         AcquireError, RefreshError, Shutdown, Crash, Boot, Reprobe
    <2> QED
      BY <2>1, <2>5, <2>6, <2>7, <2>8, <2>9, <2>10 DEF Next
  <1>2. LeaseInv /\ [Next]_vars => [Yield]_vars
    BY <1>1
  <1>3. [][LeaseInv /\ [Next]_vars]_vars => [][Yield]_vars
    BY <1>2, PTL
  <1>4. [][Yield]_vars => LeaseYieldedByOwner
    BY PTL DEF LeaseYieldedByOwner
  <1> QED
    BY <1>3, <1>4, LeaseInvariant, PTL DEF Spec

-----------------------------------------------------------------------------
(* Failover.                                                               *)

\* What is known of a pod while nobody leads: it is down or in the acquire
\* loop, and its timer and its request are within their bounds.
LEMMA Seeker ==
  ASSUME LeaseInv, NEW p \in Pod, ~held[p]
  PROVE  /\ timer[p] \in Nat /\ left \in Nat /\ left <= TTL /\ headless \in Nat
         /\ MaxHeadless \in Nat /\ MaxHeadless = TTL + Retry + 3 * RPCMax - 1
         /\ at[p] \in {"down", "acquire"} /\ (p \in Up <=> at[p] = "acquire")
         /\ phase[p] \in {"wait", "sent", "yes", "no"}
         /\ phase[p] # "wait" => timer[p] <= RPCMax /\ at[p] = "acquire"
         /\ at[p] = "acquire" /\ phase[p] = "wait" => timer[p] <= Retry
         /\ phase[p] = "yes" => key # NoTok /\ left + RPCMax >= TTL + timer[p]
         /\ Asks(p) \in Nat
         /\ phase[p] = "no" => Asks(p) = timer[p] + Retry + RPCMax
         /\ phase[p] = "wait" => Asks(p) = timer[p] + RPCMax
         /\ phase[p] \in {"sent", "yes"} => Asks(p) = timer[p]
  <1>0. PodsTyped /\ Placed(p) /\ Timed(p) /\ timer[p] \in Nat
    BY PodFacts
  <1>1. left \in Nat /\ left <= TTL /\ headless \in Nat
    BY Constants DEF LeaseInv, TypeOK
  <1>2. at[p] \in {"down", "acquire", "hold", "stop"} /\ phase[p] \in {"wait", "sent", "yes", "no"}
    BY <1>0, PodSame
  <1>3. at[p] \in {"down", "acquire"} /\ (p \in Up <=> at[p] = "acquire")
    BY <1>0, <1>2 DEF Placed, Up
  <1>4. phase[p] # "wait" => timer[p] <= RPCMax /\ at[p] = "acquire" /\ req[p] # NoTok
    BY <1>0, <1>3 DEF Placed, Timed
  <1>5. /\ phase[p] = "no" => Asks(p) = timer[p] + Retry + RPCMax
        /\ phase[p] = "wait" => Asks(p) = timer[p] + RPCMax
        /\ phase[p] \in {"sent", "yes"} => Asks(p) = timer[p]
    BY DEF Asks
  <1>6. Asks(p) \in Nat
    BY <1>0, <1>2, <1>5, Constants
  <1>7. MaxHeadless \in Nat /\ MaxHeadless = TTL + Retry + 3 * RPCMax - 1
    BY Constants DEF MaxHeadless
  <1>8. phase[p] = "yes" => key # NoTok /\ left + RPCMax >= TTL + timer[p]
    BY <1>0, <1>3, <1>4 DEF Timed
  <1>9. at[p] = "acquire" /\ phase[p] = "wait" => timer[p] <= Retry
    BY <1>0 DEF Timed
  <1> QED
    BY <1>0, <1>1, <1>2, <1>3, <1>4, <1>5, <1>6, <1>7, <1>8, <1>9

\* As long as nothing has been counted the bounds on the timers suffice.
LEMMA NothingCounted ==
  LeaseInv /\ headless = 0 /\ (stable => stray = {}) => Succession /\ FailoverBounded
  <1>1. SUFFICES ASSUME LeaseInv, headless = 0, stable => stray = {}
                 PROVE  Succession /\ FailoverBounded
    OBVIOUS
  <1>2. FailoverBounded
    BY <1>1, Constants DEF FailoverBounded, MaxHeadless
  <1>3. ASSUME Leaders = {}, Up # {}
        PROVE  /\ \A p \in Pod : Winner(p) => headless + timer[p] <= MaxHeadless
               /\ key # NoTok /\ (\A p \in Pod : ~Winner(p)) => headless + left <= TTL
               /\ key = NoTok => \E p \in Up : headless + Asks(p) + RPCMax <= MaxHeadless
    <2>1. \A p \in Pod : ~held[p]
      BY <1>3 DEF Leaders
    <2>2. ASSUME NEW p \in Pod, Winner(p) PROVE headless + timer[p] <= MaxHeadless
      BY <1>1, <2>1, <2>2, Seeker, Constants DEF Winner
    <2>3. PICK p \in Up : TRUE
      BY <1>3
    <2>4. p \in Pod /\ ~held[p]
      BY <2>1 DEF Up
    <2>5. headless + left <= TTL
      BY <1>1, <2>4, Seeker
    <2>6. key = NoTok => headless + Asks(p) + RPCMax <= MaxHeadless
      BY <1>1, <2>4, Seeker, Constants
    <2> QED
      BY <2>2, <2>3, <2>5, <2>6
  <1> QED
    BY <1>1, <1>2, <1>3 DEF Succession

\* The same in the next state.
LEMMA NothingCountedNext ==
  LeaseInv' /\ headless' = 0 /\ (stable' => stray' = {}) => Succession' /\ FailoverBounded'
  <1>1. LeaseInv /\ headless = 0 /\ (stable => stray = {}) => Succession /\ FailoverBounded
    BY NothingCounted
  <1>2. (LeaseInv /\ headless = 0 /\ (stable => stray = {}))' => (Succession /\ FailoverBounded)'
    BY <1>1, PTL
  <1> QED
    BY <1>2

\* The clock moves on without a leader: a lease, a wait and a round trip are
\* shorter by what is counted, and a lease that runs out finds every pod
\* short of a whole interval.
LEMMA TickHeadless ==
  ASSUME LeaseInv, LeaseInv', Succession, FailoverBounded, Tick
  PROVE  Succession' /\ FailoverBounded'
  <1>0. UNCHANGED <<stray, at, phase, impl, held, tok, req, stable>> /\ (stable => stray = {})
    BY DEF Tick, Succession
  <1>1. CASE ~(stable /\ Up # {} /\ Leaders = {})
    <2>1. headless' = 0
      BY <1>1 DEF Tick
    <2> QED
      BY <1>0, <2>1, NothingCountedNext
  <1>2. CASE stable /\ Up # {} /\ Leaders = {}
    <2>0. /\ TickKey /\ (key' = NoTok <=> left' = 0) /\ (key = NoTok <=> left = 0)
          /\ \A p \in Pod : TickOf(p)
      BY TickTypes DEF LeaseInv, Places
    <2>1. \A p \in Pod : ~held[p] /\ ~held'[p]
      BY <1>0, <1>2 DEF Leaders
    <2>2. PICK o \in Up : TRUE
      BY <1>2
    <2>3. /\ o \in Pod /\ left \in Nat /\ left <= TTL /\ headless \in Nat /\ MaxHeadless \in Nat
          /\ MaxHeadless = TTL + Retry + 3 * RPCMax - 1
      BY <2>1, Seeker DEF Up
    <2>4. headless' = headless + 1
      <3>1. headless <= MaxHeadless
        BY DEF FailoverBounded
      <3> QED
        BY <1>2, <2>3, <3>1 DEF Tick, AtMost
    <2>5. \A p \in Pod : p \in Up => timer'[p] = timer[p] - 1 /\ timer[p] >= 1
      BY <2>0 DEF TickOf
    <2>6. Up' = Up /\ Leaders' = Leaders
      BY <1>0 DEF Up, Leaders
    <2>7. \A p \in Pod : Winner(p)' <=> Winner(p)
      BY <1>0 DEF Winner
    <2>8. ASSUME NEW p \in Pod, Winner(p)
          PROVE  headless' + timer'[p] <= MaxHeadless /\ headless' <= MaxHeadless /\ left > 1
      <3>1. headless + timer[p] <= MaxHeadless
        BY <1>2, <2>8 DEF Succession
      <3>2. p \in Up /\ phase[p] = "yes"
        BY <2>8 DEF Winner, Up
      <3>3. timer[p] \in Nat /\ left + RPCMax >= TTL + timer[p]
        BY <2>1, <3>2, Seeker
      <3> QED
        BY <2>3, <2>4, <2>5, <3>1, <3>2, <3>3, Constants
    <2>9. ASSUME NEW p \in Up
          PROVE  Asks(p) \in Nat /\ Asks(p) >= 1 /\ Asks(p)' = Asks(p) - 1
      <3>1. /\ p \in Pod /\ timer'[p] = timer[p] - 1 /\ timer[p] >= 1 /\ phase'[p] = phase[p]
        BY <1>0, <2>5 DEF Up
      <3>2. /\ timer[p] \in Nat /\ phase[p] \in {"wait", "sent", "yes", "no"}
            /\ phase[p] = "no" => Asks(p) = timer[p] + Retry + RPCMax
            /\ phase[p] = "wait" => Asks(p) = timer[p] + RPCMax
            /\ phase[p] \in {"sent", "yes"} => Asks(p) = timer[p]
        BY <2>1, <3>1, Seeker
      <3>3. /\ phase[p] = "no" => Asks(p)' = timer'[p] + Retry + RPCMax
            /\ phase[p] = "wait" => Asks(p)' = timer'[p] + RPCMax
            /\ phase[p] \in {"sent", "yes"} => Asks(p)' = timer'[p]
        BY <3>1 DEF Asks
      <3> QED
        BY <3>1, <3>2, <3>3, Constants
    <2>10. CASE key = NoTok
      <3>1. PICK p \in Up : headless + Asks(p) + RPCMax <= MaxHeadless
        BY <1>2, <2>10 DEF Succession
      <3>2. headless' + Asks(p)' + RPCMax <= MaxHeadless /\ headless' <= MaxHeadless
        BY <2>3, <2>4, <2>9, <3>1, Constants
      <3>3. key' = NoTok
        BY <2>10 DEF Tick
      <3> QED
        BY <1>0, <1>2, <2>6, <2>7, <2>8, <3>1, <3>2, <3>3 DEF Succession, FailoverBounded
    <2>11. CASE key # NoTok /\ left > 1
      <3>1. key' = key /\ left' = left - 1
        BY <2>0, <2>3, <2>11 DEF TickKey
      <3>2. (\A p \in Pod : ~Winner(p)) => headless + left <= TTL
        BY <1>2, <2>11 DEF Succession
      <3>3. (\A p \in Pod : ~Winner(p)) => headless' + left' <= TTL /\ headless' <= MaxHeadless
        BY <2>3, <2>4, <2>11, <3>1, <3>2, Constants
      <3>4. headless' <= MaxHeadless
        BY <2>8, <3>3
      <3> QED
        BY <1>0, <1>2, <2>6, <2>7, <2>8, <2>11, <3>1, <3>3, <3>4 DEF Succession, FailoverBounded
    <2>12. CASE key # NoTok /\ ~(left > 1)
      <3>1. \A p \in Pod : ~Winner(p)
        BY <2>8, <2>12
      <3>2. headless + left <= TTL /\ left = 1 /\ key' = NoTok
        BY <1>2, <2>0, <2>3, <2>12, <3>1 DEF Succession, TickKey
      <3>3. headless' <= TTL
        BY <2>3, <2>4, <3>2, Constants
      <3>4. /\ timer[o] \in Nat /\ at[o] = "acquire" /\ phase[o] \in {"wait", "sent", "yes", "no"}
            /\ phase[o] # "wait" => timer[o] <= RPCMax
            /\ phase[o] = "wait" => timer[o] <= Retry
            /\ phase[o] = "no" => Asks(o) = timer[o] + Retry + RPCMax
            /\ phase[o] = "wait" => Asks(o) = timer[o] + RPCMax
            /\ phase[o] \in {"sent", "yes"} => Asks(o) = timer[o]
        BY <2>1, <2>3, Seeker
      <3>5. Asks(o) <= Retry + 2 * RPCMax
        BY <3>4, Constants
      <3>6. headless' + Asks(o)' + RPCMax <= MaxHeadless /\ headless' <= MaxHeadless
        BY <2>3, <2>4, <2>9, <3>3, <3>5, Constants
      <3> QED
        BY <1>0, <1>2, <2>2, <2>6, <2>7, <3>1, <3>2, <3>6 DEF Succession, FailoverBounded
    <2> QED
      BY <2>10, <2>11, <2>12
  <1> QED
    BY <1>1, <1>2

\* Pod q takes a turn in the succession: it wins; or, with the key as it was,
\* it asks, boots, or hears no; or it is given the free key; or nothing of it
\* changes that the succession is about.
Won(q) == held'[q] /\ at'[q] = "hold" /\ phase'[q] = "wait" /\ timer'[q] = Refresh
Seeks(q) ==
  /\ UNCHANGED <<key, left>> /\ ~held[q] /\ ~held'[q] /\ at'[q] = "acquire"
  /\ phase[q] # "yes" /\ phase'[q] # "yes"
  /\ key = NoTok /\ q \in Up => Asks(q)' <= Asks(q)
Given(q) ==
  /\ key = NoTok /\ key' # NoTok /\ ~held[q] /\ ~held'[q]
  /\ at'[q] = "acquire" /\ phase'[q] = "yes" /\ timer'[q] <= RPCMax
Idle(q) ==
  /\ UNCHANGED <<key, left>>
  /\ at'[q] = at[q] /\ phase'[q] = phase[q] /\ timer'[q] = timer[q] /\ held'[q] = held[q]
Aside(q) ==
  \A p \in Pod : p # q => at'[p] = at[p] /\ phase'[p] = phase[p] /\ timer'[p] = timer[p]
                          /\ held'[p] = held[p]

\* What a pod will ask is a number in the next state too.
LEMMA AsksNext ==
  ASSUME NEW p \in Pod
  PROVE  LeaseInv' /\ ~held'[p] => Asks(p)' \in Nat
  <1>1. LeaseInv /\ ~held[p] => Asks(p) \in Nat
    BY Seeker
  <1>2. (LeaseInv /\ ~held[p] => Asks(p) \in Nat)'
    BY <1>1, PTL
  <1> QED
    BY <1>2

\* A turn keeps the succession.
LEMMA TurnKeeps ==
  ASSUME LeaseInv, LeaseInv', Succession, FailoverBounded, headless > 0,
         UNCHANGED <<headless, stable, stray>>,
         NEW q \in Pod, Aside(q), Won(q) \/ Seeks(q) \/ Given(q) \/ Idle(q)
  PROVE  Succession' /\ FailoverBounded'
  <1>0. /\ headless \in Nat /\ stable /\ stray = {} /\ Up # {} /\ headless <= MaxHeadless
        /\ \A p \in Leaders : at[p] = "hold" /\ phase[p] = "wait" /\ timer[p] = Refresh
    BY DEF Succession, FailoverBounded, LeaseInv, TypeOK
  <1>1. FailoverBounded'
    BY <1>0, Constants DEF FailoverBounded, MaxHeadless
  <1>2. Up \subseteq Up'
    BY DEF Up, Aside, Won, Seeks, Given, Idle
  <1>3. \A p \in Leaders' : at'[p] = "hold" /\ phase'[p] = "wait" /\ timer'[p] = Refresh
    BY <1>0 DEF Leaders, Aside, Won, Seeks, Given, Idle
  <1>4. Leaders \subseteq Leaders'
    BY DEF Leaders, Aside, Won, Seeks, Given, Idle
  <1>5. ASSUME Leaders' = {}
        PROVE  /\ \A p \in Pod : Winner(p)' => headless + timer'[p] <= MaxHeadless
               /\ key' # NoTok /\ (\A p \in Pod : ~Winner(p)') => headless + left' <= TTL
               /\ key' = NoTok => \E p \in Up' : headless + Asks(p)' + RPCMax <= MaxHeadless
    <2>1. Leaders = {} /\ ~Won(q) /\ \A p \in Pod : ~held[p] /\ ~held'[p]
      BY <1>4, <1>5 DEF Leaders, Won
    <2>2. /\ \A p \in Pod : Winner(p) => headless + timer[p] <= MaxHeadless
          /\ key # NoTok /\ (\A p \in Pod : ~Winner(p)) => headless + left <= TTL
          /\ key = NoTok => \E p \in Up : headless + Asks(p) + RPCMax <= MaxHeadless
      BY <1>0, <2>1 DEF Succession
    <2>3. \A p \in Pod : p # q => (Winner(p)' <=> Winner(p)) /\ timer'[p] = timer[p]
      BY DEF Winner, Aside
    <2>4. \A p \in Pod : p # q => Asks(p)' = Asks(p)
      BY DEF Asks, Aside
    <2>5. CASE Idle(q)
      <3>1. (Winner(q)' <=> Winner(q)) /\ timer'[q] = timer[q] /\ Asks(q)' = Asks(q)
        BY <2>5 DEF Idle, Winner, Asks
      <3>2. \A p \in Pod : (Winner(p)' <=> Winner(p)) /\ timer'[p] = timer[p] /\ Asks(p)' = Asks(p)
        BY <2>3, <2>4, <3>1
      <3>3. UNCHANGED <<key, left>> /\ Up \subseteq Pod
        BY <2>5 DEF Idle, Up
      <3> QED
        BY <1>2, <2>2, <3>2, <3>3
    <2>6. CASE Seeks(q)
      <3>1. ~Winner(q) /\ ~Winner(q)' /\ UNCHANGED <<key, left>>
        BY <2>6 DEF Seeks, Winner
      <3>2. key = NoTok => \E p \in Up' : headless + Asks(p)' + RPCMax <= MaxHeadless
        <4>1. SUFFICES ASSUME key = NoTok PROVE \E p \in Up' : headless + Asks(p)' + RPCMax <= MaxHeadless
          OBVIOUS
        <4>2. PICK p \in Up : headless + Asks(p) + RPCMax <= MaxHeadless
          BY <2>2, <4>1
        <4>3. p \in Pod /\ p \in Up' /\ Asks(p) \in Nat /\ MaxHeadless \in Nat
          BY <1>2, <2>1, Seeker DEF Up
        <4>4. LeaseInv' /\ ~held'[p] => Asks(p)' \in Nat
          BY <4>3, AsksNext
        <4>5. Asks(p)' <= Asks(p) /\ Asks(p)' \in Nat
          BY <2>1, <2>4, <2>6, <4>1, <4>3, <4>4 DEF Seeks
        <4>6. headless + Asks(p)' + RPCMax <= MaxHeadless
          BY <1>0, <4>2, <4>3, <4>5, Constants
        <4> QED
          BY <4>3, <4>6
      <3> QED
        BY <2>2, <2>3, <3>1, <3>2
    <2>7. CASE Given(q)
      <3>1. key = NoTok /\ key' # NoTok /\ Winner(q)' /\ timer'[q] <= RPCMax
        BY <2>7 DEF Given, Winner
      <3>2. \A p \in Pod : ~Winner(p)
        BY <2>1, <3>1, Seeker DEF Winner
      <3>3. PICK p \in Up : headless + Asks(p) + RPCMax <= MaxHeadless
        BY <2>2, <3>1
      <3>4. Asks(p) \in Nat /\ MaxHeadless \in Nat
        BY <2>1, Seeker DEF Up
      <3>5. timer'[q] \in Nat
        BY DEF LeaseInv, TypeOK
      <3>6. headless + timer'[q] <= MaxHeadless
        BY <1>0, <3>1, <3>3, <3>4, <3>5, Constants
      <3> QED
        BY <2>3, <3>1, <3>2, <3>6
    <2> QED
      BY <2>1, <2>5, <2>6, <2>7
  <1> QED
    BY <1>0, <1>1, <1>2, <1>3, <1>5 DEF Succession

\* A step of one pod, or of the server for it, keeps the succession.
LEMMA PodKeeps ==
  ASSUME LeaseInv, LeaseInv', Succession, FailoverBounded, NEW p \in Pod,
         Holder(p) \/ Execute(p) \/ AcquireError(p) \/ RefreshError(p)
           \/ Shutdown(p) \/ Crash(p) \/ Boot(p) \/ Reprobe(p)
  PROVE  Succession' /\ FailoverBounded'
  <1>0. /\ PodsTyped /\ Placed(p) /\ Timed(p) /\ timer[p] \in Nat /\ headless \in Nat
        /\ key \in Token \union {NoTok} /\ left \in 0..TTL /\ (key = NoTok <=> left = 0)
    BY PodFacts DEF LeaseInv, TypeOK, Places
  <1>1. UNCHANGED <<headless, stable>>
    BY DEF Holder, CallAcquire, CallRefresh, AcquireReply, RefreshReply, ReleaseReturns, Execute,
           AcquireError, RefreshError, Shutdown, Crash, Boot, Reprobe
  <1>2. /\ stable => stray' = stray /\ stray = {}
        /\ stable => Holder(p) \/ Execute(p) \/ Boot(p) \/ Reprobe(p)
    <2>1. stable => Holder(p) \/ Execute(p) \/ Boot(p) \/ Reprobe(p)
      BY DEF AcquireError, RefreshError, Shutdown, Crash
    <2>2. stable => stray' = stray
      BY <2>1 DEF Holder, CallAcquire, CallRefresh, AcquireReply, RefreshReply, ReleaseReturns,
                  Execute, Boot, Reprobe
    <2> QED
      BY <2>1, <2>2 DEF Succession
  <1>3. CASE headless = 0
    BY <1>1, <1>2, <1>3, NothingCountedNext
  <1>4. CASE headless > 0
    <2>0. stable /\ UNCHANGED <<headless, stable, stray>>
      BY <1>1, <1>2, <1>4 DEF Succession
    <2>1. held[p] => at[p] = "hold" /\ phase[p] = "wait" /\ timer[p] = Refresh /\ Refresh > 0
      BY <1>0, <1>4, Constants DEF Succession, Leaders
    <2>2. ~CallRefresh(p) /\ ~RefreshReply(p) /\ ~ReleaseReturns(p)
      BY <1>0, <2>1 DEF CallRefresh, RefreshReply, ReleaseReturns, Placed
    <2>3. ASSUME Win(p), UNCHANGED impl PROVE Aside(p) /\ Won(p)
      <3>1. /\ at'[p] = "hold" /\ phase'[p] = "wait" /\ timer'[p] = Refresh
            /\ \A q \in Pod : q # p => at'[q] = at[q] /\ phase'[q] = phase[q] /\ timer'[q] = timer[q]
        BY <1>0, <2>3 DEF PodsTyped, Win, MoveTo
      <3>2. held'[p] /\ \A q \in Pod : q # p => held'[q] = held[q]
        BY <1>0, <2>3 DEF PodsTyped, Win
      <3> QED
        BY <3>1, <3>2 DEF Aside, Won
    <2>4. ASSUME NEW ph \in {"sent", "wait"}, NEW t \in Nat, NEW k, MoveTo(p, "acquire", ph, t, k),
                 UNCHANGED held
          PROVE  Aside(p) /\ at'[p] = "acquire" /\ phase'[p] = ph /\ timer'[p] = t
      BY <1>0, <2>4 DEF PodsTyped, MoveTo, Aside
    <2>5. CASE CallAcquire(p)
      <3>1. CASE impl[p] = "noop"
        BY <1>4, <2>0, <2>3, <2>5, <3>1, TurnKeeps DEF CallAcquire
      <3>2. CASE impl[p] # "noop"
        <4>1. /\ at[p] = "acquire" /\ phase[p] = "wait" /\ timer[p] = 0 /\ UNCHANGED <<held, key, left>>
              /\ MoveTo(p, "acquire", "sent", RPCMax, FreshToken)
          BY <2>5, <3>2 DEF CallAcquire
        <4>2. RPCMax \in Nat
          BY Constants
        <4>3. Aside(p) /\ at'[p] = "acquire" /\ phase'[p] = "sent" /\ timer'[p] = RPCMax
          BY <2>4, <4>1, <4>2
        <4>4. ~held[p] /\ ~held'[p]
          BY <1>0, <4>1 DEF Placed
        <4>5. Asks(p)' = RPCMax /\ Asks(p) = 0 + RPCMax
          BY <4>1, <4>3 DEF Asks
        <4>6. Seeks(p)
          BY <4>1, <4>2, <4>3, <4>4, <4>5 DEF Seeks
        <4> QED
          BY <1>4, <2>0, <4>3, <4>6, TurnKeeps
      <3> QED
        BY <3>1, <3>2
    <2>6. CASE AcquireReply(p)
      <3>1. CASE Win(p)
        BY <1>4, <2>0, <2>3, <2>6, <3>1, TurnKeeps DEF AcquireReply
      <3>2. CASE ~Win(p)
        <4>1. /\ at[p] = "acquire" /\ phase[p] = "no" /\ UNCHANGED <<held, key, left>>
              /\ MoveTo(p, "acquire", "wait", Retry, NoTok)
          BY <2>6, <3>2 DEF AcquireReply
        <4>2. Retry \in Nat
          BY Constants
        <4>3. Aside(p) /\ at'[p] = "acquire" /\ phase'[p] = "wait" /\ timer'[p] = Retry
          BY <2>4, <4>1, <4>2
        <4>4. ~held[p] /\ ~held'[p]
          BY <1>0, <4>1 DEF Placed
        <4>5. Asks(p)' = Retry + RPCMax /\ Asks(p) = timer[p] + Retry + RPCMax
          BY <4>1, <4>3 DEF Asks
        <4>6. Asks(p)' <= Asks(p)
          BY <1>0, <4>5, Constants
        <4>7. Seeks(p)
          BY <4>1, <4>3, <4>4, <4>6 DEF Seeks
        <4> QED
          BY <1>4, <2>0, <4>3, <4>7, TurnKeeps
      <3> QED
        BY <3>1, <3>2
    <2>7. CASE Execute(p)
      <3>0. /\ at[p] # "down" /\ phase[p] = "sent" /\ Serve(Request(p))
            /\ phase' = [phase EXCEPT ![p] = IF Granted(Request(p)) THEN "yes" ELSE "no"]
            /\ UNCHANGED <<at, timer, held>>
        BY <2>7 DEF Execute
      <3>1. at[p] = "acquire" /\ ~held[p] /\ ~held'[p] /\ timer[p] <= RPCMax
        BY <1>0, <2>1, <3>0 DEF Placed, Timed, PodsTyped
      <3>2. /\ Request(p) \in [op : Op, tok : Token] /\ Request(p).op = "acquire"
            /\ Request(p).tok # NoTok
        BY <1>0, <3>0, <3>1, RequestType, Constants
      <3>3. Granted(Request(p)) <=> key = NoTok
        BY <3>2 DEF Granted
      <3>4. Aside(p) /\ phase'[p] = IF key = NoTok THEN "yes" ELSE "no"
        BY <1>0, <3>0, <3>3 DEF PodsTyped, Aside
      <3>5. CASE key = NoTok
        <4>1. key' # NoTok
          BY <3>0, <3>2, <3>3, <3>5 DEF Serve
        <4>2. Given(p)
          BY <3>0, <3>1, <3>4, <3>5, <4>1 DEF Given
        <4> QED
          BY <1>4, <2>0, <3>4, <4>2, TurnKeeps
      <3>6. CASE key # NoTok
        <4>1. UNCHANGED <<key, left>>
          BY <3>0, <3>3, <3>6 DEF Serve
        <4>2. Seeks(p)
          BY <3>0, <3>1, <3>4, <3>6, <4>1 DEF Seeks
        <4> QED
          BY <1>4, <2>0, <3>4, <4>2, TurnKeeps
      <3> QED
        BY <3>5, <3>6
    <2>8. CASE Boot(p)
      <3>1. /\ at[p] = "down" /\ UNCHANGED <<held, key, left>> /\ MoveTo(p, "acquire", "wait", 0, NoTok)
        BY <2>8 DEF Boot
      <3>2. Aside(p) /\ at'[p] = "acquire" /\ phase'[p] = "wait" /\ timer'[p] = 0
        BY <2>4, <3>1
      <3>3. ~held[p] /\ ~held'[p] /\ phase[p] = "wait" /\ p \notin Up
        BY <1>0, <3>1 DEF Placed, Up
      <3>4. Seeks(p)
        BY <3>1, <3>2, <3>3 DEF Seeks
      <3> QED
        BY <1>4, <2>0, <3>2, <3>4, TurnKeeps
    <2>9. CASE Reprobe(p)
      <3>1. Aside(p) /\ Idle(p)
        BY <2>9 DEF Reprobe, Aside, Idle
      <3> QED
        BY <1>4, <2>0, <3>1, TurnKeeps
    <2> QED
      BY <1>2, <2>0, <2>2, <2>5, <2>6, <2>7, <2>8, <2>9 DEF Holder
  <1> QED
    BY <1>0, <1>3, <1>4

\* Every step keeps the succession and the bound.
LEMMA FailoverNext ==
  ASSUME FailoverInv, [Next]_vars
  PROVE  FailoverInv'
  <1>0. LeaseInv /\ LeaseInv' /\ Succession /\ FailoverBounded /\ headless \in Nat
    BY LeaseNext DEF FailoverInv, LeaseInv, TypeOK
  <1> SUFFICES Succession' /\ FailoverBounded'
    BY <1>0 DEF FailoverInv
  <1>1. ASSUME NEW p \in Pod, Holder(p) \/ Execute(p) \/ AcquireError(p) \/ RefreshError(p)
                              \/ Shutdown(p) \/ Crash(p) \/ Boot(p) \/ Reprobe(p)
        PROVE  Succession' /\ FailoverBounded'
    BY <1>0, <1>1, PodKeeps
  <1>2. ASSUME NEW r \in stray, StrayServed(r) \/ StrayLost(r) PROVE Succession' /\ FailoverBounded'
    <2>1. ~stable /\ headless = 0
      BY <1>0, <1>2 DEF Succession
    <2>2. ~stable' /\ headless' = 0
      BY <1>2, <2>1 DEF StrayServed, StrayLost
    <2> QED
      BY <1>0, <2>2, NothingCountedNext
  <1>3. CASE Tick
    BY <1>0, <1>3, TickHeadless
  <1>4. CASE Stabilize
    <2>1. ~stable /\ headless = 0
      BY <1>0, <1>4 DEF Succession, Stabilize
    <2>2. headless' = 0 /\ stray' = {}
      BY <1>4, <2>1 DEF Stabilize
    <2> QED
      BY <1>0, <2>2, NothingCountedNext
  <1>5. CASE UNCHANGED vars
    <2>1. UNCHANGED <<key, left, stray, at, phase, timer, held, stable, headless>>
      BY <1>5 DEF vars
    <2> QED
      BY <1>0, <2>1 DEF Succession, FailoverBounded, Up, Leaders, Winner, Asks
  <1> QED
    BY <1>1, <1>2, <1>3, <1>4, <1>5 DEF Next

\* FailoverBounded for any number of pods and any timing the assumptions
\* allow: once the faults have ended, a fleet with a pod up is without a leader
\* for no longer than a lease, a retry interval and three round trips.
THEOREM LeaseFailover == Spec => []FailoverBounded
  <1>1. Init => FailoverInv
    BY LeaseInit, NothingCounted DEF Init, FailoverInv
  <1>2. FailoverInv /\ [Next]_vars => FailoverInv'
    BY FailoverNext
  <1>3. FailoverInv => FailoverBounded
    BY DEF FailoverInv
  <1> QED
    BY <1>1, <1>2, <1>3, PTL DEF Spec
=============================================================================

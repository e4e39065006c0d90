---------------------------- MODULE IngestLedger ----------------------------
(***************************************************************************)
(* What an ingest consumer promises the receivers that feed it and the    *)
(* operator who reads its counters, without saying how it batches.         *)
(*                                                                         *)
(* Every item offered to Add is decided once: refused (Add returned false) *)
(* or held.  A held item leaves the pipeline once, with the rest of its    *)
(* batch: written, lost to a failing insert, or abandoned at shutdown.     *)
(* Only held items ever reach the store, and the items held never outgrow  *)
(* the byte budget.                                                        *)
(***************************************************************************)
EXTENDS ByteAccounting

VARIABLES
  status,      \* status[i]: where item i stands
  stored       \* the items with at least one copy in the store

ledgerVars == <<status, stored>>

Status == {"new", "offered", "refused", "held", "written", "lost", "abandoned"}

\* A batch leaves the pipeline in one of these ways.
Outcome == {"written", "lost", "abandoned"}

With(s) == {i \in Item : status[i] = s}

-----------------------------------------------------------------------------
LedgerInit ==
  /\ status = [i \in Item |-> "new"]
  /\ stored = {}

Offer(i) ==
  /\ status[i] = "new"
  /\ status' = [status EXCEPT ![i] = "offered"]
  /\ UNCHANGED stored

Refuse(i) ==
  /\ status[i] \in {"new", "offered"}
  /\ status' = [status EXCEPT ![i] = "refused"]
  /\ UNCHANGED stored

Accept(i) ==
  /\ status[i] = "offered"
  /\ sizingEnabled => BytesOf(With("held") \union {i}) <= ByteBudget
  /\ status' = [status EXCEPT ![i] = "held"]
  /\ UNCHANGED stored

\* A failed insert may still have landed some of its rows.
Land(S) ==
  /\ S \subseteq With("held")
  /\ stored' = stored \union S
  /\ UNCHANGED status

\* A whole batch leaves; landed is what its last insert put in the store.
Settle(S, outcome, landed) ==
  /\ S \subseteq With("held")
  /\ landed \subseteq S
  /\ outcome = "written" => landed = S
  /\ outcome = "abandoned" => landed = {} /\ S \intersect stored = {}
  /\ status' = [i \in Item |-> IF i \in S THEN outcome ELSE status[i]]
  /\ stored' = stored \union landed

LedgerNext ==
  \/ \E i \in Item : Offer(i) \/ Refuse(i) \/ Accept(i)
  \/ \E S \in SUBSET Item : Land(S)
  \/ \E S \in SUBSET Item, outcome \in Outcome :
       \E landed \in SUBSET S : Settle(S, outcome, landed)

LedgerSpec == LedgerInit /\ [][LedgerNext]_ledgerVars
=============================================================================

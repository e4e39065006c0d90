--------------------------- MODULE ByteAccounting ---------------------------
(***************************************************************************)
(* The byte sizer of an ingest consumer.  bufBytes is a sum of item sizes; *)
(* here the bytes of a set of items are counted as pairs, one per byte, so *)
(* that adding up bytes is taking the cardinality of a set.                *)
(***************************************************************************)
EXTENDS Integers, FiniteSets

CONSTANTS
  Item,        \* items the receivers may offer
  Size,        \* the estimated bytes of an item
  ByteBudget   \* Options.ByteBudget; 0 disables byte accounting

ASSUME ByteAssumption ==
  /\ IsFiniteSet(Item)
  /\ Size \in [Item -> Nat]
  /\ ByteBudget \in Nat

sizingEnabled == ByteBudget > 0

\* What one item adds to bufBytes: nothing while accounting is disabled.
sizeOf(i) == IF sizingEnabled THEN Size[i] ELSE 0

ByteUnits(S) == UNION {{i} \X (1..sizeOf(i)) : i \in S}
BytesOf(S) == Cardinality(ByteUnits(S))
=============================================================================

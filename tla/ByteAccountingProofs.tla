------------------------ MODULE ByteAccountingProofs ------------------------
(***************************************************************************)
(* Adding up bytes: BytesOf is additive over disjoint sets of items and    *)
(* agrees with sizeOf on one item, so a reservation taken item by item is  *)
(* given back batch by batch to the byte.                                  *)
(***************************************************************************)
EXTENDS ByteAccounting, FunctionTheorems, FiniteSetTheorems, TLAPS

\* sizeOf, on items, is a natural number: the sizer never returns a negative
\* estimate, accounting enabled or not.
LEMMA SizeType == \A i \in Item : sizeOf(i) \in Nat
  BY ByteAssumption DEF sizeOf

\* The byte units of one item are finitely many, one per estimated byte.
LEMMA UnitsOfOne ==
  ASSUME NEW i \in Item
  PROVE  /\ IsFiniteSet({i} \X (1..sizeOf(i)))
         /\ Cardinality({i} \X (1..sizeOf(i))) = sizeOf(i)
  <1>1. sizeOf(i) \in Nat
    BY SizeType
  <1>2. IsFiniteSet(1..sizeOf(i)) /\ Cardinality(1..sizeOf(i)) = sizeOf(i)
    BY <1>1, FS_Interval
  <1>3. IsFiniteSet({i}) /\ Cardinality({i}) = 1
    BY FS_Singleton
  <1>4. /\ IsFiniteSet({i} \X (1..sizeOf(i)))
        /\ Cardinality({i} \X (1..sizeOf(i)))
             = Cardinality({i}) * Cardinality(1..sizeOf(i))
    <2> HIDE DEF sizeOf
    <2> QED
      BY <1>2, <1>3, FS_Product, ZenonT(30)
  <1>5. 1 * sizeOf(i) = sizeOf(i)
    BY <1>1
  <1> QED
    BY <1>2, <1>3, <1>4, <1>5

\* Any set of items has finitely many byte units, so its bytes are a natural
\* number.
LEMMA BytesType ==
  ASSUME NEW S \in SUBSET Item
  PROVE  IsFiniteSet(ByteUnits(S)) /\ BytesOf(S) \in Nat
  <1> DEFINE f == [i \in S |-> {i} \X (1..sizeOf(i))]
             T == {{i} \X (1..sizeOf(i)) : i \in S}
  <1>1. IsFiniteSet(S)
    BY ByteAssumption, FS_Subset
  <1>2. f \in Surjection(S, T)
    BY DEF Surjection
  <1>3. IsFiniteSet(T)
    <2> HIDE DEF f, T
    <2> QED BY <1>1, <1>2, FS_Surjection
  <1>4. \A U \in T : IsFiniteSet(U)
    BY UnitsOfOne
  <1>5. IsFiniteSet(UNION T)
    <2> HIDE DEF T
    <2> QED BY <1>3, <1>4, FS_UNION
  <1>6. IsFiniteSet(ByteUnits(S))
    BY <1>5 DEF ByteUnits
  <1> QED
    BY <1>6, FS_CardinalityType DEF BytesOf

\* No items, no bytes.
LEMMA BytesEmpty == BytesOf({}) = 0
  <1>1. ByteUnits({}) = {}
    BY DEF ByteUnits
  <1> QED
    BY <1>1, FS_EmptySet DEF BytesOf

\* One item weighs what the sizer says.
LEMMA BytesSingle ==
  ASSUME NEW i \in Item
  PROVE  BytesOf({i}) = sizeOf(i)
  <1>1. ByteUnits({i}) = {i} \X (1..sizeOf(i))
    BY DEF ByteUnits
  <1> QED
    BY <1>1, UnitsOfOne DEF BytesOf

\* Disjoint sets of items weigh the sum of their weights.
LEMMA BytesUnion ==
  ASSUME NEW S \in SUBSET Item, NEW T \in SUBSET Item, S \intersect T = {}
  PROVE  BytesOf(S \union T) = BytesOf(S) + BytesOf(T)
  <1>1. IsFiniteSet(ByteUnits(S)) /\ IsFiniteSet(ByteUnits(T))
    BY BytesType
  <1>2. ByteUnits(S \union T) = ByteUnits(S) \union ByteUnits(T)
    BY DEF ByteUnits
  <1>3. ByteUnits(S) \intersect ByteUnits(T) = {}
    BY DEF ByteUnits
  <1>4. Cardinality(ByteUnits(S) \intersect ByteUnits(T)) = 0
    BY <1>3, FS_EmptySet
  <1>5. Cardinality(ByteUnits(S) \union ByteUnits(T))
          = Cardinality(ByteUnits(S)) + Cardinality(ByteUnits(T)) - 0
    BY <1>1, <1>4, FS_Union
  <1>6. Cardinality(ByteUnits(S)) \in Nat /\ Cardinality(ByteUnits(T)) \in Nat
    BY <1>1, FS_CardinalityType
  <1> QED
    BY <1>2, <1>5, <1>6 DEF BytesOf

\* What leaves a set of items takes exactly its bytes along.
LEMMA BytesMinus ==
  ASSUME NEW S \in SUBSET Item, NEW T \in SUBSET S
  PROVE  BytesOf(S \ T) = BytesOf(S) - BytesOf(T)
  <1>1. BytesOf((S \ T) \union T) = BytesOf(S \ T) + BytesOf(T)
    BY BytesUnion
  <1>2. (S \ T) \union T = S
    OBVIOUS
  <1>3. BytesOf(S) = BytesOf(S \ T) + BytesOf(T)
    BY <1>1, <1>2, Zenon
  <1>4. BytesOf(S \ T) \in Nat /\ BytesOf(T) \in Nat
    BY BytesType
  <1> QED
    BY <1>3, <1>4

\* A part weighs no more than the whole.
LEMMA BytesMonotone ==
  ASSUME NEW S \in SUBSET Item, NEW T \in SUBSET S
  PROVE  BytesOf(T) <= BytesOf(S)
  <1>1. BytesOf(S \ T) = BytesOf(S) - BytesOf(T)
    BY BytesMinus
  <1>2. BytesOf(S \ T) \in Nat /\ BytesOf(T) \in Nat /\ BytesOf(S) \in Nat
    BY BytesType
  <1> QED
    BY <1>1, <1>2
=============================================================================

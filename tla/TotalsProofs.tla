---------------------------- MODULE TotalsProofs ----------------------------
(***************************************************************************)
(* What the proofs need to know of sums: they are numbers, an element adds *)
(* its size, and neither more elements nor greater sizes make them less.   *)
(***************************************************************************)
EXTENDS Totals, FiniteSetTheorems, TLAPS

AllUnits(size, S) == UNION {Units(size, x) : x \in S}

(* The units of an element are as many as its size. *)
LEMMA UnitsOfOne ==
  ASSUME NEW size, NEW x, size[x] \in Nat
  PROVE  /\ IsFiniteSet(Units(size, x))
         /\ Cardinality(Units(size, x)) = size[x]
<1> DEFINE n == size[x]
<1>1. IsFiniteSet(1 .. n) /\ Cardinality(1 .. n) = n
  BY FS_Interval
<1>2. IsFiniteSet({x}) /\ Cardinality({x}) = 1
  BY FS_Singleton
<1>3. /\ IsFiniteSet({x} \X (1 .. n))
      /\ Cardinality({x} \X (1 .. n)) = Cardinality({x}) * Cardinality(1 .. n)
  BY <1>1, <1>2, FS_Product
<1> QED  BY <1>1, <1>2, <1>3 DEF Units

(* A finite set has finitely many units.                                    *)
LEMMA UnitsFinite ==
  ASSUME NEW size, NEW S, IsFiniteSet(S), \A x \in S : size[x] \in Nat
  PROVE  IsFiniteSet(AllUnits(size, S))
<1> DEFINE f == [x \in S |-> Units(size, x)]
           T == {Units(size, x) : x \in S}
<1>1. f \in Surjection(S, T)
  BY DEF Surjection
<1>2. IsFiniteSet(T)
  <2> HIDE DEF f, T
  <2> QED  BY <1>1, FS_Surjection
<1>3. \A U \in T : IsFiniteSet(U)
  BY UnitsOfOne
<1>4. IsFiniteSet(UNION T)
  <2> HIDE DEF T
  <2> QED  BY <1>2, <1>3, FS_UNION
<1> QED  BY <1>4 DEF AllUnits

(* A sum over a finite set of natural numbers is one.                       *)
LEMMA TotalType ==
  ASSUME NEW size, NEW S, IsFiniteSet(S), \A x \in S : size[x] \in Nat
  PROVE  Total(size, S) \in Nat
BY UnitsFinite, FS_CardinalityType DEF Total, AllUnits

(* Nothing sums up to nothing.                                              *)
LEMMA TotalEmpty ==
  ASSUME NEW size PROVE Total(size, {}) = 0
<1>1. UNION {Units(size, x) : x \in {}} = {}
  OBVIOUS
<1> QED  BY <1>1, FS_EmptySet DEF Total

(* An element adds its size.                                                *)
LEMMA TotalRemove ==
  ASSUME NEW size, NEW S, IsFiniteSet(S), \A x \in S : size[x] \in Nat,
         NEW x \in S
  PROVE  /\ Total(size, S \ {x}) \in Nat
         /\ Total(size, S) = Total(size, S \ {x}) + size[x]
<1> DEFINE A == AllUnits(size, S \ {x})
           U == Units(size, x)
<1>0. IsFiniteSet(S \ {x})
  BY FS_RemoveElement
<1>1. IsFiniteSet(A)
  BY <1>0, UnitsFinite
<1>2. IsFiniteSet(U) /\ Cardinality(U) = size[x]
  BY UnitsOfOne
<1>3. AllUnits(size, S) = A \cup U
  BY DEF AllUnits
<1>4. A \cap U = {}
  BY DEF AllUnits, Units
<1>5. Cardinality(A) \in Nat
  BY <1>1, FS_CardinalityType
<1>6. Cardinality(A \cup U) = Cardinality(A) + Cardinality(U)
  <2> HIDE DEF A, U
  <2>1. Cardinality(A \cap U) = 0
    BY <1>4, FS_EmptySet
  <2>2. Cardinality(A \cup U)
          = Cardinality(A) + Cardinality(U) - Cardinality(A \cap U)
    BY <1>1, <1>2, FS_Union
  <2> QED  BY <1>2, <1>5, <2>1, <2>2
<1>7. Total(size, S) = Cardinality(A \cup U) /\ Total(size, S \ {x}) = Cardinality(A)
  BY <1>3 DEF Total, AllUnits
<1> QED
  <2> HIDE DEF A, U
  <2> QED  BY <1>2, <1>5, <1>6, <1>7

(* Sizes outside the set do not matter.                                     *)
LEMMA TotalSame ==
  ASSUME NEW size, NEW other, NEW S, \A x \in S : size[x] = other[x]
  PROVE  Total(size, S) = Total(other, S)
<1>1. \A x \in S : Units(size, x) = Units(other, x)
  BY DEF Units
<1>2. {Units(size, x) : x \in S} = {Units(other, x) : x \in S}
  BY <1>1
<1> QED  BY <1>2 DEF Total

(* Fewer elements of no greater sizes do not sum up to more.                *)
LEMMA TotalMonotone ==
  ASSUME NEW size, NEW other, NEW S, NEW T, IsFiniteSet(T), S \subseteq T,
         \A x \in T : other[x] \in Nat,
         \A x \in S : size[x] \in Nat /\ size[x] <= other[x]
  PROVE  Total(size, S) <= Total(other, T)
<1>1. AllUnits(size, S) \subseteq AllUnits(other, T)
  <2>1. \A x \in S : Units(size, x) \subseteq Units(other, x)
    <3> SUFFICES ASSUME NEW x \in S
                 PROVE  1 .. size[x] \subseteq 1 .. other[x]
      BY DEF Units
    <3> QED  OBVIOUS
  <2> QED  BY <2>1 DEF AllUnits
<1>2. IsFiniteSet(AllUnits(other, T))
  BY UnitsFinite
<1> QED  BY <1>1, <1>2, FS_Subset DEF Total, AllUnits

(* Two sets together do not sum up to more than each for itself.            *)
LEMMA TotalUnion ==
  ASSUME NEW size, NEW S, NEW T, IsFiniteSet(S), IsFiniteSet(T),
         \A x \in S \cup T : size[x] \in Nat
  PROVE  Total(size, S \cup T) <= Total(size, S) + Total(size, T)
<1> DEFINE A == AllUnits(size, S)
           B == AllUnits(size, T)
<1>1. IsFiniteSet(A) /\ IsFiniteSet(B)
  BY UnitsFinite
<1>2. AllUnits(size, S \cup T) = A \cup B
  BY DEF AllUnits
<1>3. Cardinality(A \cup B) <= Cardinality(A) + Cardinality(B)
  <2> HIDE DEF A, B
  <2>1. IsFiniteSet(A \cap B)
    BY <1>1, FS_Intersection
  <2>2. /\ Cardinality(A) \in Nat /\ Cardinality(B) \in Nat
        /\ Cardinality(A \cap B) \in Nat
    BY <1>1, <2>1, FS_CardinalityType
  <2>3. Cardinality(A \cup B)
          = Cardinality(A) + Cardinality(B) - Cardinality(A \cap B)
    BY <1>1, FS_Union
  <2> QED  BY <2>2, <2>3
<1> QED  BY <1>2, <1>3 DEF Total, AllUnits

=============================================================================

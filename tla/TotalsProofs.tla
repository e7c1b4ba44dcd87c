---------------------------- MODULE TotalsProofs ----------------------------
(***************************************************************************)
(* What the accounting proofs need to know of a sum: it is a natural       *)
(* number, each term is at most the sum, changing one term changes the sum *)
(* by as much, terms that are equal pointwise have equal sums, and a       *)
(* linear bound on each term bounds the sum.                               *)
(***************************************************************************)
EXTENDS Totals, FiniteSetTheorems, WellFoundedInduction, TLAPS

\* The units of one element form a set of size f[x].
LEMMA ColumnSize ==
  ASSUME NEW x, NEW n \in Nat
  PROVE  /\ IsFiniteSet({x} \X (1 .. n))
         /\ Cardinality({x} \X (1 .. n)) = n
<1>. DEFINE One == {x}
            Col == 1 .. n
<1>1. IsFiniteSet(One) /\ Cardinality(One) = 1
  BY FS_Singleton
<1>2. IsFiniteSet(Col) /\ Cardinality(Col) = n
  BY FS_Interval
<1>. HIDE DEF One, Col
<1>3. /\ IsFiniteSet(One \X Col)
      /\ Cardinality(One \X Col) = Cardinality(One) * Cardinality(Col)
  BY <1>1, <1>2, FS_Product
<1>4. Cardinality(One \X Col) = n
  BY <1>1, <1>2, <1>3
<1>. QED  BY <1>3, <1>4 DEF One, Col

\* The units over a finite set are finite, so their number is natural.
LEMMA TotalType ==
  ASSUME NEW S, IsFiniteSet(S), NEW f, \A x \in S : f[x] \in Nat
  PROVE  IsFiniteSet(Units(f, S)) /\ Total(f, S) \in Nat
<1>. DEFINE Columns == {{x} \X (1 .. f[x]) : x \in S}
<1>. DEFINE column == [x \in S |-> {x} \X (1 .. f[x])]
<1>1. column \in Surjection(S, Columns)
  BY DEF Surjection
<1>2. IsFiniteSet(Columns)
  BY <1>1, FS_Surjection
<1>3. ASSUME NEW C \in Columns  PROVE IsFiniteSet(C)
  <2>1. PICK x \in S : C = {x} \X (1 .. f[x])
    OBVIOUS
  <2>. QED  BY <2>1, ColumnSize
<1>4. IsFiniteSet(Units(f, S))
  BY <1>2, <1>3, FS_UNION DEF Units
<1>. QED  BY <1>4, FS_CardinalityType DEF Total

\* Taking one element out of the set takes its term out of the sum.
LEMMA TotalSplit ==
  ASSUME NEW S, IsFiniteSet(S), NEW f, \A y \in S : f[y] \in Nat, NEW x \in S
  PROVE  Total(f, S) = Total(f, S \ {x}) + f[x]
<1>. DEFINE Rest == Units(f, S \ {x})
            Own  == {x} \X (1 .. f[x])
<1>1. Units(f, S) = Rest \cup Own
  BY DEF Units
<1>2. Rest \cap Own = {}
  BY DEF Units
<1>3. IsFiniteSet(S \ {x})
  BY FS_RemoveElement
<1>4. IsFiniteSet(Rest)
  BY <1>3, TotalType
<1>5. IsFiniteSet(Own) /\ Cardinality(Own) = f[x]
  BY ColumnSize
<1>. HIDE DEF Rest, Own
<1>6. Cardinality(Rest \cup Own)
        = Cardinality(Rest) + Cardinality(Own) - Cardinality(Rest \cap Own)
  BY <1>4, <1>5, FS_Union
<1>7. Cardinality({}) = 0
  BY FS_EmptySet
<1>8. Cardinality(Rest) \in Nat
  BY <1>4, FS_CardinalityType
<1>9. Total(f, S \ {x}) = Cardinality(Rest)
  BY DEF Total, Rest
<1>10. Total(f, S) = Cardinality(Rest \cup Own)
  BY <1>1 DEF Total
<1>11. Cardinality(Rest \cap Own) = 0
  BY <1>2, <1>7
<1>. QED  BY <1>5, <1>6, <1>8, <1>9, <1>10, <1>11

\* Functions that agree on the set have the same sum over it.
LEMMA TotalSame ==
  ASSUME NEW S, NEW f, NEW g, \A x \in S : f[x] = g[x]
  PROVE  Total(f, S) = Total(g, S)
<1>1. Units(f, S) = Units(g, S)
  BY DEF Units
<1>. QED  BY <1>1 DEF Total

\* A change at one element changes the sum by the difference.
LEMMA TotalUpdate ==
  ASSUME NEW S, IsFiniteSet(S), NEW x \in S,
         NEW f, \A y \in S : f[y] \in Nat,
         NEW g, \A y \in S : g[y] \in Nat,
         \A y \in S : y # x => g[y] = f[y]
  PROVE  Total(g, S) = Total(f, S) - f[x] + g[x]
<1>1. Total(f, S) = Total(f, S \ {x}) + f[x]
  BY TotalSplit
<1>2. Total(g, S) = Total(g, S \ {x}) + g[x]
  BY TotalSplit
<1>3. Total(g, S \ {x}) = Total(f, S \ {x})
  BY TotalSame
<1>4. Total(f, S \ {x}) \in Nat
  BY FS_RemoveElement, TotalType
<1>. QED  BY <1>1, <1>2, <1>3, <1>4

\* No term exceeds the sum.
LEMMA TotalTerm ==
  ASSUME NEW S, IsFiniteSet(S), NEW f, \A y \in S : f[y] \in Nat, NEW x \in S
  PROVE  f[x] <= Total(f, S)
<1>1. Total(f, S) = Total(f, S \ {x}) + f[x]
  BY TotalSplit
<1>2. Total(f, S \ {x}) \in Nat
  BY FS_RemoveElement, TotalType
<1>. QED  BY <1>1, <1>2

\* A sum of zeros is zero.
LEMMA TotalZero ==
  ASSUME NEW S, NEW f, \A x \in S : f[x] = 0
  PROVE  Total(f, S) = 0
<1>1. 1 .. 0 = {}
  OBVIOUS
<1>2. Units(f, S) = {}
  BY <1>1 DEF Units
<1>. QED  BY <1>2, FS_EmptySet DEF Total

\* Terms outside a subset that are all zero do not count.
LEMMA TotalSupport ==
  ASSUME NEW S, NEW A \in SUBSET S, NEW f, \A x \in S \ A : f[x] = 0
  PROVE  Total(f, S) = Total(f, A)
<1>1. 1 .. 0 = {}
  OBVIOUS
<1>2. Units(f, S) = Units(f, A)
  BY <1>1 DEF Units
<1>. QED  BY <1>2 DEF Total

\* Induction over the subsets of a finite set, for what holds of a set of them:
\* the empty set, and each subset that holds without one of its elements.
LEMMA SubsetInduction ==
  ASSUME NEW S, IsFiniteSet(S), NEW Good, {} \in Good,
         \A A \in SUBSET S : \A x \in A : A \ {x} \in Good => A \in Good
  PROVE  S \in Good
<1>. DEFINE Bad == (SUBSET S) \ Good
<1>. SUFFICES ASSUME Bad # {} PROVE FALSE
  OBVIOUS
<1>1. IsWellFoundedOn(StrictSubsetOrdering(S), SUBSET S)
  BY FS_StrictSubsetOrderingWellFounded, FS_FiniteSubsetsOfFinite
<1>2. PICK A \in Bad : \A B \in Bad : <<B, A>> \notin StrictSubsetOrdering(S)
  <2>. HIDE DEF Bad
  <2>1. Bad \subseteq SUBSET S
    BY DEF Bad
  <2>. QED  BY <1>1, <2>1, WFMin
<1>3. PICK x \in A : TRUE
  BY <1>2
<1>4. A \ {x} \in Bad
  BY <1>2, <1>3
<1>5. <<A \ {x}, A>> \in StrictSubsetOrdering(S)
  BY <1>2, <1>3 DEF StrictSubsetOrdering
<1>. QED  BY <1>2, <1>4, <1>5

\* The sum of two functions.
LEMMA TotalPlus ==
  ASSUME NEW S, IsFiniteSet(S),
         NEW f, \A x \in S : f[x] \in Nat,
         NEW g, \A x \in S : g[x] \in Nat,
         NEW h, \A x \in S : h[x] = f[x] + g[x]
  PROVE  Total(h, S) = Total(f, S) + Total(g, S)
<1>. DEFINE Good == {A \in SUBSET S : Total(h, A) = Total(f, A) + Total(g, A)}
<1>1. {} \in Good
  BY TotalZero
<1>2. ASSUME NEW A \in SUBSET S, NEW x \in A, A \ {x} \in Good
      PROVE  A \in Good
  <2>1. IsFiniteSet(A) /\ IsFiniteSet(A \ {x})
    BY FS_Subset, FS_RemoveElement
  <2>2. /\ Total(f, A) = Total(f, A \ {x}) + f[x]
        /\ Total(g, A) = Total(g, A \ {x}) + g[x]
    BY <2>1, TotalSplit
  <2>3. Total(h, A) = Total(h, A \ {x}) + h[x]
    <3>1. \A y \in A : h[y] \in Nat
      OBVIOUS
    <3>. QED  BY <2>1, <3>1, TotalSplit
  <2>4. Total(f, A \ {x}) \in Nat /\ Total(g, A \ {x}) \in Nat
    BY <2>1, TotalType
  <2>. QED  BY <1>2, <2>2, <2>3, <2>4
<1>3. S \in Good
  <2>. HIDE DEF Good
  <2>. QED  BY <1>1, <1>2, SubsetInduction
<1>. QED  BY <1>3

\* A bound on each term adds up: the multiples on both sides distribute over the
\* sums, and the constant counts once for each term.
LEMMA TotalLinear ==
  ASSUME NEW S, IsFiniteSet(S), NEW c \in Nat, NEW d \in Nat, NEW e \in Nat,
         NEW f, \A x \in S : f[x] \in Nat,
         NEW g, \A x \in S : g[x] \in Nat,
         \A x \in S : c * f[x] <= d * g[x] + e
  PROVE  c * Total(f, S) <= d * Total(g, S) + e * Cardinality(S)
<1>. DEFINE Good == {A \in SUBSET S :
                       c * Total(f, A) <= d * Total(g, A) + e * Cardinality(A)}
<1>1. {} \in Good
  <2>1. Total(f, {}) = 0 /\ Total(g, {}) = 0 /\ Cardinality({}) = 0
    BY TotalZero, FS_EmptySet
  <2>. QED  BY <2>1
<1>2. ASSUME NEW A \in SUBSET S, NEW x \in A, A \ {x} \in Good
      PROVE  A \in Good
  <2>1. IsFiniteSet(A) /\ IsFiniteSet(A \ {x})
    BY FS_Subset, FS_RemoveElement
  <2>2. /\ Total(f, A) = Total(f, A \ {x}) + f[x]
        /\ Total(g, A) = Total(g, A \ {x}) + g[x]
    BY <2>1, TotalSplit
  <2>3. Total(f, A \ {x}) \in Nat /\ Total(g, A \ {x}) \in Nat
    BY <2>1, TotalType
  <2>4. /\ Cardinality(A \ {x}) \in Nat
        /\ Cardinality(A) = Cardinality(A \ {x}) + 1
    BY <2>1, FS_RemoveElement, FS_CardinalityType
  <2>. DEFINE a == Total(f, A \ {x})
              b == Total(g, A \ {x})
              n == Cardinality(A \ {x})
  <2>5. c * a <= d * b + e * n
    BY <1>2
  <2>6. c * f[x] <= d * g[x] + e
    OBVIOUS
  <2>7. /\ a \in Nat /\ b \in Nat /\ n \in Nat
        /\ f[x] \in Nat /\ g[x] \in Nat
        /\ Total(f, A) = a + f[x] /\ Total(g, A) = b + g[x]
        /\ Cardinality(A) = n + 1
    BY <2>2, <2>3, <2>4
  <2>. HIDE DEF a, b, n
  <2>8. /\ c * (a + f[x]) = c * a + c * f[x]
        /\ d * (b + g[x]) = d * b + d * g[x]
        /\ e * (n + 1) = e * n + e
    BY <2>7
  <2>9. /\ c * a \in Nat /\ c * f[x] \in Nat /\ d * b \in Nat
        /\ d * g[x] \in Nat /\ e * n \in Nat
    BY <2>7
  <2>10. c * (a + f[x]) <= d * (b + g[x]) + e * (n + 1)
    BY <2>5, <2>6, <2>8, <2>9
  <2>. QED  BY <2>7, <2>10
<1>3. S \in Good
  <2>. HIDE DEF Good
  <2>. QED  BY <1>1, <1>2, SubsetInduction
<1>. QED  BY <1>3

=============================================================================

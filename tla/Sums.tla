-------------------------------- MODULE Sums --------------------------------
(***************************************************************************)
(* Induction over numbers and finite sets, stated of sets rather than of   *)
(* predicates, and what it gives for the sum of a function over a finite   *)
(* set.                                                                    *)
(***************************************************************************)
EXTENDS Functions, FiniteSetTheorems, WellFoundedInduction, TLAPS

\* Every nonempty set of naturals has a least element.
LEMMA LeastOf ==
    ASSUME NEW S \in SUBSET Nat, S # {}
    PROVE  \E m \in S : \A n \in S : m <= n
<1>1. PICK m \in S : \A n \in S : ~(<<n, m>> \in OpToRel(<, Nat))
  BY NatLessThanWellFounded, WFMin
<1>2. \A n \in S : ~(n < m)
  BY <1>1 DEF OpToRel
<1>3. QED
  BY <1>2

\* One whose elements are bounded has a greatest.
LEMMA GreatestOf ==
    ASSUME NEW n \in Nat, NEW S \in SUBSET (1..n), S # {}
    PROVE  \E m \in S : \A k \in S : k <= m
<1> DEFINE Bounds == {m \in Nat : \A k \in S : k <= m}
<1>1. n \in Bounds
  OBVIOUS
<1>2. PICK m \in Bounds : \A b \in Bounds : m <= b
  BY <1>1, LeastOf
<1>3. m \in S
  <2> SUFFICES ASSUME m \notin S PROVE FALSE
    OBVIOUS
  <2>1. m # 0 /\ m - 1 \in Nat
    <3>1. PICK k \in S : k \in 1..n
      OBVIOUS
    <3>2. k >= 1 /\ k <= m /\ k \in Nat /\ m \in Nat
      BY <1>2, <3>1
    <3>3. QED
      BY <3>2
  <2>2. \A k \in S : k <= m - 1
    BY <1>2, <2>1
  <2>3. m - 1 \in Bounds
    BY <2>1, <2>2
  <2>4. QED
    BY <1>2, <2>1, <2>3
<1>4. QED
  BY <1>2, <1>3

\* A set of numbers with zero and every successor has them all.
LEMMA AllNumbers ==
    ASSUME NEW P \in SUBSET Nat, 0 \in P, \A n \in P : n + 1 \in P
    PROVE  P = Nat
<1> SUFFICES ASSUME Nat \ P # {} PROVE FALSE
  OBVIOUS
<1>1. PICK m \in Nat \ P : \A n \in Nat \ P : m <= n
  BY LeastOf
<1>2. m - 1 \in Nat /\ m - 1 \in P
  BY <1>1
<1>3. QED
  BY <1>1, <1>2

\* A set of subsets of a finite set, with the empty one and with each that it
\* has also those of one element more, has the whole.
LEMMA AllSubsets ==
    ASSUME NEW S, IsFiniteSet(S), NEW P \in SUBSET (SUBSET S),
           {} \in P, \A T \in P : \A x \in S \ T : T \union {x} \in P
    PROVE  S \in P
<1> DEFINE Q == {n \in Nat : \A T \in SUBSET S : Cardinality(T) = n => T \in P}
<1>1. \A T \in SUBSET S : IsFiniteSet(T) /\ Cardinality(T) \in Nat
  BY FS_Subset, FS_CardinalityType
<1>2. 0 \in Q
  BY <1>1, FS_EmptySet
<1>3. ASSUME NEW n \in Q PROVE n + 1 \in Q
  <2> SUFFICES ASSUME NEW T \in SUBSET S, Cardinality(T) = n + 1 PROVE T \in P
    OBVIOUS
  <2>1. PICK x \in T : TRUE
    <3>1. Cardinality(T) # 0
      BY <1>3
    <3>2. QED
      BY <3>1, FS_EmptySet
  <2>2. Cardinality(T \ {x}) = n /\ T \ {x} \in SUBSET S
    <3>1. IsFiniteSet(T) /\ Cardinality(T \ {x}) = Cardinality(T) - 1
      BY <1>1, <2>1, FS_RemoveElement
    <3>2. QED
      BY <3>1
  <2>3. T \ {x} \in P /\ x \in S \ (T \ {x})
    BY <2>1, <2>2
  <2>4. (T \ {x}) \union {x} \in P
    BY <2>3
  <2>5. (T \ {x}) \union {x} = T
    OBVIOUS
  <2>6. QED
    BY <2>4, <2>5
<1> HIDE DEF Q
<1>4. Q = Nat
  BY <1>2, <1>3, AllNumbers DEF Q
<1>5. QED
  BY <1>1, <1>4 DEF Q

-----------------------------------------------------------------------------
(* The fold a sum is defined by.                                           *)

OneOf(T) == CHOOSE x \in T : TRUE

\* The function that the fold of f over S applies to S.
Folded(f, S) == CHOOSE g : g = [T \in SUBSET S |-> IF T = {} THEN 0 ELSE f[OneOf(T)] + g[T \ {OneOf(T)}]]

LEMMA SumIsFolded == \A f, S : SumFunctionOnSet(f, S) = Folded(f, S)[S]
BY DEF SumFunctionOnSet, FoldFunctionOnSet, MapThenFoldSet, Folded, OneOf

\* There is such a function: one for the subsets of at most n elements gives
\* one for those of n + 1.
LEMMA FoldedExists ==
    ASSUME NEW f, NEW S, IsFiniteSet(S)
    PROVE  \A T \in SUBSET S :
            Folded(f, S)[T] = IF T = {} THEN 0 ELSE f[OneOf(T)] + Folded(f, S)[T \ {OneOf(T)}]
<1> DEFINE Small(n) == {T \in SUBSET S : Cardinality(T) <= n}
           Body(g, T) == IF T = {} THEN 0 ELSE f[OneOf(T)] + g[T \ {OneOf(T)}]
           P == {n \in Nat : \E g : g = [T \in Small(n) |-> Body(g, T)]}
<1>1. \A T \in SUBSET S : IsFiniteSet(T) /\ Cardinality(T) \in Nat /\ Cardinality(T) <= Cardinality(S)
  BY FS_Subset, FS_CardinalityType
<1>2. \A T \in SUBSET S : T # {} => OneOf(T) \in T
  BY DEF OneOf
<1>3. ASSUME NEW n \in Nat, NEW T \in Small(n + 1), T # {}
      PROVE  T \ {OneOf(T)} \in Small(n)
  <2>1. Cardinality(T \ {OneOf(T)}) = Cardinality(T) - 1
    BY <1>1, <1>2, <1>3, FS_RemoveElement
  <2>2. QED
    BY <1>1, <2>1
<1>4. 0 \in P
  <2>1. \A T \in Small(0) : T = {}
    BY <1>1, FS_EmptySet
  <2> DEFINE g == [T \in Small(0) |-> 0]
  <2>2. g = [T \in Small(0) |-> Body(g, T)]
    BY <2>1
  <2>3. QED
    BY <2>2
<1>5. ASSUME NEW n \in P PROVE n + 1 \in P
  <2>1. PICK g : g = [T \in Small(n) |-> Body(g, T)]
    OBVIOUS
  <2> DEFINE h == [T \in Small(n + 1) |-> Body(g, T)]
  <2>2. \A T \in Small(n) : T \in Small(n + 1) /\ h[T] = g[T]
    <3>1. \A T \in Small(n) : T \in Small(n + 1)
      BY <1>1
    <3>2. QED
      BY <2>1, <3>1
  <2>3. \A T \in Small(n + 1) : Body(h, T) = Body(g, T)
    BY <1>3, <2>2
  <2>4. h = [T \in Small(n + 1) |-> Body(h, T)]
    BY <2>3
  <2>5. n + 1 \in Nat
    OBVIOUS
  <2> HIDE DEF h, Small, Body
  <2>6. QED
    BY <2>4, <2>5
<1>6. Cardinality(S) \in P
  <2> HIDE DEF P
  <2>1. P = Nat
    BY <1>4, <1>5, AllNumbers DEF P
  <2>2. QED
    BY <1>1, <2>1
<1>7. Small(Cardinality(S)) = SUBSET S
  BY <1>1
<1>8. \E g : g = [T \in SUBSET S |-> Body(g, T)]
  BY <1>6, <1>7
<1>9. Folded(f, S) = [T \in SUBSET S |-> Body(Folded(f, S), T)]
  BY <1>8 DEF Folded
<1>10. QED
  BY <1>9

\* The fold over a set is, on its subsets, the fold over each.
LEMMA FoldedAgree ==
    ASSUME NEW f, NEW S, IsFiniteSet(S), NEW T \in SUBSET S
    PROVE  Folded(f, S)[T] = Folded(f, T)[T]
<1> DEFINE Q == {n \in Nat : \A U \in SUBSET T : Cardinality(U) = n => Folded(f, S)[U] = Folded(f, T)[U]}
<1>1. IsFiniteSet(T)
  BY FS_Subset
<1>2. \A U \in SUBSET T : IsFiniteSet(U) /\ Cardinality(U) \in Nat
  BY <1>1, FS_Subset, FS_CardinalityType
<1>3. \A U \in SUBSET T :
        /\ U = {} => Folded(f, S)[U] = 0 /\ Folded(f, T)[U] = 0
        /\ U # {} => /\ Folded(f, S)[U] = f[OneOf(U)] + Folded(f, S)[U \ {OneOf(U)}]
                     /\ Folded(f, T)[U] = f[OneOf(U)] + Folded(f, T)[U \ {OneOf(U)}]
  <2>1. \A U \in SUBSET S : Folded(f, S)[U] = IF U = {} THEN 0 ELSE f[OneOf(U)] + Folded(f, S)[U \ {OneOf(U)}]
    BY FoldedExists
  <2>2. \A U \in SUBSET T : Folded(f, T)[U] = IF U = {} THEN 0 ELSE f[OneOf(U)] + Folded(f, T)[U \ {OneOf(U)}]
    BY <1>1, FoldedExists
  <2>3. \A U \in SUBSET T : U \in SUBSET S
    OBVIOUS
  <2>4. QED
    BY <2>1, <2>2, <2>3
<1>4. 0 \in Q
  BY <1>2, <1>3, FS_EmptySet
<1>5. ASSUME NEW n \in Q PROVE n + 1 \in Q
  <2> SUFFICES ASSUME NEW U \in SUBSET T, Cardinality(U) = n + 1
               PROVE  Folded(f, S)[U] = Folded(f, T)[U]
    OBVIOUS
  <2>1. U # {}
    BY FS_EmptySet
  <2>2. OneOf(U) \in U
    BY <2>1 DEF OneOf
  <2>3. Cardinality(U \ {OneOf(U)}) = n /\ U \ {OneOf(U)} \in SUBSET T
    BY <1>2, <2>2, FS_RemoveElement
  <2>4. Folded(f, S)[U \ {OneOf(U)}] = Folded(f, T)[U \ {OneOf(U)}]
    BY <2>3
  <2>5. QED
    BY <1>3, <2>1, <2>4
<1> HIDE DEF Q
<1>6. Q = Nat
  BY <1>4, <1>5, AllNumbers DEF Q
<1>7. QED
  BY <1>2, <1>6 DEF Q

LEMMA SumSteps ==
    ASSUME NEW f, NEW S, IsFiniteSet(S)
    PROVE  SumFunctionOnSet(f, S) =
            IF S = {} THEN 0 ELSE f[OneOf(S)] + SumFunctionOnSet(f, S \ {OneOf(S)})
<1>1. CASE S = {}
  BY <1>1, FoldedExists, SumIsFolded
<1>2. CASE S # {}
  <2>1. S \ {OneOf(S)} \in SUBSET S /\ S \in SUBSET S
    OBVIOUS
  <2>2. Folded(f, S)[S] = f[OneOf(S)] + Folded(f, S)[S \ {OneOf(S)}]
    BY <1>2, <2>1, FoldedExists
  <2>3. Folded(f, S)[S \ {OneOf(S)}] = Folded(f, S \ {OneOf(S)})[S \ {OneOf(S)}]
    BY <2>1, FoldedAgree
  <2>4. QED
    BY <1>2, <2>2, <2>3, SumIsFolded
<1>3. QED
  BY <1>1, <1>2

-----------------------------------------------------------------------------
(* Sums.                                                                   *)

LEMMA SumEmpty == \A f : SumFunctionOnSet(f, {}) = 0
BY SumSteps, FS_EmptySet

\* The sum of integers is one.
LEMMA SumInt ==
    ASSUME NEW f, NEW S, IsFiniteSet(S), \A x \in S : f[x] \in Int
    PROVE  SumFunctionOnSet(f, S) \in Int
<1> DEFINE Sum(T) == SumFunctionOnSet(f, T)
           Q == {n \in Nat : \A T \in SUBSET S : Cardinality(T) = n => Sum(T) \in Int}
<1>1. \A T \in SUBSET S : IsFiniteSet(T) /\ Cardinality(T) \in Nat
  BY FS_Subset, FS_CardinalityType
<1>2. \A T \in SUBSET S : (Cardinality(T) = 0 <=> T = {}) /\ (T # {} => OneOf(T) \in T)
  BY <1>1, FS_EmptySet DEF OneOf
<1>3. 0 \in Q
  BY <1>2, SumEmpty
<1>4. ASSUME NEW n \in Q PROVE n + 1 \in Q
  <2>1. n \in Nat /\ \A T \in SUBSET S : Cardinality(T) = n => Sum(T) \in Int
    OBVIOUS
  <2> SUFFICES ASSUME NEW T \in SUBSET S, Cardinality(T) = n + 1
               PROVE  Sum(T) \in Int
    OBVIOUS
  <2>2. T # {} /\ OneOf(T) \in T
    BY <1>2, <2>1
  <2>3. Cardinality(T \ {OneOf(T)}) = n /\ T \ {OneOf(T)} \in SUBSET S
    BY <1>1, <2>1, <2>2, FS_RemoveElement
  <2>4. Sum(T) = f[OneOf(T)] + Sum(T \ {OneOf(T)})
    BY <1>1, <2>2, SumSteps
  <2> HIDE DEF Sum
  <2>5. QED
    BY <2>1, <2>2, <2>3, <2>4
<1> HIDE DEF Q
<1>5. Q = Nat
  BY <1>3, <1>4, AllNumbers DEF Q
<1>6. QED
  BY <1>1, <1>5 DEF Q

\* OneOf element may be taken out of it, not only the one the fold takes.
LEMMA SumWithout ==
    ASSUME NEW f, NEW S, IsFiniteSet(S), \A x \in S : f[x] \in Int, NEW x \in S
    PROVE  SumFunctionOnSet(f, S) = f[x] + SumFunctionOnSet(f, S \ {x})
<1> DEFINE Sum(T) == SumFunctionOnSet(f, T)
           Q == {n \in Nat : \A T \in SUBSET S : Cardinality(T) = n =>
                                \A z \in T : Sum(T) = f[z] + Sum(T \ {z})}
<1>1. \A T \in SUBSET S : IsFiniteSet(T) /\ Cardinality(T) \in Nat /\ Sum(T) \in Int
  BY FS_Subset, FS_CardinalityType, SumInt
<1>2. \A T \in SUBSET S : (Cardinality(T) = 0 <=> T = {}) /\ (T # {} => OneOf(T) \in T)
  BY <1>1, FS_EmptySet DEF OneOf
<1>3. 0 \in Q
  BY <1>2
<1>4. ASSUME NEW n \in Q PROVE n + 1 \in Q
  <2>1. n \in Nat /\ \A T \in SUBSET S : Cardinality(T) = n => \A z \in T : Sum(T) = f[z] + Sum(T \ {z})
    OBVIOUS
  <2> SUFFICES ASSUME NEW T \in SUBSET S, Cardinality(T) = n + 1, NEW z \in T
               PROVE  Sum(T) = f[z] + Sum(T \ {z})
    OBVIOUS
  <2>2. PICK y \in T : Sum(T) = f[y] + Sum(T \ {y})
    BY <1>1, <1>2, SumSteps
  <2>3. \A v \in T : T \ {v} \in SUBSET S /\ Cardinality(T \ {v}) = n
    BY <1>1, <2>1, FS_RemoveElement
  <2>4. f[y] \in Int /\ f[z] \in Int
    OBVIOUS
  <2> HIDE DEF Q, Sum
  <2>5. CASE z = y
    BY <2>2, <2>5
  <2>6. CASE z # y
    <3>1. Sum(T \ {y}) = f[z] + Sum((T \ {y}) \ {z})
      BY <2>1, <2>3, <2>6
    <3>2. Sum(T \ {z}) = f[y] + Sum((T \ {z}) \ {y})
      BY <2>1, <2>3, <2>6
    <3>3. (T \ {y}) \ {z} = (T \ {z}) \ {y} /\ (T \ {z}) \ {y} \in SUBSET S
      OBVIOUS
    <3>4. Sum((T \ {z}) \ {y}) \in Int
      BY <1>1, <3>3
    <3>5. QED
      <4>1. PICK r \in Int : r = Sum((T \ {z}) \ {y}) /\ r = Sum((T \ {y}) \ {z})
        BY <3>3, <3>4
      <4>2. PICK a \in Int, b \in Int : a = f[y] /\ b = f[z]
        BY <2>4
      <4>3. Sum(T) = a + (b + r)
        BY <2>2, <3>1, <4>1, <4>2
      <4>4. Sum(T \ {z}) = a + r
        BY <3>2, <4>1, <4>2
      <4>5. QED
        BY <4>2, <4>3, <4>4
  <2>7. QED
    BY <2>5, <2>6
<1> HIDE DEF Q
<1>5. Q = Nat
  BY <1>3, <1>4, AllNumbers DEF Q
<1>6. Cardinality(S) \in Q
  BY <1>1, <1>5
<1>7. QED
  BY <1>6 DEF Q

LEMMA SumWith ==
    ASSUME NEW f, NEW S, IsFiniteSet(S), NEW x, x \notin S, f[x] \in Int, \A y \in S : f[y] \in Int
    PROVE  SumFunctionOnSet(f, S \union {x}) = f[x] + SumFunctionOnSet(f, S)
<1>1. IsFiniteSet(S \union {x}) /\ (S \union {x}) \ {x} = S
  BY FS_AddElement
<1>2. x \in S \union {x} /\ \A y \in S \union {x} : f[y] \in Int
  OBVIOUS
<1>3. QED
  BY <1>1, <1>2, SumWithout

\* One element adds up to itself.
LEMMA SumSingle ==
    ASSUME NEW f, NEW x, f[x] \in Int
    PROVE  SumFunctionOnSet(f, {x}) = f[x]
<1>1. PICK S : S = {}
  OBVIOUS
<1>2. IsFiniteSet(S) /\ x \notin S /\ \A y \in S : f[y] \in Int
  BY <1>1, FS_EmptySet
<1>3. SumFunctionOnSet(f, S \union {x}) = f[x] + SumFunctionOnSet(f, S)
  BY <1>2, SumWith
<1>4. S \union {x} = {x} /\ SumFunctionOnSet(f, S) = 0
  BY <1>1, SumEmpty
<1>5. SumFunctionOnSet(f, {x}) = f[x] + 0
  BY <1>3, <1>4, Zenon
<1>6. QED
  BY <1>5

\* Functions that agree on the set have one sum over it.
LEMMA SumSame ==
    ASSUME NEW f, NEW g, NEW S, IsFiniteSet(S), \A x \in S : f[x] \in Int /\ g[x] = f[x]
    PROVE  SumFunctionOnSet(g, S) = SumFunctionOnSet(f, S)
<1> DEFINE P == {T \in SUBSET S : SumFunctionOnSet(g, T) = SumFunctionOnSet(f, T)}
<1>1. {} \in P
  BY SumEmpty
<1>2. ASSUME NEW T \in P, NEW x \in S \ T PROVE T \union {x} \in P
  <2>1. IsFiniteSet(T) /\ SumFunctionOnSet(g, T) = SumFunctionOnSet(f, T)
    BY FS_Subset
  <2>2. /\ SumFunctionOnSet(f, T \union {x}) = f[x] + SumFunctionOnSet(f, T)
        /\ SumFunctionOnSet(g, T \union {x}) = g[x] + SumFunctionOnSet(g, T)
    BY <2>1, SumWith
  <2>3. QED
    BY <2>1, <2>2
<1>3. S \in P
  <2> HIDE DEF P
  <2>1. P \in SUBSET (SUBSET S)
    BY DEF P
  <2>2. QED
    BY <1>1, <1>2, <2>1, AllSubsets
<1>4. QED
  BY <1>3

\* The sum of sums is the sum.
LEMMA SumPlus ==
    ASSUME NEW f, NEW g, NEW h, NEW S, IsFiniteSet(S),
           \A x \in S : f[x] \in Int /\ g[x] \in Int /\ h[x] = f[x] + g[x]
    PROVE  SumFunctionOnSet(h, S) = SumFunctionOnSet(f, S) + SumFunctionOnSet(g, S)
<1> DEFINE Sum(k, T) == SumFunctionOnSet(k, T)
           P == {T \in SUBSET S : Sum(h, T) = Sum(f, T) + Sum(g, T)}
<1>1. {} \in P
  BY SumEmpty
<1>2. ASSUME NEW T \in P, NEW x \in S \ T PROVE T \union {x} \in P
  <2>1. IsFiniteSet(T) /\ Sum(h, T) = Sum(f, T) + Sum(g, T) /\ T \union {x} \in SUBSET S
    BY FS_Subset
  <2>2. \A y \in T : f[y] \in Int /\ g[y] \in Int /\ h[y] \in Int
    OBVIOUS
  <2>3. /\ Sum(f, T \union {x}) = f[x] + Sum(f, T)
        /\ Sum(g, T \union {x}) = g[x] + Sum(g, T)
        /\ Sum(h, T \union {x}) = h[x] + Sum(h, T)
    BY <2>1, <2>2, SumWith
  <2>4. PICK a \in Int, b \in Int, c \in Int, d \in Int :
            a = f[x] /\ b = g[x] /\ c = Sum(f, T) /\ d = Sum(g, T)
    BY <2>1, <2>2, SumInt
  <2> HIDE DEF Sum
  <2>5. /\ Sum(f, T \union {x}) = a + c
        /\ Sum(g, T \union {x}) = b + d
        /\ Sum(h, T \union {x}) = (a + b) + (c + d)
    BY <2>1, <2>3, <2>4
  <2>6. QED
    BY <2>1, <2>4, <2>5
<1>3. S \in P
  <2> HIDE DEF P
  <2>1. P \in SUBSET (SUBSET S)
    BY DEF P
  <2>2. QED
    BY <1>1, <1>2, <2>1, AllSubsets
<1>4. QED
  BY <1>3

\* One term more or less.
LEMMA SumChanged ==
    ASSUME NEW f, NEW g, NEW S, IsFiniteSet(S), \A y \in S : f[y] \in Int,
           NEW x \in S, NEW d \in Int, g[x] = f[x] + d, \A y \in S \ {x} : g[y] = f[y]
    PROVE  SumFunctionOnSet(g, S) = SumFunctionOnSet(f, S) + d
<1>1. IsFiniteSet(S \ {x}) /\ \A y \in S : g[y] \in Int
  BY FS_RemoveElement
<1>2. SumFunctionOnSet(g, S \ {x}) = SumFunctionOnSet(f, S \ {x})
  BY <1>1, SumSame
<1>3. PICK a \in Int, r \in Int : a = f[x] /\ r = SumFunctionOnSet(f, S \ {x})
  BY <1>1, SumInt
<1>4. SumFunctionOnSet(f, S) = a + r
  BY <1>3, SumWithout
<1>5. SumFunctionOnSet(g, S) = (a + d) + r
  BY <1>1, <1>2, <1>3, SumWithout
<1>6. QED
  BY <1>3, <1>4, <1>5

\* Two sets without a common element.
LEMMA SumUnion ==
    ASSUME NEW f, NEW S, NEW T, IsFiniteSet(S), IsFiniteSet(T), S \intersect T = {},
           \A x \in S \union T : f[x] \in Int
    PROVE  SumFunctionOnSet(f, S \union T) = SumFunctionOnSet(f, S) + SumFunctionOnSet(f, T)
<1> DEFINE Sum(U) == SumFunctionOnSet(f, U)
           P == {U \in SUBSET T : Sum(S \union U) = Sum(S) + Sum(U)}
<1>0. Sum(S) \in Int
  BY SumInt
<1>1. {} \in P
  <2>1. S \union {} = S /\ Sum({}) = 0
    BY SumEmpty
  <2>2. QED
    BY <1>0, <2>1
<1>2. ASSUME NEW U \in P, NEW x \in T \ U PROVE U \union {x} \in P
  <2>1. IsFiniteSet(U) /\ Sum(S \union U) = Sum(S) + Sum(U) /\ U \union {x} \in SUBSET T
    BY FS_Subset
  <2>2. IsFiniteSet(S \union U) /\ x \notin S \union U
    BY <2>1, FS_Union
  <2>3. Sum((S \union U) \union {x}) = f[x] + Sum(S \union U)
    BY <2>2, SumWith
  <2>4. Sum(U \union {x}) = f[x] + Sum(U)
    BY <2>1, SumWith
  <2>5. (S \union U) \union {x} = S \union (U \union {x})
    OBVIOUS
  <2>6. PICK a \in Int, b \in Int, c \in Int : a = f[x] /\ b = Sum(S) /\ c = Sum(U)
    BY <1>0, <2>1, SumInt
  <2> HIDE DEF Sum
  <2>7. Sum(S \union (U \union {x})) = Sum(S) + Sum(U \union {x})
    <3>1. Sum(S \union (U \union {x})) = a + (b + c)
      BY <2>1, <2>3, <2>5, <2>6
    <3>2. Sum(U \union {x}) = a + c
      BY <2>4, <2>6
    <3>3. QED
      BY <2>6, <3>1, <3>2
  <2>8. QED
    BY <2>1, <2>7
<1>3. T \in P
  <2> HIDE DEF P
  <2>1. P \in SUBSET (SUBSET T)
    BY DEF P
  <2>2. QED
    BY <1>1, <1>2, <2>1, AllSubsets
<1>4. QED
  BY <1>3

\* Counts add up to a count, and to no less than any one of them.
LEMMA SumNat ==
    ASSUME NEW f, NEW S, IsFiniteSet(S), \A x \in S : f[x] \in Nat
    PROVE  SumFunctionOnSet(f, S) \in Nat /\ \A x \in S : f[x] <= SumFunctionOnSet(f, S)
<1> DEFINE P == {T \in SUBSET S : SumFunctionOnSet(f, T) \in Nat}
<1>1. {} \in P
  BY SumEmpty
<1>2. ASSUME NEW T \in P, NEW x \in S \ T PROVE T \union {x} \in P
  <2>1. IsFiniteSet(T)
    BY FS_Subset
  <2>2. SumFunctionOnSet(f, T \union {x}) = f[x] + SumFunctionOnSet(f, T)
    BY <2>1, SumWith
  <2>3. QED
    BY <2>2
<1>3. \A U : IsFiniteSet(U) /\ U \in SUBSET S => SumFunctionOnSet(f, U) \in Nat
  <2> SUFFICES ASSUME NEW U, IsFiniteSet(U), U \in SUBSET S PROVE SumFunctionOnSet(f, U) \in Nat
    OBVIOUS
  <2> DEFINE R == P \intersect SUBSET U
  <2>1. {} \in R /\ \A T \in R : \A x \in U \ T : T \union {x} \in R
    <3> HIDE DEF P
    <3>1. QED
      BY <1>1, <1>2
  <2>2. U \in R
    <3>1. R \in SUBSET (SUBSET U)
      OBVIOUS
    <3> HIDE DEF R
    <3>2. QED
      BY <2>1, <3>1, AllSubsets
  <2>3. QED
    BY <2>2
<1>4. ASSUME NEW x \in S PROVE f[x] <= SumFunctionOnSet(f, S)
  <2>1. IsFiniteSet(S \ {x})
    BY FS_RemoveElement
  <2>2. SumFunctionOnSet(f, S \ {x}) \in Nat
    BY <1>3, <2>1
  <2>3. SumFunctionOnSet(f, S) = f[x] + SumFunctionOnSet(f, S \ {x})
    BY SumWithout
  <2>4. QED
    BY <2>2, <2>3
<1>5. QED
  BY <1>3, <1>4

\* Ones are counted.
LEMMA SumOnes ==
    ASSUME NEW f, NEW S, IsFiniteSet(S), NEW N, \A x \in S : f[x] = IF x \in N THEN 1 ELSE 0
    PROVE  SumFunctionOnSet(f, S) = Cardinality(S \intersect N)
<1> DEFINE P == {T \in SUBSET S : SumFunctionOnSet(f, T) = Cardinality(T \intersect N)}
<1>1. {} \in P
  BY SumEmpty, FS_EmptySet
<1>2. ASSUME NEW T \in P, NEW x \in S \ T PROVE T \union {x} \in P
  <2>1. IsFiniteSet(T) /\ IsFiniteSet(T \intersect N)
    BY FS_Subset
  <2>2. Cardinality(T \intersect N) \in Nat /\ SumFunctionOnSet(f, T) = Cardinality(T \intersect N)
    BY <2>1, FS_CardinalityType
  <2>3. SumFunctionOnSet(f, T \union {x}) = f[x] + SumFunctionOnSet(f, T)
    BY <2>1, SumWith
  <2>4. CASE x \in N
    <3>1. (T \union {x}) \intersect N = (T \intersect N) \union {x}
      BY <2>4
    <3>2. Cardinality((T \intersect N) \union {x}) = Cardinality(T \intersect N) + 1
      BY <2>1, FS_AddElement
    <3>3. QED
      BY <2>2, <2>3, <2>4, <3>1, <3>2
  <2>5. CASE x \notin N
    <3>1. (T \union {x}) \intersect N = T \intersect N
      BY <2>5
    <3>2. f[x] = 0
      BY <2>5
    <3>3. SumFunctionOnSet(f, T \union {x}) = Cardinality(T \intersect N)
      BY <2>2, <2>3, <3>2
    <3>4. QED
      BY <3>1, <3>3
  <2>6. QED
    BY <2>4, <2>5
<1>3. S \in P
  <2> HIDE DEF P
  <2>1. P \in SUBSET (SUBSET S)
    BY DEF P
  <2>2. QED
    BY <1>1, <1>2, <2>1, AllSubsets
<1>4. QED
  BY <1>3

\* Nothing adds up to nothing.
LEMMA SumZero ==
    ASSUME NEW f, NEW S, IsFiniteSet(S), \A x \in S : f[x] = 0
    PROVE  SumFunctionOnSet(f, S) = 0
<1>1. PICK N : N = {}
  OBVIOUS
<1>2. \A x \in S : f[x] = IF x \in N THEN 1 ELSE 0
  BY <1>1
<1>3. SumFunctionOnSet(f, S) = Cardinality(S \intersect N)
  BY <1>2, SumOnes
<1>4. S \intersect N = {}
  BY <1>1
<1>5. QED
  BY <1>3, <1>4, FS_EmptySet

\* One or more for each element is as many as there are elements, or more.
LEMMA SumAtLeast ==
    ASSUME NEW f, NEW S, IsFiniteSet(S), \A x \in S : f[x] \in Nat \ {0}
    PROVE  SumFunctionOnSet(f, S) \in Nat /\ Cardinality(S) <= SumFunctionOnSet(f, S)
<1> DEFINE one == [x \in S |-> 1]
           rest == [x \in S |-> f[x] - 1]
<1>1. \A x \in S : /\ one[x] = 1 /\ one[x] = IF x \in S THEN 1 ELSE 0
                   /\ rest[x] \in Nat /\ f[x] = one[x] + rest[x]
  OBVIOUS
<1> HIDE DEF one, rest
<1>2. SumFunctionOnSet(one, S) = Cardinality(S)
  <2>1. SumFunctionOnSet(one, S) = Cardinality(S \intersect S)
    BY <1>1, SumOnes
  <2>2. S \intersect S = S
    OBVIOUS
  <2>3. QED
    BY <2>1, <2>2
<1>3. SumFunctionOnSet(f, S) = SumFunctionOnSet(one, S) + SumFunctionOnSet(rest, S)
  BY <1>1, SumPlus
<1>4. SumFunctionOnSet(rest, S) \in Nat /\ SumFunctionOnSet(f, S) \in Nat
  BY <1>1, SumNat
<1>5. Cardinality(S) \in Nat
  BY FS_CardinalityType
<1>6. QED
  BY <1>2, <1>3, <1>4, <1>5

\* A set that is divided, by what k says of its elements, is summed part by
\* part.
LEMMA SumParts ==
    ASSUME NEW f, NEW S, IsFiniteSet(S), \A x \in S : f[x] \in Int,
           NEW J, IsFiniteSet(J), NEW k, \A x \in S : k[x] \in J,
           NEW part, \A j \in J : \A x : x \in part[j] <=> x \in S /\ k[x] = j,
           NEW g, \A j \in J : g[j] = SumFunctionOnSet(f, part[j])
    PROVE  SumFunctionOnSet(f, S) = SumFunctionOnSet(g, J)
<1> DEFINE In(T) == {x \in S : k[x] \in T}
           P == {T \in SUBSET J : SumFunctionOnSet(f, In(T)) = SumFunctionOnSet(g, T)}
<1>1. {} \in P
  <2>1. In({}) = {}
    OBVIOUS
  <2>2. QED
    BY <2>1, SumEmpty
<1>2. \A T : IsFiniteSet(In(T)) /\ \A x \in In(T) : f[x] \in Int
  BY FS_Subset
<1>3. \A j \in J : g[j] = SumFunctionOnSet(f, In({j})) /\ g[j] \in Int
  <2> SUFFICES ASSUME NEW j \in J PROVE g[j] = SumFunctionOnSet(f, In({j})) /\ g[j] \in Int
    OBVIOUS
  <2>1. In({j}) = part[j]
    <3>1. \A x : x \in In({j}) <=> x \in part[j]
      OBVIOUS
    <3> HIDE DEF In
    <3>2. QED
      BY <3>1
  <2> HIDE DEF In
  <2>2. IsFiniteSet(In({j})) /\ \A x \in In({j}) : f[x] \in Int
    BY <1>2
  <2>3. SumFunctionOnSet(f, In({j})) \in Int
    BY <2>2, SumInt
  <2>4. g[j] = SumFunctionOnSet(f, In({j}))
    BY <2>1
  <2>5. QED
    BY <2>3, <2>4
<1>4. ASSUME NEW T \in P, NEW j \in J \ T PROVE T \union {j} \in P
  <2>1. IsFiniteSet(T) /\ SumFunctionOnSet(f, In(T)) = SumFunctionOnSet(g, T)
        /\ \A i \in T : g[i] \in Int
    BY <1>3, FS_Subset
  <2>2. In(T \union {j}) = In(T) \union In({j}) /\ In(T) \intersect In({j}) = {}
    OBVIOUS
  <2>3. SumFunctionOnSet(f, In(T) \union In({j})) = SumFunctionOnSet(f, In(T)) + SumFunctionOnSet(f, In({j}))
    <3> HIDE DEF In
    <3>1. IsFiniteSet(In(T)) /\ IsFiniteSet(In({j})) /\ \A x \in In(T) \union In({j}) : f[x] \in Int
      BY <1>2
    <3>2. PICK X, Y : X = In(T) /\ Y = In({j})
      OBVIOUS
    <3>3. /\ IsFiniteSet(X) /\ IsFiniteSet(Y) /\ X \intersect Y = {}
          /\ \A x \in X \union Y : f[x] \in Int
      BY <2>2, <3>1, <3>2
    <3>4. SumFunctionOnSet(f, X \union Y) = SumFunctionOnSet(f, X) + SumFunctionOnSet(f, Y)
      BY ONLY <3>3, SumUnion
    <3>5. QED
      BY <3>2, <3>4
  <2>4. SumFunctionOnSet(g, T \union {j}) = g[j] + SumFunctionOnSet(g, T)
    BY <1>3, <2>1, SumWith
  <2>5. PICK a \in Int, b \in Int : a = g[j] /\ b = SumFunctionOnSet(g, T)
    BY <1>3, <2>1, SumInt
  <2>6. SumFunctionOnSet(f, In(T \union {j})) = SumFunctionOnSet(g, T \union {j})
    <3> HIDE DEF In
    <3>1. SumFunctionOnSet(f, In(T \union {j})) = b + a
      BY <1>3, <2>1, <2>2, <2>3, <2>5
    <3>2. SumFunctionOnSet(g, T \union {j}) = a + b
      BY <2>4, <2>5
    <3>3. QED
      BY <2>5, <3>1, <3>2
  <2>7. QED
    BY <2>6
<1>5. J \in P
  <2> HIDE DEF P
  <2>1. P \in SUBSET (SUBSET J)
    BY DEF P
  <2>2. QED
    BY <1>1, <1>4, <2>1, AllSubsets
<1>6. In(J) = S
  OBVIOUS
<1>7. QED
  BY <1>5, <1>6

\* The rows of a table add up to what its columns do.
LEMMA SumTable ==
    ASSUME NEW W, IsFiniteSet(W), NEW J, IsFiniteSet(J),
           NEW a, \A w \in W : \A j \in J : a[w][j] \in Int,
           NEW r, \A w \in W : r[w] = SumFunctionOnSet(a[w], J),
           NEW col, \A j \in J : \A w \in W : col[j][w] = a[w][j],
           NEW c, \A j \in J : c[j] = SumFunctionOnSet(col[j], W)
    PROVE  SumFunctionOnSet(r, W) = SumFunctionOnSet(c, J)
<1> DEFINE part(T) == [w \in W |-> SumFunctionOnSet(a[w], T)]
           P == {T \in SUBSET J : SumFunctionOnSet(part(T), W) = SumFunctionOnSet(c, T)}
<1>1. {} \in P
  <2>1. \A w \in W : part({})[w] = 0
    BY SumEmpty
  <2>2. SumFunctionOnSet(part({}), W) = 0
    <3> HIDE DEF part
    <3>1. PICK z : z = part({})
      OBVIOUS
    <3>2. IsFiniteSet(W) /\ \A w \in W : z[w] = 0
      BY <2>1, <3>1
    <3>3. SumFunctionOnSet(z, W) = 0
      BY ONLY <3>2, SumZero
    <3>4. QED
      BY <3>1, <3>3
  <2>3. QED
    BY <2>2, SumEmpty
<1>2. \A j \in J : c[j] \in Int
  <2> SUFFICES ASSUME NEW j \in J PROVE c[j] \in Int
    OBVIOUS
  <2>1. \A w \in W : col[j][w] \in Int
    OBVIOUS
  <2>2. QED
    BY <2>1, SumInt
<1>3. ASSUME NEW T \in P, NEW j \in J \ T PROVE T \union {j} \in P
  <2> DEFINE colj == col[j]
  <2>1. IsFiniteSet(T) /\ SumFunctionOnSet(part(T), W) = SumFunctionOnSet(c, T)
        /\ T \in SUBSET J /\ T \union {j} \in SUBSET J
    BY FS_Subset
  <2>2. ASSUME NEW w \in W
        PROVE  part(T)[w] \in Int /\ colj[w] \in Int /\ part(T \union {j})[w] = part(T)[w] + colj[w]
    <3>1. \A i \in T : a[w][i] \in Int
      BY <2>1
    <3>2. SumFunctionOnSet(a[w], T) \in Int /\ a[w][j] \in Int
      BY <2>1, <3>1, SumInt
    <3>3. SumFunctionOnSet(a[w], T \union {j}) = a[w][j] + SumFunctionOnSet(a[w], T)
      BY <2>1, <3>1, <3>2, SumWith
    <3>4. QED
      BY <3>2, <3>3
  <2>3. SumFunctionOnSet(part(T \union {j}), W) = SumFunctionOnSet(part(T), W) + SumFunctionOnSet(colj, W)
    <3>1. \A w \in W : /\ part(T)[w] \in Int /\ colj[w] \in Int
                       /\ part(T \union {j})[w] = part(T)[w] + colj[w]
      BY <2>2
    <3> HIDE DEF part, colj
    <3>2. PICK p, q, t : p = part(T) /\ q = colj /\ t = part(T \union {j})
      OBVIOUS
    <3>3. \A w \in W : p[w] \in Int /\ q[w] \in Int /\ t[w] = p[w] + q[w]
      BY <3>1, <3>2
    <3>4. SumFunctionOnSet(t, W) = SumFunctionOnSet(p, W) + SumFunctionOnSet(q, W)
      BY <3>3, SumPlus
    <3>5. QED
      BY <3>2, <3>4
  <2>4. SumFunctionOnSet(colj, W) = c[j]
    OBVIOUS
  <2>5. SumFunctionOnSet(c, T \union {j}) = c[j] + SumFunctionOnSet(c, T)
    BY <1>2, <2>1, SumWith
  <2>6. PICK x \in Int, y \in Int : x = c[j] /\ y = SumFunctionOnSet(c, T)
    BY <1>2, <2>1, SumInt
  <2> HIDE DEF part, colj
  <2>7. SumFunctionOnSet(part(T \union {j}), W) = SumFunctionOnSet(c, T \union {j})
    <3>1. SumFunctionOnSet(part(T \union {j}), W) = y + x
      BY <2>1, <2>3, <2>4, <2>6
    <3>2. QED
      BY <2>5, <2>6, <3>1
  <2>8. QED
    BY <2>1, <2>7
<1>4. J \in P
  <2> HIDE DEF P
  <2>1. P \in SUBSET (SUBSET J)
    BY DEF P
  <2>2. QED
    BY <1>1, <1>3, <2>1, AllSubsets
<1>5. SumFunctionOnSet(part(J), W) = SumFunctionOnSet(r, W)
  <2>1. \A w \in W : part(J)[w] = r[w] /\ r[w] \in Int
    <3> SUFFICES ASSUME NEW w \in W PROVE part(J)[w] = r[w] /\ r[w] \in Int
      OBVIOUS
    <3>1. \A j \in J : a[w][j] \in Int
      OBVIOUS
    <3>2. SumFunctionOnSet(a[w], J) \in Int
      BY <3>1, SumInt
    <3>3. QED
      BY <3>2
  <2> HIDE DEF part
  <2>2. QED
    BY <2>1, SumSame
<1>6. QED
  BY <1>4, <1>5
=============================================================================

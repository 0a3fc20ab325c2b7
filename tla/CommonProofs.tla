---------------------------- MODULE CommonProofs ----------------------------
(***************************************************************************)
(* Lemmas the proofs of several components share: induction, stated as a   *)
(* fact about sets so that the provers can use it, the sums that costs and *)
(* counters are made of, and what _reorder_to_front does to a list.        *)
(***************************************************************************)
EXTENDS Lists, FiniteSetTheorems, SequenceTheorems, TLAPS

-----------------------------------------------------------------------------
(* Induction.  The library's induction theorems quantify over an operator; *)
(* here the induction hypothesis is membership in a set, and the theorem   *)
(* used is that a well-founded relation has minimal elements.              *)

\* What holds of a subset when it holds of all smaller ones holds of them all.
LEMMA SubsetInduction ==
    ASSUME NEW S, IsFiniteSet(S), NEW G \in SUBSET SUBSET S,
           \A T \in SUBSET S : (\A U \in SUBSET T : U # T => U \in G) => T \in G
    PROVE  G = SUBSET S
<1> DEFINE R == StrictSubsetOrdering(S)
           Bad == (SUBSET S) \ G
<1> SUFFICES ASSUME Bad # {} PROVE FALSE
  OBVIOUS
<1>1. IsWellFoundedOn(R, SUBSET S)
  <2>1. FiniteSubsetsOf(S) = SUBSET S
    BY FS_FiniteSubsetsOfFinite
  <2>2. IsWellFoundedOn(StrictSubsetOrdering(S), FiniteSubsetsOf(S))
    BY FS_StrictSubsetOrderingWellFounded
  <2> QED BY <2>1, <2>2
<1>2. Bad \subseteq SUBSET S
  OBVIOUS
<1>3. PICK T \in Bad : \A U \in Bad : ~ (<<U, T>> \in R)
  <2> HIDE DEF Bad, R
  <2> QED BY <1>1, <1>2, WFMin
<1>4. \A U \in SUBSET T : U # T => U \in G
  BY <1>3 DEF StrictSubsetOrdering
<1> QED BY <1>3, <1>4

\* Naturals have a least element.
LEMMA LeastNat ==
    ASSUME NEW G \in SUBSET Nat, G # {}
    PROVE  \E n \in G : \A m \in G : n <= m
<1> DEFINE R == OpToRel(<, Nat)
<1>1. IsWellFoundedOn(R, Nat)
  BY NatLessThanWellFounded
<1>2. PICK n \in G : \A m \in G : ~ (<<m, n>> \in R)
  <2> HIDE DEF R
  <2> QED BY <1>1, WFMin
<1>3. \A m \in G : ~ (m < n)
  BY <1>2 DEF OpToRel
<1> QED BY <1>3

\* A set of naturals that has zero and every successor has them all.
LEMMA NatSetInduction ==
    ASSUME NEW G \in SUBSET Nat, 0 \in G, \A n \in G : n + 1 \in G
    PROVE  G = Nat
<1> DEFINE Bad == Nat \ G
<1> SUFFICES ASSUME Bad # {} PROVE FALSE
  OBVIOUS
<1>1. PICK n \in Bad : \A m \in Bad : n <= m
  <2>1. Bad \in SUBSET Nat
    OBVIOUS
  <2> HIDE DEF Bad
  <2> QED BY <2>1, LeastNat
<1>2. n - 1 \in Nat /\ (n - 1) + 1 = n
  BY <1>1
<1>3. n - 1 \in G
  BY <1>1, <1>2
<1> QED BY <1>1, <1>2, <1>3

-----------------------------------------------------------------------------
(* Sums, as the community modules define them: over the subsets of a       *)
(* finite set, an arbitrary term first.                                    *)

Pick(T) == CHOOSE x \in T : TRUE

\* g[T] is the sum of f over T.
Adds(g, f, T) == g[T] = IF T = {} THEN 0 ELSE f[Pick(T)] + g[T \ {Pick(T)}]

LEMMA PickIn == \A T : T # {} => Pick(T) \in T
BY DEF Pick

\* There are sums over all subsets of at most n elements.
SumsUpTo(S, f, n) ==
    \E g \in [SUBSET S -> Nat] :
        \A T \in SUBSET S : Cardinality(T) <= n => Adds(g, f, T)

\* Larger subsets add one term to a sum there is already.
LEMMA SmallSums ==
    ASSUME NEW S, IsFiniteSet(S), NEW f \in [S -> Nat]
    PROVE  \A n \in Nat : SumsUpTo(S, f, n)
<1> DEFINE Has(m) == SumsUpTo(S, f, m)
           G == {m \in Nat : Has(m)}
<1>0. \A T \in SUBSET S : IsFiniteSet(T) /\ Cardinality(T) \in Nat /\ (Cardinality(T) = 0 => T = {})
  BY FS_Subset, FS_CardinalityType, FS_EmptySet
<1>1. Has(0)
  <2> DEFINE g == [T \in SUBSET S |-> 0]
  <2>1. \A T \in SUBSET S : Cardinality(T) <= 0 => Adds(g, f, T)
    BY <1>0 DEF Adds
  <2> QED BY <2>1 DEF SumsUpTo
<1>2. ASSUME NEW m \in Nat, Has(m) PROVE Has(m + 1)
  <2>1. PICK g \in [SUBSET S -> Nat] :
            \A T \in SUBSET S : Cardinality(T) <= m => Adds(g, f, T)
    BY <1>2 DEF SumsUpTo
  <2> DEFINE h == [T \in SUBSET S |-> IF T = {} THEN 0 ELSE f[Pick(T)] + g[T \ {Pick(T)}]]
  <2>2. ASSUME NEW T \in SUBSET S, T # {}
        PROVE  Pick(T) \in S /\ Pick(T) \in T /\ T \ {Pick(T)} \in SUBSET S
    BY <2>2, PickIn
  <2>3. h \in [SUBSET S -> Nat]
    BY <2>2
  <2>4. ASSUME NEW T \in SUBSET S, Cardinality(T) <= m + 1 PROVE Adds(h, f, T)
    <3>1. CASE T = {}
      BY <3>1 DEF Adds
    <3>2. CASE T # {}
      <4> DEFINE U == T \ {Pick(T)}
      <4>1. Cardinality(U) = Cardinality(T) - 1
        BY <1>0, <2>2, <3>2, FS_RemoveElement
      <4>2. Cardinality(U) <= m /\ U \in SUBSET S
        BY <1>0, <2>2, <2>4, <3>2, <4>1
      <4>3. g[U] = h[U]
        BY <2>1, <4>2 DEF Adds
      <4>4. h[T] = f[Pick(T)] + g[U]
        BY <3>2
      <4> QED BY <3>2, <4>3, <4>4 DEF Adds
    <3> QED BY <3>1, <3>2
  <2> HIDE DEF h
  <2> QED BY <2>3, <2>4 DEF SumsUpTo
<1> HIDE DEF Has
<1>3. 0 \in G /\ (\A m \in G : m + 1 \in G) /\ G \in SUBSET Nat
  BY <1>1, <1>2
<1>4. G = Nat
  <2> HIDE DEF G
  <2> QED BY <1>3, NatSetInduction
<1> QED BY <1>4 DEF Has

\* A sum is the sum of its parts: of the term picked first and of the others.
LEMMA SumAdds ==
    ASSUME NEW S, IsFiniteSet(S), NEW f \in [S -> Nat]
    PROVE  \E g \in [SUBSET S -> Nat] :
              SumFunction(f) = g[S] /\ \A T \in SUBSET S : Adds(g, f, T)
<1> DEFINE Next(g) == [T \in SUBSET S |-> IF T = {} THEN 0 ELSE f[Pick(T)] + g[T \ {Pick(T)}]]
           it == CHOOSE g : g = Next(g)
<1>1. PICK g \in [SUBSET S -> Nat] : \A T \in SUBSET S : Adds(g, f, T)
  <2>1. Cardinality(S) \in Nat
    BY FS_CardinalityType
  <2>2. \A T \in SUBSET S : Cardinality(T) <= Cardinality(S)
    BY FS_Subset
  <2>3. SumsUpTo(S, f, Cardinality(S))
    BY <2>1, SmallSums, Zenon
  <2> QED BY <2>2, <2>3 DEF SumsUpTo
<1>2. g = Next(g)
  BY <1>1 DEF Adds
<1>3. it = Next(it)
  <2> HIDE DEF Next
  <2> QED BY <1>2
<1>4. SumFunction(f) = it[S]
  <2>1. DOMAIN f = S
    OBVIOUS
  <2>2. SumFunction(f) = SumFunctionOnSet(f, S)
    BY <2>1 DEF SumFunction
  <2> QED BY <2>2 DEF SumFunctionOnSet, FoldFunctionOnSet, MapThenFoldSet, Pick
<1>5. \A T \in SUBSET S : Adds(it, f, T)
  <2> HIDE DEF it
  <2>1. DOMAIN it = SUBSET S
    BY <1>3
  <2> QED BY <1>3 DEF Adds
<1>6. it = [T \in SUBSET S |-> it[T]]
  <2> HIDE DEF it
  <2> QED BY <1>3
<1>7. \A T \in SUBSET S : it[T] \in Nat
  <2> DEFINE G == {T \in SUBSET S : it[T] \in Nat}
  <2> HIDE DEF it
  <2>1. ASSUME NEW T \in SUBSET S, \A U \in SUBSET T : U # T => U \in G PROVE T \in G
    <3>1. CASE T = {}
      <4>1. it[T] = 0
        BY <1>5, <3>1 DEF Adds
      <4> QED BY <4>1
    <3>2. CASE T # {}
      <4>1. Pick(T) \in T
        BY <3>2, PickIn
      <4>2. it[T \ {Pick(T)}] \in Nat /\ f[Pick(T)] \in Nat
        BY <2>1, <4>1
      <4>3. it[T] = f[Pick(T)] + it[T \ {Pick(T)}]
        BY <1>5, <3>2 DEF Adds
      <4> QED BY <4>2, <4>3
    <3> QED BY <3>1, <3>2
  <2>2. G \in SUBSET SUBSET S
    OBVIOUS
  <2>3. G = SUBSET S
    <3> HIDE DEF G
    <3> QED BY <2>1, <2>2, SubsetInduction
  <2> QED BY <2>3
<1> HIDE DEF it
<1> QED BY <1>4, <1>5, <1>6, <1>7

\* A sum of naturals is one.
LEMMA SumType ==
    ASSUME NEW S, IsFiniteSet(S), NEW f \in [S -> Nat]
    PROVE  SumFunction(f) \in Nat
<1>1. PICK g \in [SUBSET S -> Nat] : SumFunction(f) = g[S] /\ \A T \in SUBSET S : Adds(g, f, T)
  BY SumAdds, Zenon
<1> QED BY <1>1

\* The sum of nothing, and of one term.
LEMMA SumOfNone ==
    ASSUME NEW f \in [{} -> Nat]
    PROVE  SumFunction(f) = 0
<1>1. IsFiniteSet({})
  BY FS_EmptySet
<1> QED BY <1>1, SumAdds DEF Adds

LEMMA SumOfOne ==
    ASSUME NEW x, NEW f \in [{x} -> Nat]
    PROVE  SumFunction(f) = f[x]
<1>1. IsFiniteSet({x})
  BY FS_Singleton
<1>2. Pick({x}) = x
  BY PickIn
<1>3. {x} \ {x} = {}
  OBVIOUS
<1>4. PICK g \in [SUBSET {x} -> Nat] :
          SumFunction(f) = g[{x}] /\ \A T \in SUBSET {x} : Adds(g, f, T)
  BY <1>1, SumAdds
<1>5. g[{x}] = f[x] + g[{}] /\ g[{}] = 0
  BY <1>2, <1>3, <1>4 DEF Adds
<1> QED BY <1>4, <1>5

Splits(g, f, T) == \A x \in T : g[T] = f[x] + g[T \ {x}]

\* Which term is taken out does not matter.
LEMMA SumAnyOrder ==
    ASSUME NEW S, IsFiniteSet(S), NEW f \in [S -> Nat], NEW g \in [SUBSET S -> Nat],
           \A T \in SUBSET S : Adds(g, f, T)
    PROVE  \A T \in SUBSET S : Splits(g, f, T)
<1> DEFINE G == {T \in SUBSET S : \A x \in T : g[T] = f[x] + g[T \ {x}]}
<1>1. ASSUME NEW T \in SUBSET S, \A V \in SUBSET T : V # T => V \in G PROVE T \in G
  <2> SUFFICES ASSUME NEW x \in T PROVE g[T] = f[x] + g[T \ {x}]
    OBVIOUS
  <2> DEFINE z == Pick(T)
  <2>1. z \in T /\ g[T] = f[z] + g[T \ {z}]
    BY PickIn DEF Adds
  <2> HIDE DEF z
  <2>2. CASE x = z
    BY <2>1, <2>2
  <2>3. CASE x # z
    <3> DEFINE W == T \ {x, z}
    <3>0. T \ {z} \in G /\ T \ {x} \in G
      BY <1>1, <2>1
    <3>1. x \in T \ {z} /\ z \in T \ {x} /\ (T \ {z}) \ {x} = W /\ (T \ {x}) \ {z} = W
      BY <2>1, <2>3
    <3>2. g[T \ {z}] = f[x] + g[W] /\ g[T \ {x}] = f[z] + g[W]
      BY <3>0, <3>1
    <3>3. f[x] \in Nat /\ f[z] \in Nat /\ g[W] \in Nat
      BY <2>1
    <3> QED BY <2>1, <3>2, <3>3
  <2> QED BY <2>2, <2>3
<1>2. G \in SUBSET SUBSET S
  OBVIOUS
<1>3. G = SUBSET S
  <2> HIDE DEF G
  <2> QED BY <1>1, <1>2, SubsetInduction
<1> QED BY <1>3 DEF Splits

LEMMA SumSplits ==
    ASSUME NEW S, IsFiniteSet(S), NEW f \in [S -> Nat]
    PROVE  \E g \in [SUBSET S -> Nat] :
              /\ SumFunction(f) = g[S] /\ g[{}] = 0
              /\ \A T \in SUBSET S : Splits(g, f, T)
<1>1. PICK g \in [SUBSET S -> Nat] : SumFunction(f) = g[S] /\ \A T \in SUBSET S : Adds(g, f, T)
  BY SumAdds, Zenon
<1>2. \A T \in SUBSET S : Adds(g, f, T)
  BY <1>1
<1>3. \A T \in SUBSET S : Splits(g, f, T)
  BY <1>2, SumAnyOrder, Zenon
<1>4. g[{}] = 0
  BY <1>2 DEF Adds
<1> QED BY <1>1, <1>3, <1>4

\* Larger terms make a larger sum.
LEMMA SumMonotone ==
    ASSUME NEW S, IsFiniteSet(S), NEW f \in [S -> Nat], NEW g \in [S -> Nat],
           \A x \in S : f[x] <= g[x]
    PROVE  SumFunction(f) <= SumFunction(g)
<1>1. PICK F \in [SUBSET S -> Nat] : SumFunction(f) = F[S] /\ \A T \in SUBSET S : Adds(F, f, T)
  BY SumAdds, Zenon
<1>2. PICK H \in [SUBSET S -> Nat] : SumFunction(g) = H[S] /\ \A T \in SUBSET S : Adds(H, g, T)
  BY SumAdds, Zenon
<1> DEFINE G == {T \in SUBSET S : F[T] <= H[T]}
<1>3. ASSUME NEW T \in SUBSET S, \A U \in SUBSET T : U # T => U \in G PROVE T \in G
  <2>1. CASE T = {}
    <3>1. F[T] = 0 /\ H[T] = 0
      BY <1>1, <1>2, <2>1 DEF Adds
    <3> QED BY <3>1
  <2>2. CASE T # {}
    <3> DEFINE x == Pick(T)
    <3>1. x \in T
      BY <2>2, PickIn
    <3>2. F[T] = f[x] + F[T \ {x}] /\ H[T] = g[x] + H[T \ {x}]
      BY <1>1, <1>2, <2>2 DEF Adds
    <3> HIDE DEF x
    <3>3. T \ {x} \in G
      BY <1>3, <3>1
    <3>4. /\ F[T \ {x}] \in Nat /\ H[T \ {x}] \in Nat /\ F[T \ {x}] <= H[T \ {x}]
          /\ f[x] \in Nat /\ g[x] \in Nat /\ f[x] <= g[x]
      BY <3>1, <3>3
    <3>5. F[T] <= H[T]
      BY <3>2, <3>4
    <3> QED BY <3>5
  <2> QED BY <2>1, <2>2
<1>4. G \in SUBSET SUBSET S
  OBVIOUS
<1>5. G = SUBSET S
  <2> HIDE DEF G
  <2> QED BY <1>3, <1>4, SubsetInduction
<1>6. S \in G
  <2> HIDE DEF G
  <2> QED BY <1>5
<1> QED BY <1>1, <1>2, <1>6

\* The sum of zeros.
LEMMA SumOfZeros ==
    ASSUME NEW S, IsFiniteSet(S), NEW f \in [S -> Nat], \A x \in S : f[x] = 0
    PROVE  SumFunction(f) = 0
<1>1. PICK F \in [SUBSET S -> Nat] : SumFunction(f) = F[S] /\ \A T \in SUBSET S : Adds(F, f, T)
  BY SumAdds, Zenon
<1> DEFINE G == {T \in SUBSET S : F[T] = 0}
<1>2. ASSUME NEW T \in SUBSET S, \A U \in SUBSET T : U # T => U \in G PROVE T \in G
  <2>1. CASE T = {}
    BY <1>1, <2>1 DEF Adds
  <2>2. CASE T # {}
    <3> DEFINE x == Pick(T)
    <3>1. x \in T
      BY <2>2, PickIn
    <3>2. F[T] = f[x] + F[T \ {x}]
      BY <1>1, <2>2 DEF Adds
    <3> HIDE DEF x
    <3>3. F[T \ {x}] = 0 /\ f[x] = 0
      BY <1>2, <3>1
    <3> QED BY <3>2, <3>3
  <2> QED BY <2>1, <2>2
<1>3. G \in SUBSET SUBSET S
  OBVIOUS
<1>4. G = SUBSET S
  <2> HIDE DEF G
  <2> QED BY <1>2, <1>3, SubsetInduction
<1>5. S \in G
  <2> HIDE DEF G
  <2> QED BY <1>4
<1> QED BY <1>1, <1>5

\* A sum moves by what one of its terms does.
LEMMA SumChanges ==
    ASSUME NEW S, IsFiniteSet(S), NEW f \in [S -> Nat], NEW g \in [S -> Nat],
           NEW x \in S, \A y \in S \ {x} : g[y] = f[y]
    PROVE  SumFunction(g) + f[x] = SumFunction(f) + g[x]
<1>1. PICK F \in [SUBSET S -> Nat] :
          /\ SumFunction(f) = F[S] /\ F[{}] = 0
          /\ \A T \in SUBSET S : Splits(F, f, T)
  BY SumSplits, Zenon
<1>2. PICK H \in [SUBSET S -> Nat] :
          /\ SumFunction(g) = H[S] /\ H[{}] = 0
          /\ \A T \in SUBSET S : Splits(H, g, T)
  BY SumSplits, Zenon
<1> DEFINE G == {T \in SUBSET S : x \in T \/ F[T] = H[T]}
<1>3. ASSUME NEW T \in SUBSET S, \A U \in SUBSET T : U # T => U \in G PROVE T \in G
  <2>1. CASE T = {} \/ x \in T
    BY <1>1, <1>2, <2>1
  <2>2. ASSUME x \notin T, NEW y \in T PROVE T \in G
    <3>1. F[T] = f[y] + F[T \ {y}] /\ H[T] = g[y] + H[T \ {y}]
      BY <1>1, <1>2 DEF Splits
    <3>2. F[T \ {y}] = H[T \ {y}] /\ g[y] = f[y]
      BY <1>3, <2>2
    <3> QED BY <3>1, <3>2
  <2> QED BY <2>1, <2>2
<1>4. G \in SUBSET SUBSET S
  OBVIOUS
<1>5. G = SUBSET S
  <2> HIDE DEF G
  <2> QED BY <1>3, <1>4, SubsetInduction
<1>6. F[S \ {x}] = H[S \ {x}]
  BY <1>5
<1>7. F[S] = f[x] + F[S \ {x}] /\ H[S] = g[x] + H[S \ {x}]
  BY <1>1, <1>2 DEF Splits
<1>8. F[S \ {x}] \in Nat /\ H[S \ {x}] \in Nat /\ f[x] \in Nat /\ g[x] \in Nat
  OBVIOUS
<1> QED BY <1>1, <1>2, <1>6, <1>7, <1>8

-----------------------------------------------------------------------------
(* Lists.                                                                  *)

\* _reorder_to_front permutes: same length, same candidates, the pick first.
LEMMA ReorderPermutes ==
    ASSUME NEW S, NEW l \in Seq(S), NEW c
    PROVE  /\ ReorderToFront(l, c) \in Seq(S)
           /\ Len(ReorderToFront(l, c)) = Len(l)
           /\ Elements(ReorderToFront(l, c)) = Elements(l)
           /\ c \in Elements(l) => ReorderToFront(l, c)[1] = c
<1>1. CASE c \notin Elements(l)
  BY <1>1 DEF ReorderToFront
<1>2. CASE c \in Elements(l)
  <2> DEFINE at == CHOOSE i \in DOMAIN l : l[i] = c
             n == Len(l)
             m == [i \in DOMAIN l |-> IF i = 1 THEN c
                                      ELSE IF i <= at THEN l[i - 1] ELSE l[i]]
  <2>1. at \in DOMAIN l /\ l[at] = c
    BY <1>2 DEF Elements
  <2>2. n \in Nat /\ DOMAIN l = 1..n /\ at \in 1..n
    BY <2>1
  <2>3. ReorderToFront(l, c) = m
    BY <1>2 DEF ReorderToFront
  <2> HIDE DEF at
  <2>4. \A i \in 1..n : m[i] = IF i = 1 THEN l[at]
                               ELSE IF i <= at THEN l[i - 1] ELSE l[i]
    BY <2>1, <2>2
  <2>5. m \in Seq(S) /\ Len(m) = n /\ DOMAIN m = 1..n
    <3>1. \A i \in 1..n : l[i] \in S
      BY <2>2, ElementOfSeq
    <3>2. \A i \in 1..n : m[i] \in S
      BY <2>2, <2>4, <3>1
    <3>3. m \in [1..n -> S]
      BY <2>2, <3>2
    <3> QED BY <2>2, <3>3, IsASeq, LenProperties
  <2>6. Elements(m) \subseteq Elements(l)
    <3>1. ASSUME NEW i \in 1..n PROVE m[i] \in {l[j] : j \in 1..n}
      BY <2>2, <2>4
    <3> QED BY <2>2, <2>5, <3>1 DEF Elements
  <2>7. Elements(l) \subseteq Elements(m)
    <3>1. ASSUME NEW j \in 1..n PROVE \E i \in 1..n : m[i] = l[j]
      <4>1. CASE j = at
        BY <4>1, <2>2, <2>4
      <4>2. CASE j < at
        <5>1. j + 1 \in 1..n /\ j + 1 # 1 /\ j + 1 <= at /\ (j + 1) - 1 = j
          BY <4>2, <2>2
        <5>2. m[j + 1] = l[j]
          BY <5>1, <2>4
        <5> QED BY <5>1, <5>2
      <4>3. CASE j > at
        <5>1. j # 1 /\ ~(j <= at)
          BY <4>3, <2>2
        <5> QED BY <5>1, <2>4
      <4> QED BY <4>1, <4>2, <4>3, <2>2
    <3> HIDE DEF m
    <3>2. /\ Elements(l) = {l[j] : j \in 1..n}
          /\ Elements(m) = {m[i] : i \in 1..n}
      BY <2>2, <2>5 DEF Elements
    <3> QED BY <3>1, <3>2
  <2>8. m[1] = c
    BY <2>1, <2>2, <2>4
  <2> QED BY <2>3, <2>5, <2>6, <2>7, <2>8
<1> QED BY <1>1, <1>2
=============================================================================

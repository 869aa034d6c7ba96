---------------------------- MODULE SumTheorems ----------------------------
(***************************************************************************)
(* What the models' sums (SumFunctionOnSet: of balances, amounts, sizes,   *)
(* voting powers) satisfy on every finite set.  The library's induction    *)
(* theorems take an operator as a parameter; the ones here take a set, and *)
(* come from the existence of minimal elements (WFMin).                    *)
(***************************************************************************)
EXTENDS Integers, FiniteSets, FiniteSetTheorems, WellFoundedInduction, Functions, TLAPS

\* A non-empty set of natural numbers has a least element.
LEMMA LeastNatural ==
    ASSUME NEW T, T \subseteq Nat, T # {}
    PROVE  \E n \in T : \A m \in T : n <= m
<1> DEFINE R == OpToRel(<, Nat)
<1>1. IsWellFoundedOn(R, Nat)
    BY NatLessThanWellFounded, Zenon
<1>2. \A m, n \in Nat : <<m, n>> \in R <=> m < n
    BY Zenon DEF OpToRel
<1> HIDE DEF R
<1>3. PICK n \in T : \A m \in T : ~(<<m, n>> \in R)
    BY <1>1, WFMin, Zenon
<1>4. ASSUME NEW m \in T PROVE n <= m
    <2>1. m \in Nat /\ n \in Nat
        BY Zenon
    <2>2. ~(m < n)
        BY <1>2, <1>3, <2>1, Zenon
    <2> QED BY <2>1, <2>2
<1> QED BY <1>4, Zenon

\* Induction on the natural numbers, for a set of them.
LEMMA NaturalsIn ==
    ASSUME NEW T, 0 \in T, \A n \in Nat : n \in T => n + 1 \in T
    PROVE  Nat \subseteq T
<1> SUFFICES ASSUME NEW k \in Nat, k \notin T PROVE FALSE
    BY Zenon
<1> DEFINE Missing == {n \in Nat : n \notin T}
<1>1. Missing \subseteq Nat /\ Missing # {}
    BY Zenon
<1>2. PICK n \in Missing : \A m \in Missing : n <= m
    <2> HIDE DEF Missing
    <2> QED BY <1>1, LeastNatural, Zenon
<1>3. n \in Nat /\ n # 0 /\ n \notin T
    BY Zenon
<1>4. n - 1 \in Nat /\ ~(n <= n - 1)
    BY <1>3
<1>5. n - 1 \in T
    BY <1>2, <1>4, Zenon
<1>6. (n - 1) + 1 \in T
    BY <1>4, <1>5, Zenon
<1> QED BY <1>3, <1>6

\* Induction on the subsets of a finite set: what holds of a set when it holds of its
\* proper subsets holds of all of them.
LEMMA SmallerSubsets ==
    ASSUME NEW S, IsFiniteSet(S), NEW T,
           ASSUME NEW s \in SUBSET S, \A r \in SUBSET s : r # s => r \in T
           PROVE  s \in T
    PROVE  SUBSET S \subseteq T
<1>1. \A s \in SUBSET S : IsFiniteSet(s) /\ Cardinality(s) \in Nat
    BY FS_Subset, FS_CardinalityType, Zenon
<1> DEFINE N == {n \in Nat : \A s \in SUBSET S : Cardinality(s) < n => s \in T}
<1>2. 0 \in N
    BY <1>1
<1>3. ASSUME NEW n \in Nat, n \in N PROVE n + 1 \in N
    <2>1. ASSUME NEW s \in SUBSET S, Cardinality(s) < n + 1 PROVE s \in T
        <3>1. ASSUME NEW r \in SUBSET s, r # s PROVE r \in T
            <4>1. IsFiniteSet(s) /\ r \in SUBSET S
                BY <1>1, Zenon
            <4>2. Cardinality(r) <= Cardinality(s) /\ Cardinality(r) # Cardinality(s)
                BY <3>1, <4>1, FS_Subset, Zenon
            <4>3. Cardinality(r) < n
                BY <1>1, <2>1, <4>1, <4>2
            <4> QED BY <1>3, <4>1, <4>3, Zenon
        <3> QED BY <3>1, Zenon
    <2> QED BY <2>1
<1>4. Nat \subseteq N
    <2> HIDE DEF N
    <2> QED BY <1>2, <1>3, NaturalsIn, Zenon
<1>5. ASSUME NEW s \in SUBSET S PROVE s \in T
    <2>1. Cardinality(s) \in Nat /\ Cardinality(s) < Cardinality(s) + 1
        BY <1>1
    <2>2. Cardinality(s) + 1 \in N
        BY <1>4, <2>1
    <2> QED BY <2>1, <2>2, Zenon
<1> QED BY <1>5, Zenon

-----------------------------------------------------------------------------
(* Folds                                                                   *)

\* A finite set has a last element in any order that is total and transitive on it.
LEMMA LastExists ==
    ASSUME NEW S, IsFiniteSet(S), S # {}, NEW R,
           \A v, w \in S : v # w => <<v, w>> \in R \/ <<w, v>> \in R,
           \A u, v, w \in S : <<u, v>> \in R /\ <<v, w>> \in R => <<u, w>> \in R
    PROVE  \E w \in S : \A v \in S \ {w} : <<v, w>> \in R
<1> DEFINE Last(s) == \E w \in s : \A v \in s \ {w} : <<v, w>> \in R
           T == {s \in SUBSET S : s # {} => Last(s)}
<1>1. ASSUME NEW s \in SUBSET S, \A r \in SUBSET s : r # s => r \in T
      PROVE  s \in T
    <2> SUFFICES ASSUME s # {} PROVE Last(s)
        BY Zenon
    <2>1. PICK x \in s : TRUE
        BY Zenon
    <2>2. CASE s = {x}
        BY <2>2, Zenon
    <2>3. CASE s # {x}
        <3>1. s \ {x} \in T /\ s \ {x} # {}
            <4>1. s \ {x} \in SUBSET s /\ s \ {x} # s /\ s \ {x} # {}
                BY <2>1, <2>3, Zenon
            <4> HIDE DEF T
            <4> QED BY <1>1, <4>1, Zenon
        <3>2. PICK w \in s \ {x} : \A v \in (s \ {x}) \ {w} : <<v, w>> \in R
            BY <3>1, Zenon
        <3>3. CASE <<x, w>> \in R
            <4>1. \A v \in s \ {w} : <<v, w>> \in R
                BY <3>2, <3>3, Zenon
            <4> QED BY <3>2, <4>1, Zenon
        <3>4. CASE <<w, x>> \in R
            <4>1. \A v \in s \ {x} : <<v, x>> \in R
                BY <3>2, <3>4, Zenon
            <4> QED BY <4>1, Zenon
        <3> QED BY <3>2, <3>3, <3>4, Zenon
    <2> QED BY <2>2, <2>3, Zenon
<1>2. SUBSET S \subseteq T
    <2> HIDE DEF T
    <2> QED BY <1>1, SmallerSubsets, Zenon
<1> QED BY <1>2, Zenon

\* A fold: pick names the element each subset gives up, step maps it and the fold of the
\* rest to the fold of the subset.
IsFold(S, pick, step, base, g) ==
    \A s \in SUBSET S : g[s] = IF s = {} THEN base ELSE step[<<pick[s], g[s \ {pick[s]}]>>]

\* A fold over a finite set exists.
LEMMA FoldExists ==
    ASSUME NEW S, IsFiniteSet(S), NEW pick, \A s \in SUBSET S : s # {} => pick[s] \in s,
           NEW V, NEW base \in V, NEW step \in [S \X V -> V]
    PROVE  \E g \in [SUBSET S -> V] : IsFold(S, pick, step, base, g)
<1>1. \A s \in SUBSET S : IsFiniteSet(s) /\ Cardinality(s) \in Nat
    BY FS_Subset, FS_CardinalityType, Zenon
<1>2. ASSUME NEW s \in SUBSET S, s # {}
      PROVE  /\ pick[s] \in S /\ s \ {pick[s]} \in SUBSET S
             /\ Cardinality(s \ {pick[s]}) = Cardinality(s) - 1
    BY <1>1, <1>2, FS_RemoveElement, Zenon
<1> DEFINE Level(g, s) == IF s = {} THEN base ELSE step[<<pick[s], g[s \ {pick[s]}]>>]
           Upto(g, n) == \A s \in SUBSET S : Cardinality(s) < n => g[s] = Level(g, s)
           N == {n \in Nat : \E g \in [SUBSET S -> V] : Upto(g, n)}
<1>3. 0 \in N
    <2> DEFINE g == [s \in SUBSET S |-> base]
    <2>1. g \in [SUBSET S -> V]
        BY Zenon
    <2> HIDE DEF g
    <2>2. Upto(g, 0)
        <3> HIDE DEF Level
        <3> QED BY <1>1
    <2> HIDE DEF Upto
    <2> QED BY <2>1, <2>2, Zenon
<1>4. ASSUME NEW g \in [SUBSET S -> V], NEW s \in SUBSET S PROVE Level(g, s) \in V
    <2>1. CASE s = {}
        BY <2>1, Zenon
    <2>2. CASE s # {}
        <3>1. pick[s] \in S /\ g[s \ {pick[s]}] \in V
            BY <1>2, <2>2, Zenon
        <3> QED BY <2>2, <3>1, Zenon
    <2> QED BY <2>1, <2>2, Zenon
<1>5. ASSUME NEW n \in Nat, n \in N PROVE n + 1 \in N
    <2>1. PICK g \in [SUBSET S -> V] : Upto(g, n)
        BY <1>5, Zenon
    <2> DEFINE h == [s \in SUBSET S |-> Level(g, s)]
    <2>2. h \in [SUBSET S -> V]
        <3> HIDE DEF Level
        <3> QED BY <1>4, Zenon
    <2>3. \A s \in SUBSET S : h[s] = Level(g, s)
        BY Zenon
    <2>4. \A s \in SUBSET S : Cardinality(s) < n => h[s] = g[s]
        BY <2>1, Zenon
    <2> HIDE DEF h
    <2>5. ASSUME NEW s \in SUBSET S, Cardinality(s) < n + 1 PROVE Level(h, s) = Level(g, s)
        <3>1. CASE s = {}
            BY <3>1, Zenon
        <3>2. CASE s # {}
            <4>1. /\ s \ {pick[s]} \in SUBSET S
                  /\ Cardinality(s \ {pick[s]}) = Cardinality(s) - 1
                BY <1>2, <3>2, Zenon
            <4>2. Cardinality(s \ {pick[s]}) < n
                BY <1>1, <2>5, <4>1
            <4>3. h[s \ {pick[s]}] = g[s \ {pick[s]}]
                BY <2>4, <4>1, <4>2, Zenon
            <4> QED BY <4>3, Zenon
        <3> QED BY <3>1, <3>2, Zenon
    <2>6. Upto(h, n + 1)
        <3> HIDE DEF Level
        <3> QED BY <2>3, <2>5, Zenon
    <2> HIDE DEF Upto
    <2> QED BY <2>2, <2>6
<1>6. Nat \subseteq N
    <2> HIDE DEF N
    <2> QED BY <1>3, <1>5, NaturalsIn, Zenon
<1>7. PICK g \in [SUBSET S -> V] : Upto(g, Cardinality(S) + 1)
    <2>1. Cardinality(S) + 1 \in Nat
        BY <1>1
    <2>2. Cardinality(S) + 1 \in N
        <3> HIDE DEF N
        <3> QED BY <1>6, <2>1, Zenon
    <2> HIDE DEF Upto
    <2> QED BY <2>2, Zenon
<1>8. \A s \in SUBSET S : g[s] = Level(g, s)
    <2>1. \A s \in SUBSET S : Cardinality(s) < Cardinality(S) + 1
        BY <1>1, FS_Subset
    <2> QED BY <1>7, <2>1, Zenon
<1> QED BY <1>8, Zenon DEF IsFold

-----------------------------------------------------------------------------
(* Sums                                                                    *)

\* The element SumFunctionOnSet takes next, and one level of its recursion.
AnyOf(s) == CHOOSE x \in s : TRUE
Term(f, g, s) == IF s = {} THEN 0 ELSE f[AnyOf(s)] + g[s \ {AnyOf(s)}]
IsPartialSum(f, S, g) == g = [s \in SUBSET S |-> Term(f, g, s)]
PartialSum(f, S) == CHOOSE g : IsPartialSum(f, S, g)

\* AnyOf takes an element.
LEMMA AnyOfElement == ASSUME NEW s, s # {} PROVE AnyOf(s) \in s
BY Zenon DEF AnyOf

\* SumFunctionOnSet is this recursion, applied to the whole set.
LEMMA SumIsPartialSum ==
    ASSUME NEW f, NEW S
    PROVE  SumFunctionOnSet(f, S) = PartialSum(f, S)[S]
BY Zenon DEF SumFunctionOnSet, FoldFunctionOnSet, MapThenFoldSet, PartialSum, IsPartialSum, Term, AnyOf

\* The recursive definition has a solution on the subsets of a finite set.
LEMMA PartialSumExists ==
    ASSUME NEW f, NEW S, IsFiniteSet(S)
    PROVE  IsPartialSum(f, S, PartialSum(f, S))
<1>1. \A s \in SUBSET S : IsFiniteSet(s) /\ Cardinality(s) \in Nat
    BY FS_Subset, FS_CardinalityType, Zenon
<1>2. ASSUME NEW s \in SUBSET S, s # {}
      PROVE  /\ AnyOf(s) \in s /\ s \ {AnyOf(s)} \in SUBSET S
             /\ Cardinality(s \ {AnyOf(s)}) = Cardinality(s) - 1
    BY <1>1, <1>2, AnyOfElement, FS_RemoveElement, Zenon
<1> DEFINE Upto(g, n) == \A s \in SUBSET S : Cardinality(s) < n => g[s] = Term(f, g, s)
           N == {n \in Nat : \E g : Upto(g, n)}
<1>3. 0 \in N
    BY <1>1
<1>4. ASSUME NEW n \in Nat, n \in N PROVE n + 1 \in N
    <2>1. PICK g : Upto(g, n)
        BY <1>4, Zenon
    <2> DEFINE h == [s \in SUBSET S |-> IF Cardinality(s) < n THEN g[s] ELSE Term(f, g, s)]
    <2>2. \A s \in SUBSET S : h[s] = Term(f, g, s)
        BY <2>1, Zenon
    <2>3. \A s \in SUBSET S : Cardinality(s) < n => h[s] = g[s]
        BY Zenon
    <2> HIDE DEF h
    <2>4. ASSUME NEW s \in SUBSET S, Cardinality(s) < n + 1 PROVE Term(f, h, s) = Term(f, g, s)
        <3>1. CASE s = {}
            BY <3>1, Zenon DEF Term
        <3>2. CASE s # {}
            <4>1. /\ s \ {AnyOf(s)} \in SUBSET S
                  /\ Cardinality(s \ {AnyOf(s)}) = Cardinality(s) - 1
                BY <1>2, <3>2, Zenon
            <4>2. Cardinality(s \ {AnyOf(s)}) < n
                BY <1>1, <2>4, <4>1
            <4> QED BY <2>3, <4>1, <4>2, Zenon DEF Term
        <3> QED BY <3>1, <3>2, Zenon
    <2>5. Upto(h, n + 1)
        BY <2>2, <2>4, Zenon
    <2> QED BY <2>5
<1>5. Nat \subseteq N
    <2> HIDE DEF N
    <2> QED BY <1>3, <1>4, NaturalsIn, Zenon
<1>6. PICK g : Upto(g, Cardinality(S) + 1)
    <2>1. Cardinality(S) + 1 \in N
        BY <1>1, <1>5
    <2> QED BY <2>1, Zenon
<1>7. \A s \in SUBSET S : g[s] = Term(f, g, s)
    <2>1. \A s \in SUBSET S : Cardinality(s) < Cardinality(S) + 1
        BY <1>1, FS_Subset
    <2> QED BY <1>6, <2>1, Zenon
<1> DEFINE h == [s \in SUBSET S |-> g[s]]
<1>8. \A s \in SUBSET S : Term(f, h, s) = Term(f, g, s)
    BY <1>2, Zenon DEF Term
<1>9. IsPartialSum(f, S, h)
    BY <1>7, <1>8, Zenon DEF IsPartialSum
<1> HIDE DEF h
<1> QED BY <1>9, Zenon DEF PartialSum

\* One level of the recursion, unfolded.
LEMMA PartialSumStep ==
    ASSUME NEW f, NEW S, IsFiniteSet(S), NEW s \in SUBSET S
    PROVE  PartialSum(f, S)[s] = Term(f, PartialSum(f, S), s)
<1> DEFINE g == PartialSum(f, S)
<1>1. IsPartialSum(f, S, g)
    BY PartialSumExists, Zenon
<1> HIDE DEF g
<1>2. g[s] = Term(f, g, s)
    BY <1>1, Zenon DEF IsPartialSum
<1> QED BY <1>2, Zenon DEF g

\* The sum of a subset does not depend on the set the recursion started from.
LEMMA SumOfSubset ==
    ASSUME NEW f, NEW S, IsFiniteSet(S), NEW s \in SUBSET S
    PROVE  PartialSum(f, S)[s] = SumFunctionOnSet(f, s)
<1> DEFINE T == {r \in SUBSET S : \A R \in SUBSET S :
                    r \subseteq R => PartialSum(f, R)[r] = PartialSum(f, S)[r]}
<1>1. ASSUME NEW r \in SUBSET S, \A q \in SUBSET r : q # r => q \in T
      PROVE  r \in T
    <2>1. ASSUME NEW R \in SUBSET S, r \subseteq R
          PROVE  PartialSum(f, R)[r] = PartialSum(f, S)[r]
        <3>1. IsFiniteSet(R)
            BY FS_Subset, Zenon
        <3>2. /\ PartialSum(f, R)[r] = Term(f, PartialSum(f, R), r)
              /\ PartialSum(f, S)[r] = Term(f, PartialSum(f, S), r)
            BY <2>1, <3>1, PartialSumStep, Zenon
        <3>3. CASE r = {}
            BY <3>2, <3>3, Zenon DEF Term
        <3>4. CASE r # {}
            <4>1. AnyOf(r) \in r
                BY <3>4, AnyOfElement, Zenon
            <4>2. r \ {AnyOf(r)} \in T /\ r \ {AnyOf(r)} \subseteq R
                BY <1>1, <2>1, <4>1, Zenon
            <4>3. PartialSum(f, R)[r \ {AnyOf(r)}] = PartialSum(f, S)[r \ {AnyOf(r)}]
                BY <4>2, Zenon
            <4> QED BY <3>2, <3>4, <4>3, Zenon DEF Term
        <3> QED BY <3>3, <3>4, Zenon
    <2> QED BY <2>1, Zenon
<1>2. SUBSET S \subseteq T
    <2> HIDE DEF T
    <2> QED BY <1>1, SmallerSubsets, Zenon
<1>3. PartialSum(f, s)[s] = PartialSum(f, S)[s]
    BY <1>2, Zenon
<1> QED BY <1>3, SumIsPartialSum, Zenon

\* The empty sum.
LEMMA SumEmpty == ASSUME NEW f PROVE SumFunctionOnSet(f, {}) = 0
<1>1. IsPartialSum(f, {}, PartialSum(f, {}))
    BY FS_EmptySet, PartialSumExists, Zenon
<1>2. PartialSum(f, {})[{}] = Term(f, PartialSum(f, {}), {})
    BY <1>1, Zenon DEF IsPartialSum
<1> QED BY <1>2, SumIsPartialSum, Zenon DEF Term

\* The sum starts with the element picked.
LEMMA SumPick ==
    ASSUME NEW f, NEW S, IsFiniteSet(S), S # {}
    PROVE  SumFunctionOnSet(f, S) = f[AnyOf(S)] + SumFunctionOnSet(f, S \ {AnyOf(S)})
<1>1. PartialSum(f, S)[S] = Term(f, PartialSum(f, S), S)
    BY PartialSumStep, Zenon
<1>2. PartialSum(f, S)[S \ {AnyOf(S)}] = SumFunctionOnSet(f, S \ {AnyOf(S)})
    BY SumOfSubset, Zenon
<1> QED BY <1>1, <1>2, SumIsPartialSum, Zenon DEF Term

\* A sum of integers is an integer.
LEMMA SumInt ==
    ASSUME NEW f, NEW S, IsFiniteSet(S), \A x \in S : f[x] \in Int
    PROVE  SumFunctionOnSet(f, S) \in Int
<1> DEFINE T == {s \in SUBSET S : SumFunctionOnSet(f, s) \in Int}
<1>1. ASSUME NEW s \in SUBSET S, \A r \in SUBSET s : r # s => r \in T
      PROVE  s \in T
    <2>1. CASE s = {}
        BY <2>1, SumEmpty
    <2>2. CASE s # {}
        <3>1. AnyOf(s) \in s /\ IsFiniteSet(s)
            BY <2>2, AnyOfElement, FS_Subset, Zenon
        <3>2. s \ {AnyOf(s)} \in T
            BY <1>1, <3>1, Zenon
        <3>3. f[AnyOf(s)] + SumFunctionOnSet(f, s \ {AnyOf(s)}) \in Int
            BY <3>1, <3>2
        <3> QED BY <2>2, <3>1, <3>3, SumPick, Zenon
    <2> QED BY <2>1, <2>2, Zenon
<1>2. SUBSET S \subseteq T
    <2> HIDE DEF T
    <2> QED BY <1>1, SmallerSubsets, Zenon
<1> QED BY <1>2, Zenon

\* A sum of natural numbers is a natural number.
LEMMA SumNat ==
    ASSUME NEW f, NEW S, IsFiniteSet(S), \A x \in S : f[x] \in Nat
    PROVE  SumFunctionOnSet(f, S) \in Nat
<1> DEFINE T == {s \in SUBSET S : SumFunctionOnSet(f, s) \in Nat}
<1>1. ASSUME NEW s \in SUBSET S, \A r \in SUBSET s : r # s => r \in T
      PROVE  s \in T
    <2>1. CASE s = {}
        BY <2>1, SumEmpty
    <2>2. CASE s # {}
        <3>1. AnyOf(s) \in s /\ IsFiniteSet(s)
            BY <2>2, AnyOfElement, FS_Subset, Zenon
        <3>2. s \ {AnyOf(s)} \in T
            BY <1>1, <3>1, Zenon
        <3>3. f[AnyOf(s)] + SumFunctionOnSet(f, s \ {AnyOf(s)}) \in Nat
            BY <3>1, <3>2
        <3> QED BY <2>2, <3>1, <3>3, SumPick, Zenon
    <2> QED BY <2>1, <2>2, Zenon
<1>2. SUBSET S \subseteq T
    <2> HIDE DEF T
    <2> QED BY <1>1, SmallerSubsets, Zenon
<1> QED BY <1>2, Zenon

\* A sum can be taken starting with any of its elements.
LEMMA SumRemove ==
    ASSUME NEW f, NEW S, IsFiniteSet(S), \A y \in S : f[y] \in Int, NEW x \in S
    PROVE  SumFunctionOnSet(f, S) = f[x] + SumFunctionOnSet(f, S \ {x})
<1> DEFINE T == {s \in SUBSET S : \A y \in s :
                    SumFunctionOnSet(f, s) = f[y] + SumFunctionOnSet(f, s \ {y})}
<1>1. ASSUME NEW s \in SUBSET S, \A r \in SUBSET s : r # s => r \in T
      PROVE  s \in T
    <2>1. ASSUME NEW y \in s
          PROVE  SumFunctionOnSet(f, s) = f[y] + SumFunctionOnSet(f, s \ {y})
        <3> DEFINE p == AnyOf(s)
                   rest == (s \ {p}) \ {y}
        <3>1. p \in s /\ IsFiniteSet(s) /\ IsFiniteSet(rest)
            BY AnyOfElement, FS_Subset, Zenon
        <3>2. SumFunctionOnSet(f, s) = f[p] + SumFunctionOnSet(f, s \ {p})
            BY <3>1, SumPick, Zenon
        <3> HIDE DEF p
        <3>3. CASE y = p
            BY <3>2, <3>3, Zenon
        <3>4. CASE y # p
            <4>1. s \ {p} \in T /\ s \ {y} \in T
                BY <1>1, <3>1, Zenon
            <4>2. SumFunctionOnSet(f, s \ {p}) = f[y] + SumFunctionOnSet(f, (s \ {p}) \ {y})
                BY <3>4, <4>1, Zenon
            <4>3. SumFunctionOnSet(f, s \ {y}) = f[p] + SumFunctionOnSet(f, (s \ {y}) \ {p})
                BY <3>1, <3>4, <4>1, Zenon
            <4>4. (s \ {y}) \ {p} = rest
                BY Zenon
            <4>5. f[p] \in Int /\ f[y] \in Int /\ SumFunctionOnSet(f, rest) \in Int
                BY <3>1, SumInt, Zenon
            <4> HIDE DEF rest
            <4>6. SumFunctionOnSet(f, s \ {p}) = f[y] + SumFunctionOnSet(f, rest)
                BY <4>2, Zenon DEF rest
            <4>7. SumFunctionOnSet(f, s \ {y}) = f[p] + SumFunctionOnSet(f, rest)
                BY <4>3, <4>4, Zenon
            <4> QED BY <3>2, <4>5, <4>6, <4>7
        <3> QED BY <3>3, <3>4, Zenon
    <2> QED BY <2>1, Zenon
<1>2. SUBSET S \subseteq T
    <2> HIDE DEF T
    <2> QED BY <1>1, SmallerSubsets, Zenon
<1> QED BY <1>2, Zenon

\* A new element adds its value.
LEMMA SumAdd ==
    ASSUME NEW f, NEW S, IsFiniteSet(S), \A y \in S : f[y] \in Int,
           NEW x, x \notin S, f[x] \in Int
    PROVE  SumFunctionOnSet(f, S \cup {x}) = SumFunctionOnSet(f, S) + f[x]
<1>1. IsFiniteSet(S \cup {x}) /\ (S \cup {x}) \ {x} = S
    BY FS_AddElement, Zenon
<1>2. \A y \in S \cup {x} : f[y] \in Int
    BY Zenon
<1>3. SumFunctionOnSet(f, S \cup {x}) = f[x] + SumFunctionOnSet(f, (S \cup {x}) \ {x})
    BY <1>1, <1>2, SumRemove
<1>4. SumFunctionOnSet(f, S) \in Int
    BY SumInt, Zenon
<1>5. SumFunctionOnSet(f, (S \cup {x}) \ {x}) = SumFunctionOnSet(f, S)
    BY <1>1, Zenon
<1> QED BY <1>3, <1>4, <1>5

\* Only the values on the set count.
LEMMA SumSame ==
    ASSUME NEW f, NEW g, NEW S, IsFiniteSet(S), \A x \in S : f[x] = g[x]
    PROVE  SumFunctionOnSet(f, S) = SumFunctionOnSet(g, S)
<1> DEFINE T == {s \in SUBSET S : SumFunctionOnSet(f, s) = SumFunctionOnSet(g, s)}
<1>1. ASSUME NEW s \in SUBSET S, \A r \in SUBSET s : r # s => r \in T
      PROVE  s \in T
    <2>1. CASE s = {}
        BY <2>1, SumEmpty, Zenon
    <2>2. CASE s # {}
        <3>1. AnyOf(s) \in s /\ IsFiniteSet(s)
            BY <2>2, AnyOfElement, FS_Subset, Zenon
        <3>2. s \ {AnyOf(s)} \in T
            BY <1>1, <3>1, Zenon
        <3>3. f[AnyOf(s)] = g[AnyOf(s)]
            BY <3>1, Zenon
        <3>4. SumFunctionOnSet(f, s) = f[AnyOf(s)] + SumFunctionOnSet(f, s \ {AnyOf(s)})
            BY <2>2, <3>1, SumPick, Zenon
        <3>5. SumFunctionOnSet(g, s) = g[AnyOf(s)] + SumFunctionOnSet(g, s \ {AnyOf(s)})
            BY <2>2, <3>1, SumPick, Zenon
        <3> QED BY <3>2, <3>3, <3>4, <3>5, Zenon
    <2> QED BY <2>1, <2>2, Zenon
<1>2. SUBSET S \subseteq T
    <2> HIDE DEF T
    <2> QED BY <1>1, SmallerSubsets, Zenon
<1> QED BY <1>2, Zenon

\* A sum of zeros.
LEMMA SumZero ==
    ASSUME NEW f, NEW S, IsFiniteSet(S), \A x \in S : f[x] = 0
    PROVE  SumFunctionOnSet(f, S) = 0
<1> DEFINE T == {s \in SUBSET S : SumFunctionOnSet(f, s) = 0}
<1>1. ASSUME NEW s \in SUBSET S, \A r \in SUBSET s : r # s => r \in T
      PROVE  s \in T
    <2>1. CASE s = {}
        BY <2>1, SumEmpty, Zenon
    <2>2. CASE s # {}
        <3>1. AnyOf(s) \in s /\ IsFiniteSet(s)
            BY <2>2, AnyOfElement, FS_Subset, Zenon
        <3>2. s \ {AnyOf(s)} \in T
            BY <1>1, <3>1, Zenon
        <3>3. f[AnyOf(s)] = 0
            BY <3>1, Zenon
        <3>4. f[AnyOf(s)] + SumFunctionOnSet(f, s \ {AnyOf(s)}) = 0
            BY <3>2, <3>3
        <3> QED BY <2>2, <3>1, <3>4, SumPick, Zenon
    <2> QED BY <2>1, <2>2, Zenon
<1>2. SUBSET S \subseteq T
    <2> HIDE DEF T
    <2> QED BY <1>1, SmallerSubsets, Zenon
<1> QED BY <1>2, Zenon

\* Changing one value changes the sum by the difference.
LEMMA SumUpdate ==
    ASSUME NEW f, NEW g, NEW S, IsFiniteSet(S), NEW x \in S,
           \A y \in S : f[y] \in Int, g[x] \in Int, \A y \in S \ {x} : g[y] = f[y]
    PROVE  SumFunctionOnSet(g, S) = SumFunctionOnSet(f, S) - f[x] + g[x]
<1>1. \A y \in S : g[y] \in Int
    BY Zenon
<1>2. IsFiniteSet(S \ {x})
    BY FS_RemoveElement, Zenon
<1>3. SumFunctionOnSet(g, S \ {x}) = SumFunctionOnSet(f, S \ {x})
    BY <1>2, SumSame, Zenon
<1>4. SumFunctionOnSet(f, S \ {x}) \in Int
    BY <1>2, SumInt, Zenon
<1>5. SumFunctionOnSet(f, S) = f[x] + SumFunctionOnSet(f, S \ {x})
    BY SumRemove
<1>6. SumFunctionOnSet(g, S) = g[x] + SumFunctionOnSet(g, S \ {x})
    BY <1>1, SumRemove
<1>7. f[x] \in Int
    BY Zenon
<1> QED BY <1>3, <1>4, <1>5, <1>6, <1>7

\* The sum over a union of disjoint sets.
LEMMA SumUnion ==
    ASSUME NEW f, NEW S, NEW R, IsFiniteSet(S), IsFiniteSet(R), S \cap R = {},
           \A x \in S \cup R : f[x] \in Int
    PROVE  SumFunctionOnSet(f, S \cup R) = SumFunctionOnSet(f, S) + SumFunctionOnSet(f, R)
<1> DEFINE T == {r \in SUBSET R : SumFunctionOnSet(f, S \cup r)
                                    = SumFunctionOnSet(f, S) + SumFunctionOnSet(f, r)}
<1>0. SumFunctionOnSet(f, S) \in Int
    BY SumInt, Zenon
<1>1. ASSUME NEW r \in SUBSET R, \A q \in SUBSET r : q # r => q \in T
      PROVE  r \in T
    <2>1. CASE r = {}
        <3>1. S \cup r = S
            BY <2>1, Zenon
        <3> QED BY <1>0, <2>1, <3>1, SumEmpty
    <2>2. CASE r # {}
        <3>1. PICK x \in r : TRUE
            BY <2>2, Zenon
        <3>2. IsFiniteSet(r) /\ IsFiniteSet(r \ {x})
            BY FS_Subset, FS_RemoveElement, Zenon
        <3>3. IsFiniteSet(S \cup r) /\ (S \cup r) \ {x} = S \cup (r \ {x})
            BY <3>2, FS_Union, Zenon
        <3>4. r \ {x} \in T
            BY <1>1, Zenon
        <3>5. SumFunctionOnSet(f, S \cup r) = f[x] + SumFunctionOnSet(f, S \cup (r \ {x}))
            BY <3>3, SumRemove
        <3>6. SumFunctionOnSet(f, r) = f[x] + SumFunctionOnSet(f, r \ {x})
            BY <3>2, SumRemove
        <3>7. f[x] \in Int /\ SumFunctionOnSet(f, r \ {x}) \in Int
            BY <3>2, SumInt, Zenon
        <3>8. SumFunctionOnSet(f, S \cup (r \ {x}))
                = SumFunctionOnSet(f, S) + SumFunctionOnSet(f, r \ {x})
            BY <3>4, Zenon
        <3> QED BY <1>0, <3>5, <3>6, <3>7, <3>8
    <2> QED BY <2>1, <2>2, Zenon
<1>2. SUBSET R \subseteq T
    <2> HIDE DEF T
    <2> QED BY <1>1, SmallerSubsets
<1> QED BY <1>2, Zenon

\* A part of a sum of natural numbers is at most the whole.
LEMMA SumMonotone ==
    ASSUME NEW f, NEW S, IsFiniteSet(S), \A x \in S : f[x] \in Nat, NEW R \in SUBSET S
    PROVE  SumFunctionOnSet(f, R) <= SumFunctionOnSet(f, S)
<1>1. IsFiniteSet(R) /\ IsFiniteSet(S \ R) /\ R \cup (S \ R) = S /\ R \cap (S \ R) = {}
    BY FS_Subset, Zenon
<1>2. SumFunctionOnSet(f, R \cup (S \ R))
        = SumFunctionOnSet(f, R) + SumFunctionOnSet(f, S \ R)
    BY <1>1, SumUnion
<1>3. SumFunctionOnSet(f, R) \in Nat /\ SumFunctionOnSet(f, S \ R) \in Nat
    BY <1>1, SumNat, Zenon
<1>4. SumFunctionOnSet(f, R \cup (S \ R)) = SumFunctionOnSet(f, S)
    BY <1>1, Zenon
<1> QED BY <1>2, <1>3, <1>4

\* A comparison that holds of every term, up to a constant, holds of the sums, up to the
\* constant times the number of terms.
LEMMA SumCompare ==
    ASSUME NEW f, NEW g, NEW S, IsFiniteSet(S), NEW a \in Int, NEW b \in Int, NEW c \in Int,
           \A x \in S : f[x] \in Int /\ g[x] \in Int /\ a * f[x] <= b * g[x] + c
    PROVE  a * SumFunctionOnSet(f, S) <= b * SumFunctionOnSet(g, S) + c * Cardinality(S)
<1> DEFINE T == {s \in SUBSET S : a * SumFunctionOnSet(f, s)
                                    <= b * SumFunctionOnSet(g, s) + c * Cardinality(s)}
<1>1. ASSUME NEW s \in SUBSET S, \A r \in SUBSET s : r # s => r \in T
      PROVE  s \in T
    <2>0. IsFiniteSet(s) /\ \A x \in s : f[x] \in Int /\ g[x] \in Int
        BY FS_Subset, Zenon
    <2>1. CASE s = {}
        <3>1. SumFunctionOnSet(f, s) = 0 /\ SumFunctionOnSet(g, s) = 0 /\ Cardinality(s) = 0
            BY <2>1, SumEmpty, FS_EmptySet, Zenon
        <3> QED BY <3>1
    <2>2. CASE s # {}
        <3>1. PICK x \in s : TRUE
            BY <2>2, Zenon
        <3> DEFINE r == s \ {x}
        <3>2. r \in T /\ r # s
            BY <1>1, <3>1, Zenon
        <3>3. IsFiniteSet(r) /\ \A y \in r : f[y] \in Int /\ g[y] \in Int
            BY <2>0, FS_Subset, Zenon
        <3>4. Cardinality(r) \in Nat /\ Cardinality(s) = Cardinality(r) + 1
            <4>1. Cardinality(s) \in Nat /\ Cardinality(r) \in Nat
                BY <2>0, <3>3, FS_CardinalityType, Zenon
            <4>2. Cardinality(r) = Cardinality(s) - 1
                BY <2>0, <3>1, FS_RemoveElement, Zenon
            <4> QED BY <4>1, <4>2
        <3>5. /\ SumFunctionOnSet(f, s) = f[x] + SumFunctionOnSet(f, r)
              /\ SumFunctionOnSet(g, s) = g[x] + SumFunctionOnSet(g, r)
            BY <2>0, <3>1, SumRemove
        <3>6. SumFunctionOnSet(f, r) \in Int /\ SumFunctionOnSet(g, r) \in Int
            BY <3>3, SumInt, Zenon
        <3>7. /\ f[x] \in Int /\ g[x] \in Int /\ a * f[x] <= b * g[x] + c
              /\ a * SumFunctionOnSet(f, r) <= b * SumFunctionOnSet(g, r) + c * Cardinality(r)
            BY <3>1, <3>2, Zenon
        <3> DEFINE F == SumFunctionOnSet(f, r)
                   G == SumFunctionOnSet(g, r)
                   n == Cardinality(r)
                   u == f[x]
                   w == g[x]
        <3> HIDE DEF F, G, n, u, w, r
        <3>8. /\ F \in Int /\ G \in Int /\ n \in Int /\ u \in Int /\ w \in Int
              /\ a * u <= b * w + c /\ a * F <= b * G + c * n
            BY <3>4, <3>6, <3>7 DEF F, G, n, u, w
        <3>9. /\ a * (u + F) = a * u + a * F /\ b * (w + G) = b * w + b * G
              /\ c * (n + 1) = c * n + c
              /\ a * u \in Int /\ a * F \in Int /\ b * w \in Int /\ b * G \in Int /\ c * n \in Int
            BY <3>8
        <3>10. a * (u + F) <= b * (w + G) + c * (n + 1)
            <4> HIDE <3>9
            <4>1. \A p, q, i, j, k \in Int : p <= i + c /\ q <= j + k => p + q <= i + j + (k + c)
                OBVIOUS
            <4> QED BY <3>8, <3>9, <4>1
        <3> QED BY <3>4, <3>5, <3>10, Zenon DEF F, G, n, u, w
    <2> QED BY <2>1, <2>2, Zenon
<1>2. SUBSET S \subseteq T
    <2> HIDE DEF T
    <2> QED BY <1>1, SmallerSubsets, Zenon
<1> QED BY <1>2, Zenon
=============================================================================

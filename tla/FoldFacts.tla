----------------------------- MODULE FoldFacts -----------------------------
(***************************************************************************)
(* Facts about numbers and the folds of the community modules that the     *)
(* proofs about the model use.  SumFunctionOnSet and FoldLeft are          *)
(* recursive functions on the subsets of a finite set, so a value is known *)
(* once a function is found that satisfies the recursion; that one exists  *)
(* and that there is no other is shown by induction over the cardinality.  *)
(*                                                                         *)
(* A step of a fold is a curried function, step[i][v], as a lemma cannot   *)
(* be cited for an operator.                                               *)
(***************************************************************************)
EXTENDS Integers, FiniteSetsExt, FiniteSetTheorems, WellFoundedInduction, TLAPS

\* A non-empty set of natural numbers has a least element.
LEMMA LeastElement ==
  ASSUME NEW T \in SUBSET Nat, T # {}
  PROVE  \E n \in T : \A m \in T : n <= m
<1>1. PICK x \in T : \A y \in T : ~ (<<y, x>> \in OpToRel(<, Nat))
  BY NatLessThanWellFounded, WFMin, Zenon
<1>2. \A y \in T : ~ (y < x)
  BY <1>1 DEF OpToRel
<1> QED
  BY <1>2

\* Induction, for the set of the numbers that have a property.
LEMMA NatSetInduction ==
  ASSUME NEW T \in SUBSET Nat, 0 \in T, \A n \in T : n + 1 \in T
  PROVE  T = Nat
<1> SUFFICES ASSUME Nat \ T # {} PROVE FALSE
  OBVIOUS
<1>1. PICK n \in Nat \ T : \A m \in Nat \ T : n <= m
  BY LeastElement
<1>2. n # 0
  BY <1>1
<1>3. n - 1 \in Nat /\ n - 1 \in T
  BY <1>1, <1>2
<1> QED
  BY <1>1, <1>3

\* The maximum of a set of numbers up to n, and of an interval.
LEMMA MaxInterval ==
  ASSUME NEW n \in Nat
  PROVE  /\ \A s \in SUBSET (1..n) : s # {} => Max(s) \in s /\ \A m \in s : m <= Max(s)
         /\ n > 0 => Max(1..n) = n
<1>1. ASSUME NEW s \in SUBSET (1..n), s # {}
      PROVE  Max(s) \in s /\ \A m \in s : m <= Max(s)
  <2> DEFINE T == {n - m : m \in s}
  <2>0. \A m \in s : n - m \in Nat
    BY SMT
  <2>1. T \in SUBSET Nat /\ T # {}
    BY <1>1, <2>0
  <2>2. PICK t \in T : \A u \in T : t <= u
    BY <2>1, LeastElement
  <2>3. PICK x \in s : t = n - x
    OBVIOUS
  <2>4. \A m \in s : x >= m
    BY <2>2, <2>3
  <2> QED
    BY <2>4 DEF Max
<1>2. ASSUME n > 0 PROVE Max(1..n) = n
  BY <1>2 DEF Max
<1> QED
  BY <1>1, <1>2

\* An upper bound of a set of integers that is a member is its maximum.
LEMMA MaxIs ==
  ASSUME NEW T, T \subseteq Int, NEW m \in T, \A y \in T : m >= y
  PROVE  Max(T) = m
<1>1. \A x \in T : (\A y \in T : x >= y) => x = m
  <2>1. ASSUME NEW x \in T, \A y \in T : x >= y PROVE x = m
    <3>1. x >= m /\ m >= x /\ x \in Int /\ m \in Int
      BY <2>1
    <3> QED
      BY <3>1
  <2> QED
    BY <2>1
<1>2. Max(T) = CHOOSE x \in T : \A y \in T : x >= y
  BY DEF Max
<1> QED
  BY <1>1, <1>2

\* The minimum of a set of numbers is one of them.
LEMMA MinMember ==
  ASSUME NEW T \in SUBSET Nat, T # {}
  PROVE  Min(T) \in T
<1>1. PICK n \in T : \A m \in T : n <= m
  BY LeastElement
<1> QED
  BY <1>1 DEF Min

-----------------------------------------------------------------------------
(* Recursion over the subsets of a finite set that takes one element away.   *)

\* pick chooses the element to take away from a non-empty subset of D.
Picks(pick, D) == \A s \in SUBSET D : s # {} => pick[s] \in s

\* fold solves the recursion: step combines the element with what is left.
SolvesFold(fold, D, V, base, pick, step) ==
  /\ fold \in [SUBSET D -> V]
  /\ fold[{}] = base
  /\ \A s \in SUBSET D : s # {} => fold[s] = step[pick[s]][fold[s \ {pick[s]}]]

\* f and g are equal at a subset if they are at the subset without the element.
AgreeInductively(f, g, D, pick) ==
  /\ f[{}] = g[{}]
  /\ \A s \in SUBSET D : s # {} /\ f[s \ {pick[s]}] = g[s \ {pick[s]}] => f[s] = g[s]

\* Such a recursion has a solution.
LEMMA SetRecursion ==
  ASSUME NEW D, IsFiniteSet(D), NEW V, NEW base \in V,
         NEW pick, Picks(pick, D), NEW step \in [D -> [V -> V]]
  PROVE  \E fold : SolvesFold(fold, D, V, base, pick, step)
<1> USE DEF Picks
<1> DEFINE Solves(fold, n) ==
             /\ fold[{}] = base
             /\ \A s \in SUBSET D : s # {} /\ Cardinality(s) <= n =>
                  fold[s] = step[pick[s]][fold[s \ {pick[s]}]]
           T == {n \in Nat : \E fold \in [SUBSET D -> V] : Solves(fold, n)}
<1>c. \A s \in SUBSET D : /\ Cardinality(s) \in Nat /\ Cardinality(s) <= Cardinality(D)
                          /\ s # {} => /\ Cardinality(s) # 0
                                       /\ Cardinality(s \ {pick[s]}) = Cardinality(s) - 1
  BY FS_Subset, FS_CardinalityType, FS_EmptySet, FS_RemoveElement
<1>1. 0 \in T
  <2> DEFINE f == [s \in SUBSET D |-> base]
  <2>1. f \in [SUBSET D -> V] /\ f[{}] = base
    OBVIOUS
  <2> HIDE DEF f
  <2>2. ASSUME NEW s \in SUBSET D, s # {}, Cardinality(s) <= 0 PROVE FALSE
    <3>1. Cardinality(s) \in Nat /\ Cardinality(s) # 0
      BY <1>c, <2>2
    <3> QED
      BY <2>2, <3>1
  <2>3. Solves(f, 0)
    BY <2>1, <2>2
  <2> HIDE DEF Solves
  <2> QED
    BY <2>1, <2>3
<1>2. ASSUME NEW n \in T PROVE n + 1 \in T
  <2>1. PICK f \in [SUBSET D -> V] : Solves(f, n)
    OBVIOUS
  <2> DEFINE g == [s \in SUBSET D |->
                     IF s = {} THEN base ELSE step[pick[s]][f[s \ {pick[s]}]]]
  <2>2. g \in [SUBSET D -> V]
    OBVIOUS
  <2>3. ASSUME NEW s \in SUBSET D, s # {}, Cardinality(s) <= n + 1
        PROVE  g[s] = step[pick[s]][g[s \ {pick[s]}]]
    <3> DEFINE r == s \ {pick[s]}
    <3>1. r \in SUBSET D /\ Cardinality(r) <= n
      BY <1>c, <2>3
    <3>2. g[r] = f[r]
      BY <2>1, <3>1
    <3> QED
      BY <2>3, <3>2
  <2>4. g[{}] = base
    OBVIOUS
  <2> HIDE DEF g
  <2>5. Solves(g, n + 1)
    BY <2>3, <2>4
  <2>6. n + 1 \in Nat
    OBVIOUS
  <2> HIDE DEF Solves
  <2> QED
    BY <2>2, <2>5, <2>6
<1>3. T = Nat
  <2> HIDE DEF T
  <2>1. T \in SUBSET Nat
    BY DEF T
  <2> QED
    BY <1>1, <1>2, <2>1, NatSetInduction
<1>4. PICK f \in [SUBSET D -> V] : Solves(f, Cardinality(D))
  BY <1>3, FS_CardinalityType
<1>5. \A s \in SUBSET D : Cardinality(s) <= Cardinality(D)
  BY <1>c
<1> QED
  BY <1>4, <1>5 DEF SolvesFold

\* Two solutions of such a recursion are the same.
LEMMA SetRecursionUnique ==
  ASSUME NEW D, IsFiniteSet(D), NEW pick, Picks(pick, D),
         NEW f, NEW g, AgreeInductively(f, g, D, pick)
  PROVE  \A s \in SUBSET D : f[s] = g[s]
<1> USE DEF Picks, AgreeInductively
<1> DEFINE T == {n \in Nat : \A s \in SUBSET D : Cardinality(s) <= n => f[s] = g[s]}
<1>c. \A s \in SUBSET D : /\ Cardinality(s) \in Nat /\ (Cardinality(s) = 0 <=> s = {})
                          /\ s # {} => Cardinality(s \ {pick[s]}) = Cardinality(s) - 1
  BY FS_Subset, FS_CardinalityType, FS_EmptySet, FS_RemoveElement
<1>1. 0 \in T
  <2> SUFFICES ASSUME NEW s \in SUBSET D, Cardinality(s) <= 0 PROVE f[s] = g[s]
    OBVIOUS
  <2>1. Cardinality(s) \in Nat /\ (Cardinality(s) = 0 => s = {})
    BY <1>c
  <2>2. s = {}
    BY <2>1
  <2> QED
    BY <2>2
<1>2. ASSUME NEW n \in T PROVE n + 1 \in T
  <2> SUFFICES ASSUME NEW s \in SUBSET D, Cardinality(s) <= n + 1 PROVE f[s] = g[s]
    OBVIOUS
  <2>1. CASE s = {}
    BY <2>1
  <2>2. CASE s # {}
    <3>1. s \ {pick[s]} \in SUBSET D /\ Cardinality(s \ {pick[s]}) <= n
      BY <1>c, <2>2
    <3> QED
      BY <2>2, <3>1
  <2> QED
    BY <2>1, <2>2
<1>3. T = Nat
  <2> HIDE DEF T
  <2>1. T \in SUBSET Nat
    BY DEF T
  <2> QED
    BY <1>1, <1>2, <2>1, NatSetInduction
<1> SUFFICES ASSUME NEW s \in SUBSET D PROVE f[s] = g[s]
  OBVIOUS
<1>4. Cardinality(s) \in Nat
  BY <1>c
<1>5. Cardinality(s) \in T
  BY <1>3, <1>4
<1> QED
  BY <1>4, <1>5

-----------------------------------------------------------------------------
(* SumFunctionOnSet, whose order of summation is not specified.               *)

\* f has numbers on D.
NatValued(f, D) == \A x \in D : f[x] \in Nat

\* The element SumFunctionOnSet takes away.
ChoicePick(D) == [s \in SUBSET D |-> CHOOSE x \in s : TRUE]

\* The sums over the subsets of D, by the recursion of SumFunctionOnSet.
IsSum(sum, f, D) ==
  /\ sum \in [SUBSET D -> Nat]
  /\ sum[{}] = 0
  /\ \A s \in SUBSET D : s # {} =>
       sum[s] = f[CHOOSE x \in s : TRUE] + sum[s \ {CHOOSE x \in s : TRUE}]

\* There is such a function.
LEMMA SumExists ==
  ASSUME NEW D, IsFiniteSet(D), NEW f, NatValued(f, D)
  PROVE  \E sum : IsSum(sum, f, D)
<1> DEFINE step == [x \in D |-> [v \in Nat |-> f[x] + v]]
           pick == ChoicePick(D)
<1>1. Picks(pick, D)
  BY DEF Picks, ChoicePick
<1>2. step \in [D -> [Nat -> Nat]]
  BY DEF NatValued
<1>3. PICK sum : SolvesFold(sum, D, Nat, 0, pick, step)
  <2> HIDE DEF step, pick
  <2> QED
    BY <1>1, <1>2, SetRecursion, Zenon
<1>4. sum \in [SUBSET D -> Nat] /\ sum[{}] = 0
  BY <1>3 DEF SolvesFold
<1>5. ASSUME NEW s \in SUBSET D, s # {}
      PROVE  sum[s] = f[CHOOSE x \in s : TRUE] + sum[s \ {CHOOSE x \in s : TRUE}]
  <2> DEFINE x == CHOOSE y \in s : TRUE
  <2>1. x \in D /\ x = pick[s]
    BY <1>5 DEF ChoicePick
  <2> HIDE DEF x
  <2>2. sum[s] = step[x][sum[s \ {x}]]
    BY <1>3, <1>5, <2>1 DEF SolvesFold
  <2>3. sum[s \ {x}] \in Nat
    BY <1>4
  <2>4. sum[s] = f[x] + sum[s \ {x}]
    BY <2>1, <2>2, <2>3
  <2> QED
    BY <2>4 DEF x
<1>6. IsSum(sum, f, D)
  BY <1>4, <1>5 DEF IsSum
<1> QED
  BY <1>6

\* What SumFunctionOnSet computes for a subset of D.
LEMMA SumIs ==
  ASSUME NEW D, IsFiniteSet(D), NEW f, NEW sum, IsSum(sum, f, D), NEW S \in SUBSET D
  PROVE  SumFunctionOnSet(f, S) = sum[S]
<1> DEFINE It(iter) == [s \in SUBSET S |-> IF s = {} THEN 0 ELSE
                          f[CHOOSE x \in s : TRUE] + iter[s \ {CHOOSE x \in s : TRUE}]]
           it == CHOOSE iter : iter = It(iter)
           part == [s \in SUBSET S |-> sum[s]]
<1>1. part = It(part)
  <2>1. part[{}] = 0
    BY DEF IsSum
  <2>2. ASSUME NEW s \in SUBSET S, s # {}
        PROVE  part[s] = f[CHOOSE x \in s : TRUE] + part[s \ {CHOOSE x \in s : TRUE}]
    BY <2>2 DEF IsSum
  <2> QED
    BY <2>1, <2>2
<1>2. it = It(it)
  BY <1>1, Zenon
<1>3. SumFunctionOnSet(f, S) = it[S]
  BY DEF SumFunctionOnSet, FoldFunctionOnSet, MapThenFoldSet
<1> HIDE DEF it
<1>4. IsFiniteSet(S)
  BY FS_Subset
<1>5. Picks(ChoicePick(S), S)
  BY DEF Picks, ChoicePick
<1>6. AgreeInductively(it, part, S, ChoicePick(S))
  <2>1. it[{}] = part[{}]
    BY <1>2, <1>1
  <2>2. ASSUME NEW s \in SUBSET S, s # {},
               it[s \ {CHOOSE x \in s : TRUE}] = part[s \ {CHOOSE x \in s : TRUE}]
        PROVE  it[s] = part[s]
    <3> HIDE DEF part
    <3>1. it[s] = f[CHOOSE x \in s : TRUE] + it[s \ {CHOOSE x \in s : TRUE}]
      BY <1>2, <2>2
    <3>2. part[s] = f[CHOOSE x \in s : TRUE] + part[s \ {CHOOSE x \in s : TRUE}]
      BY <1>1, <2>2
    <3> QED
      BY <2>2, <3>1, <3>2
  <2> HIDE DEF part
  <2> QED
    BY <2>1, <2>2 DEF AgreeInductively, ChoicePick
<1>7. \A s \in SUBSET S : it[s] = part[s]
  <2> DEFINE pick == ChoicePick(S)
  <2> HIDE DEF pick, part
  <2> QED
    BY <1>4, <1>5, <1>6, SetRecursionUnique DEF pick
<1> QED
  BY <1>3, <1>7

\* The order does not matter: any element may be taken away.
LEMMA SumTakeAway ==
  ASSUME NEW D, IsFiniteSet(D), NEW f, NatValued(f, D),
         NEW sum, IsSum(sum, f, D), NEW r \in SUBSET D, NEW e \in r
  PROVE  sum[r] = f[e] + sum[r \ {e}]
<1> DEFINE P(s) == \A x \in s : sum[s] = f[x] + sum[s \ {x}]
           T == {n \in Nat : \A s \in SUBSET D : Cardinality(s) <= n => P(s)}
<1>c. \A s \in SUBSET D : /\ Cardinality(s) \in Nat /\ (Cardinality(s) = 0 <=> s = {})
                          /\ \A x \in s : Cardinality(s \ {x}) = Cardinality(s) - 1
  BY FS_Subset, FS_CardinalityType, FS_EmptySet, FS_RemoveElement
<1>t. \A s \in SUBSET D : sum[s] \in Nat
  BY DEF IsSum
<1>1. 0 \in T
  <2> SUFFICES ASSUME NEW s \in SUBSET D, Cardinality(s) <= 0 PROVE P(s)
    OBVIOUS
  <2>1. Cardinality(s) \in Nat /\ (Cardinality(s) = 0 => s = {})
    BY <1>c
  <2>2. s = {}
    BY <2>1
  <2> QED
    BY <2>2
<1>2. ASSUME NEW n \in T PROVE n + 1 \in T
  <2>1. ASSUME NEW s \in SUBSET D, Cardinality(s) <= n + 1, NEW x \in s
        PROVE  sum[s] = f[x] + sum[s \ {x}]
    <3> DEFINE y == CHOOSE z \in s : TRUE
    <3>1. y \in s /\ sum[s] = f[y] + sum[s \ {y}]
      BY DEF IsSum
    <3> HIDE DEF y
    <3>2. CASE y = x
      BY <3>1, <3>2
    <3>3. CASE y # x
      <4>1. /\ s \ {y} \in SUBSET D /\ Cardinality(s \ {y}) <= n /\ x \in s \ {y}
            /\ s \ {x} \in SUBSET D /\ Cardinality(s \ {x}) <= n /\ y \in s \ {x}
        BY <1>c, <2>1, <3>1, <3>3
      <4>2. sum[s \ {y}] = f[x] + sum[(s \ {y}) \ {x}]
        BY <4>1
      <4>3. sum[s \ {x}] = f[y] + sum[(s \ {x}) \ {y}]
        BY <4>1
      <4>4. (s \ {y}) \ {x} = (s \ {x}) \ {y}
        OBVIOUS
      <4>5. f[x] \in Nat /\ f[y] \in Nat /\ sum[(s \ {x}) \ {y}] \in Nat
        BY <1>t, <3>1 DEF NatValued
      <4>6. sum[s] = f[y] + (f[x] + sum[(s \ {x}) \ {y}])
        BY <3>1, <4>2, <4>4
      <4>7. f[y] + (f[x] + sum[(s \ {x}) \ {y}]) = f[x] + (f[y] + sum[(s \ {x}) \ {y}])
        BY <4>5
      <4> QED
        BY <4>3, <4>6, <4>7
    <3> QED
      BY <3>2, <3>3
  <2> QED
    BY <2>1
<1>3. T = Nat
  <2> HIDE DEF T
  <2>1. T \in SUBSET Nat
    BY DEF T
  <2> QED
    BY <1>1, <1>2, <2>1, NatSetInduction
<1>4. Cardinality(r) \in Nat
  BY <1>c
<1>5. Cardinality(r) \in T
  BY <1>3, <1>4
<1>6. P(r)
  BY <1>4, <1>5
<1> QED
  BY <1>6

\* A sum of numbers is a number, of nothing 0, and takes each element once.
LEMMA SumTakesEach ==
  ASSUME NEW D, IsFiniteSet(D), NEW f, NatValued(f, D)
  PROVE  /\ SumFunctionOnSet(f, D) \in Nat
         /\ SumFunctionOnSet(f, {}) = 0
         /\ \A x \in D : SumFunctionOnSet(f, D) = f[x] + SumFunctionOnSet(f, D \ {x})
<1>1. PICK sum : IsSum(sum, f, D)
  BY SumExists
<1>2. \A S \in SUBSET D : SumFunctionOnSet(f, S) = sum[S]
  BY <1>1, SumIs
<1>3. \A x \in D : sum[D] = f[x] + sum[D \ {x}]
  BY <1>1, SumTakeAway
<1>4. sum[D] \in Nat /\ sum[{}] = 0
  BY <1>1 DEF IsSum
<1> QED
  BY <1>2, <1>3, <1>4

\* Functions that agree on D have the same sum over it.
LEMMA SumSame ==
  ASSUME NEW D, IsFiniteSet(D), NEW f, NEW g, NatValued(f, D), \A x \in D : f[x] = g[x]
  PROVE  SumFunctionOnSet(f, D) = SumFunctionOnSet(g, D)
<1>1. PICK sum : IsSum(sum, f, D)
  BY SumExists
<1>2. IsSum(sum, g, D)
  <2>1. ASSUME NEW s \in SUBSET D, s # {}
        PROVE  sum[s] = g[CHOOSE x \in s : TRUE] + sum[s \ {CHOOSE x \in s : TRUE}]
    <3>1. (CHOOSE x \in s : TRUE) \in D
      BY <2>1
    <3>2. sum[s] = f[CHOOSE x \in s : TRUE] + sum[s \ {CHOOSE x \in s : TRUE}]
      BY <1>1, <2>1 DEF IsSum
    <3> QED
      BY <3>1, <3>2
  <2> QED
    BY <1>1, <2>1 DEF IsSum
<1> QED
  BY <1>1, <1>2, SumIs

\* Elements that count for nothing can be left out.
LEMMA SumZeros ==
  ASSUME NEW D, IsFiniteSet(D), NEW f, NatValued(f, D),
         NEW S \in SUBSET D, \A x \in D \ S : f[x] = 0
  PROVE  SumFunctionOnSet(f, D) = SumFunctionOnSet(f, S)
<1>1. PICK sum : IsSum(sum, f, D)
  BY SumExists
<1> DEFINE part == [s \in SUBSET D |-> sum[s \cap S]]
           pick == ChoicePick(D)
<1>2. Picks(pick, D)
  BY DEF Picks, ChoicePick
<1>3. ASSUME NEW s \in SUBSET D, NEW x \in s PROVE sum[s] = f[x] + sum[s \ {x}]
  BY <1>1, SumTakeAway, Z3
<1>t. \A s \in SUBSET D : sum[s] \in Nat
  BY <1>1 DEF IsSum
<1>4. ASSUME NEW s \in SUBSET D, NEW x \in s, sum[s \ {x}] = sum[(s \ {x}) \cap S]
      PROVE  sum[s] = sum[s \cap S]
  <2>1. sum[s] = f[x] + sum[s \ {x}]
    BY <1>3
  <2>2. CASE x \in S
    <3>1. s \cap S \in SUBSET D /\ x \in s \cap S /\ (s \ {x}) \cap S = (s \cap S) \ {x}
      BY <2>2
    <3>2. sum[s \cap S] = f[x] + sum[(s \cap S) \ {x}]
      BY <1>3, <3>1
    <3> QED
      BY <1>4, <2>1, <3>1, <3>2
  <2>3. CASE x \notin S
    <3>1. (s \ {x}) \cap S = s \cap S /\ f[x] = 0 /\ sum[s \ {x}] \in Nat
      BY <1>t, <2>3
    <3>2. sum[s] = sum[s \ {x}]
      BY <2>1, <3>1
    <3> QED
      BY <1>4, <3>1, <3>2
  <2> QED
    BY <2>2, <2>3
<1>5. AgreeInductively(sum, part, D, pick)
  <2>1. sum[{}] = part[{}]
    OBVIOUS
  <2>2. ASSUME NEW s \in SUBSET D, s # {}, sum[s \ {pick[s]}] = part[s \ {pick[s]}]
        PROVE  sum[s] = part[s]
    <3>1. pick[s] \in s /\ s \ {pick[s]} \in SUBSET D
      BY <1>2, <2>2 DEF Picks
    <3> HIDE DEF pick
    <3>2. sum[s \ {pick[s]}] = sum[(s \ {pick[s]}) \cap S]
      BY <2>2, <3>1
    <3> QED
      BY <1>4, <3>1, <3>2
  <2> QED
    BY <2>1, <2>2 DEF AgreeInductively
<1>6. \A s \in SUBSET D : sum[s] = part[s]
  <2> HIDE DEF part, pick
  <2> QED
    BY <1>2, <1>5, SetRecursionUnique
<1>7. sum[D] = sum[S]
  <2>1. D \cap S = S
    OBVIOUS
  <2> QED
    BY <1>6, <2>1
<1> QED
  BY <1>1, <1>7, SumIs
=============================================================================

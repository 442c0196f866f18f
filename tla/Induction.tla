------------------------------ MODULE Induction ------------------------------
(***************************************************************************)
(* Induction, over the naturals and over the subsets of a finite set, with *)
(* the set of the values a fact holds of in place of the fact; and what it *)
(* gives: sums over finite sets, which the recursion of the folds of the   *)
(* community modules computes whatever element it takes first.             *)
(***************************************************************************)
EXTENDS Integers, FiniteSetsExt, FiniteSetTheorems, WellFoundedInduction, TLAPS

\* Every set of naturals that is not empty has a least element.
LEMMA LeastExists ==
  ASSUME NEW T \in SUBSET Nat, T # {}
  PROVE  \E x \in T : \A y \in T : x <= y
<1> DEFINE Below(x) == {y \in T : y < x}
           F == {Below(x) : x \in T}
<1>1. \A x \in T : x \in Nat /\ Below(x) \in F
  OBVIOUS
<1>2. \A x : Below(x) \subseteq T /\ \A s : s \in Below(x) <=> s \in T /\ s < x
  OBVIOUS
<1>3. F \subseteq FiniteSubsetsOf(Nat)
  <2> SUFFICES ASSUME NEW x \in T PROVE IsFiniteSet(Below(x)) /\ Below(x) \subseteq Nat
    BY DEF FiniteSubsetsOf
  <2> HIDE DEF Below
  <2>1. Below(x) \in SUBSET Nat
    BY <1>2
  <2>2. ASSUME NEW s \in Below(x) PROVE s <= x
    <3>1. s \in Nat /\ s < x /\ x \in Nat
      BY <1>2, <2>1
    <3> QED
      BY <3>1
  <2> QED
    BY <2>1, <2>2, FS_BoundedSetOfNaturals
<1>4. F # {}
  OBVIOUS
<1>5. \E m \in F : \A n \in F : <<n, m>> \notin StrictSubsetOrdering(Nat)
  <2> HIDE DEF F
  <2> QED
    BY <1>3, <1>4, FS_StrictSubsetOrderingWellFounded, WFMin
<1>6. PICK x \in T : \A n \in F : <<n, Below(x)>> \notin StrictSubsetOrdering(Nat)
  BY <1>5
<1>7. ASSUME NEW y \in T, y < x PROVE FALSE
  <2> HIDE DEF Below, F
  <2>1. x \in Nat /\ y \in Nat
    BY <1>1
  <2>2. y \in Below(x)
    BY <1>2, <1>7
  <2>3. y \notin Below(y)
    <3>1. ~(y < y)
      BY <2>1
    <3> QED
      BY <3>1, <1>2
  <2>4. ASSUME NEW s \in Below(y) PROVE s \in Below(x)
    <3>1. s \in T /\ s < y /\ s \in Nat
      BY <1>2
    <3>2. s < x
      BY <3>1, <2>1, <1>7
    <3> QED
      BY <3>1, <3>2, <1>2
  <2>5. <<Below(y), Below(x)>> \notin StrictSubsetOrdering(Nat)
    BY <1>1, <1>6
  <2>6. /\ Below(y) \in SUBSET Nat /\ Below(x) \in SUBSET Nat
        /\ Below(y) # Below(x) /\ Below(y) \subseteq Below(x)
    BY <1>2, <2>2, <2>3, <2>4
  <2> QED
    BY <2>5, <2>6 DEF StrictSubsetOrdering
<1>8. \A y \in T : x <= y
  BY <1>1, <1>7
<1> QED
  BY <1>8

\* Every bounded set of naturals that is not empty has a greatest element.
LEMMA GreatestExists ==
  ASSUME NEW n \in Nat, NEW T \in SUBSET (0 .. n), T # {}
  PROVE  \E x \in T : \A y \in T : y <= x
<1> DEFINE Gap == {k \in 0 .. n : n - k \in T}
<1>1. Gap \in SUBSET Nat /\ Gap # {}
  <2>1. PICK y \in T : TRUE
    OBVIOUS
  <2>2. n - y \in 0 .. n /\ n - (n - y) = y
    OBVIOUS
  <2>3. n - y \in Gap
    BY <2>1, <2>2
  <2>4. Gap \subseteq 0 .. n
    OBVIOUS
  <2> HIDE DEF Gap
  <2> QED
    BY <2>3, <2>4
<1>2. PICK k \in Gap : \A j \in Gap : k <= j
  BY <1>1, LeastExists
<1>3. n - k \in T
  OBVIOUS
<1>4. ASSUME NEW y \in T PROVE y <= n - k
  <2>1. n - y \in 0 .. n /\ n - (n - y) = y
    OBVIOUS
  <2>2. n - y \in Gap
    BY <2>1
  <2>3. k \in 0 .. n /\ y \in 0 .. n
    OBVIOUS
  <2>4. k <= n - y
    BY <1>2, <2>2
  <2> QED
    BY <2>3, <2>4
<1> QED
  BY <1>3, <1>4

\* Max is the greatest element, where there is one.
LEMMA MaxIs ==
  ASSUME NEW n \in Nat, NEW T \in SUBSET (0 .. n), T # {}
  PROVE  Max(T) \in T /\ \A y \in T : y <= Max(T)
<1>1. \E x \in T : \A y \in T : x >= y
  BY GreatestExists
<1> QED
  BY <1>1 DEF Max

\* What holds of 0, and of n + 1 where it holds of n, holds of every natural.
LEMMA NaturalsUpward ==
  ASSUME NEW T, 0 \in T, \A n \in Nat : n \in T => n + 1 \in T
  PROVE  \A n \in Nat : n \in T
<1> SUFFICES ASSUME NEW n \in Nat, n \notin T PROVE FALSE
  OBVIOUS
<1> DEFINE Rest == Nat \ T
<1>1. Rest \in SUBSET Nat /\ Rest # {}
  OBVIOUS
<1>2. PICK k \in Rest : \A j \in Rest : k <= j
  <2> HIDE DEF Rest
  <2> QED
    BY <1>1, LeastExists
<1>3. k - 1 \in Nat /\ k - 1 \notin Rest
  BY <1>2
<1> QED
  BY <1>2, <1>3

\* What holds of a set where it holds of all its smaller subsets, holds of every subset
\* of a finite set.
LEMMA SubsetInduction ==
  ASSUME NEW S, IsFiniteSet(S), NEW T,
         \A s \in SUBSET S : (\A t \in SUBSET s : t # s => t \in T) => s \in T
  PROVE  \A s \in SUBSET S : s \in T
<1> SUFFICES ASSUME NEW r \in SUBSET S, r \notin T PROVE FALSE
  OBVIOUS
<1> DEFINE Rest == (SUBSET S) \ T
<1>1. Rest \subseteq FiniteSubsetsOf(S) /\ Rest # {} /\ Rest \subseteq SUBSET S
  BY FS_FiniteSubsetsOfFinite
<1>2. PICK s \in Rest : \A t \in Rest : <<t, s>> \notin StrictSubsetOrdering(S)
  <2> HIDE DEF Rest
  <2> QED
    BY <1>1, FS_StrictSubsetOrderingWellFounded, WFMin
<1>3. ASSUME NEW t \in SUBSET s, t # s PROVE t \in T
  <2>1. <<t, s>> \in StrictSubsetOrdering(S) /\ t \in SUBSET S
    BY <1>1, <1>2, <1>3 DEF StrictSubsetOrdering
  <2> QED
    BY <1>2, <2>1
<1> QED
  BY <1>1, <1>2, <1>3

-----------------------------------------------------------------------------
(* Sums.                                                                   *)

\* it adds f up over the subsets of S, in whatever order.
Adds(it, f, S) ==
  /\ it[{}] = 0
  /\ \A s \in SUBSET S : s # {} => \E x \in s : it[s] = f[x] + it[s \ {x}]

Sum(f, S) == (CHOOSE it : Adds(it, f, S))[S]

Whole(f, S) == \A x \in S : f[x] \in Int

\* The recursion of the folds: the element taken is the first summand, or the last.
SumFirst(it, f, pick, S) ==
  it = [s \in SUBSET S |-> IF s = {} THEN 0 ELSE f[pick[s]] + it[s \ {pick[s]}]]

SumLast(it, f, pick, S) ==
  it = [s \in SUBSET S |-> IF s = {} THEN 0 ELSE it[s \ {pick[s]}] + f[pick[s]]]

\* The recursion has a solution: step n of it is right for the sets of up to n elements.
LEMMA FoldExists ==
  ASSUME NEW S, IsFiniteSet(S), NEW f, Whole(f, S),
         NEW pick, \A s \in SUBSET S : s # {} => pick[s] \in s
  PROVE  \E it : SumFirst(it, f, pick, S) /\ SumLast(it, f, pick, S)
<1> DEFINE Step(it, s) == IF s = {} THEN 0 ELSE f[pick[s]] + it[s \ {pick[s]}]
           Pets(it, s) == IF s = {} THEN 0 ELSE it[s \ {pick[s]}] + f[pick[s]]
           Right(it, n) == \A s \in SUBSET S : Cardinality(s) <= n => it[s] = Step(it, s)
           T == {n \in Nat : \E it \in [SUBSET S -> Int] : Right(it, n)}
<1>1. \A s \in SUBSET S : Cardinality(s) \in Nat /\ Cardinality(s) <= Cardinality(S)
  BY FS_Subset, FS_CardinalityType
<1>2. \A s \in SUBSET S : s # {} =>
        s \ {pick[s]} \in SUBSET S /\ Cardinality(s \ {pick[s]}) = Cardinality(s) - 1
  BY FS_Subset, FS_RemoveElement
<1>3. \A s \in SUBSET S : Cardinality(s) = 0 => s = {}
  BY FS_Subset, FS_EmptySet
<1>4. \A s \in SUBSET S : s # {} => f[pick[s]] \in Int
  BY DEF Whole
<1>5. 0 \in T
  <2> DEFINE it == [s \in SUBSET S |-> 0]
  <2>1. Right(it, 0) /\ it \in [SUBSET S -> Int]
    BY <1>1, <1>3
  <2> HIDE DEF it, Right
  <2> QED
    BY <2>1
<1>6. ASSUME NEW n \in Nat, n \in T PROVE n + 1 \in T
  <2>1. PICK it \in [SUBSET S -> Int] : Right(it, n)
    BY <1>6
  <2> DEFINE next == [s \in SUBSET S |-> Step(it, s)]
  <2>2. ASSUME NEW s \in SUBSET S, Cardinality(s) <= n + 1 PROVE next[s] = Step(next, s)
    <3>1. CASE s = {}
      BY <3>1
    <3>2. CASE s # {}
      <4> DEFINE t == s \ {pick[s]}
      <4>1. t \in SUBSET S /\ Cardinality(t) <= n
        BY <1>1, <1>2, <2>2, <3>2
      <4>2. it[t] = Step(it, t)
        BY <2>1, <4>1
      <4>3. next[t] = Step(it, t) /\ next[s] = Step(it, s)
        BY <4>1
      <4>4. next[t] = it[t]
        BY <4>2, <4>3
      <4> HIDE DEF next
      <4>5. Step(next, s) = Step(it, s)
        BY <3>2, <4>4
      <4> QED
        BY <4>3, <4>5
    <3> QED
      BY <3>1, <3>2
  <2>3. Right(next, n + 1)
    BY <2>2
  <2>4. next \in [SUBSET S -> Int]
    <3> SUFFICES ASSUME NEW s \in SUBSET S PROVE Step(it, s) \in Int
      OBVIOUS
    <3> QED
      BY <1>2, <1>4
  <2> HIDE DEF next, Right
  <2> QED
    BY <2>3, <2>4
<1>7. Cardinality(S) \in Nat
  BY FS_CardinalityType
<1>8. Cardinality(S) \in T
  <2> HIDE DEF T
  <2> QED
    BY <1>5, <1>6, <1>7, NaturalsUpward
<1>9. PICK it \in [SUBSET S -> Int] : Right(it, Cardinality(S))
  BY <1>8
<1>10. \A s \in SUBSET S : it[s] = Step(it, s)
  BY <1>1, <1>9
<1>11. \A s \in SUBSET S : it[s] = Pets(it, s)
  <2> SUFFICES ASSUME NEW s \in SUBSET S, s # {} PROVE it[s] = Pets(it, s)
    BY <1>10
  <2>1. f[pick[s]] \in Int /\ it[s \ {pick[s]}] \in Int
    BY <1>2, <1>4
  <2>2. it[s] = f[pick[s]] + it[s \ {pick[s]}]
    BY <1>10
  <2> QED
    BY <2>1, <2>2
<1>12. /\ it = [s \in SUBSET S |-> Step(it, s)]
       /\ it = [s \in SUBSET S |-> Pets(it, s)]
  <2> HIDE DEF Step, Pets
  <2> QED
    BY <1>10, <1>11
<1> QED
  BY <1>12 DEF SumFirst, SumLast

\* Two that add up the same numbers agree, and any element can be the last.
LEMMA AddsAgree ==
  ASSUME NEW S, IsFiniteSet(S), NEW f, NEW g, NEW it, NEW other, Whole(f, S),
         Adds(it, f, S), Adds(other, g, S), \A x \in S : f[x] = g[x]
  PROVE  \A s \in SUBSET S : /\ it[s] \in Int /\ it[s] = other[s]
                             /\ \A x \in s : it[s] = f[x] + it[s \ {x}]
<1> DEFINE Good(s) == /\ it[s] \in Int /\ it[s] = other[s]
                      /\ \A x \in s : it[s] = f[x] + it[s \ {x}]
           T == {s \in SUBSET S : Good(s)}
<1>1. ASSUME NEW s \in SUBSET S, \A t \in SUBSET s : t # s => t \in T PROVE Good(s)
  <2> DEFINE But(x) == s \ {x}
  <2>1. \A x \in s : Good(But(x)) /\ \A y \in s \ {x} : Good(But(x) \ {y})
    BY <1>1
  <2>2. CASE s = {}
    BY <2>2 DEF Adds
  <2>3. CASE s # {}
    <3>1. PICK y \in s : it[s] = f[y] + it[But(y)]
      BY <2>3 DEF Adds
    <3>2. PICK z \in s : other[s] = g[z] + other[But(z)]
      BY <2>3 DEF Adds
    <3>3. ASSUME NEW x \in s PROVE it[s] = f[x] + it[But(x)]
      <4> SUFFICES ASSUME x # y PROVE it[s] = f[x] + it[But(x)]
        BY <3>1
      <4> DEFINE r == But(x) \ {y}
      <4>1. r = But(y) \ {x}
        OBVIOUS
      <4>2. it[But(x)] = f[y] + it[r]
        BY <2>1
      <4>3. it[But(y)] = f[x] + it[r]
        BY <2>1, <4>1
      <4>4. it[r] \in Int /\ f[x] \in Int /\ f[y] \in Int
        BY <2>1 DEF Whole
      <4> HIDE DEF But, r
      <4> QED
        BY <3>1, <4>2, <4>3, <4>4
    <3>4. f[z] \in Int /\ f[z] = g[z] /\ it[But(z)] \in Int /\ it[But(z)] = other[But(z)]
      BY <2>1 DEF Whole
    <3>5. it[s] \in Int /\ it[s] = other[s]
      <4> HIDE DEF But
      <4> QED
        BY <3>2, <3>3, <3>4
    <3> QED
      BY <3>3, <3>5
  <2> QED
    BY <2>2, <2>3
<1>2. \A s \in SUBSET S : s \in T
  <2>1. \A s \in SUBSET S : (\A t \in SUBSET s : t # s => t \in T) => s \in T
    BY <1>1
  <2> HIDE DEF T
  <2> QED
    BY <2>1, SubsetInduction
<1> QED
  BY <1>2

\* A fold adds up.
LEMMA FoldAdds ==
  ASSUME NEW S, IsFiniteSet(S), NEW f, Whole(f, S),
         NEW pick, \A s \in SUBSET S : s # {} => pick[s] \in s,
         NEW it, SumFirst(it, f, pick, S) \/ SumLast(it, f, pick, S)
  PROVE  Adds(it, f, S)
<1>0. /\ it[{}] = 0
      /\ \A s \in SUBSET S : s # {} => \/ it[s] = f[pick[s]] + it[s \ {pick[s]}]
                                        \/ it[s] = it[s \ {pick[s]}] + f[pick[s]]
  <2>1. CASE SumFirst(it, f, pick, S)
    BY <2>1 DEF SumFirst
  <2>2. CASE SumLast(it, f, pick, S)
    BY <2>2 DEF SumLast
  <2> QED
    BY <2>1, <2>2
<1> DEFINE T == {s \in SUBSET S : it[s] \in Int}
<1>1. \A s \in SUBSET S : s # {} => /\ pick[s] \in s /\ f[pick[s]] \in Int
                                    /\ s \ {pick[s]} \in SUBSET s /\ s \ {pick[s]} # s
  BY DEF Whole
<1>2. ASSUME NEW s \in SUBSET S, \A t \in SUBSET s : t # s => t \in T PROVE s \in T
  <2>1. CASE s = {}
    BY <1>0, <2>1
  <2>2. CASE s # {}
    <3>1. f[pick[s]] \in Int /\ it[s \ {pick[s]}] \in Int
      BY <1>1, <1>2, <2>2
    <3>2. it[s] = f[pick[s]] + it[s \ {pick[s]}] \/ it[s] = it[s \ {pick[s]}] + f[pick[s]]
      BY <1>0, <2>2
    <3>3. it[s] \in Int
      BY <3>1, <3>2
    <3> QED
      BY <3>3
  <2> QED
    BY <2>1, <2>2
<1>3. \A s \in SUBSET S : s \in T
  <2> HIDE DEF T
  <2> QED
    BY <1>2, SubsetInduction
<1>4. ASSUME NEW s \in SUBSET S, s # {} PROVE \E x \in s : it[s] = f[x] + it[s \ {x}]
  <2>1. s \ {pick[s]} \in SUBSET S
    OBVIOUS
  <2>2. f[pick[s]] \in Int /\ it[s \ {pick[s]}] \in Int /\ pick[s] \in s
    BY <1>1, <1>3, <1>4, <2>1
  <2>3. it[s] = f[pick[s]] + it[s \ {pick[s]}] \/ it[s] = it[s \ {pick[s]}] + f[pick[s]]
    BY <1>0, <1>4
  <2>4. it[s] = f[pick[s]] + it[s \ {pick[s]}]
    BY <2>2, <2>3
  <2> QED
    BY <2>2, <2>4
<1> QED
  BY <1>0, <1>4 DEF Adds

\* A finite set has a sum.
LEMMA AddsExists ==
  ASSUME NEW S, IsFiniteSet(S), NEW f, Whole(f, S)
  PROVE  \E it : Adds(it, f, S)
<1> DEFINE pick == [s \in SUBSET S |-> CHOOSE x \in s : TRUE]
<1>1. \A s \in SUBSET S : s # {} => pick[s] \in s
  OBVIOUS
<1> HIDE DEF pick
<1>2. PICK it : SumFirst(it, f, pick, S)
  BY <1>1, FoldExists
<1>3. Adds(it, f, S)
  BY <1>1, <1>2, FoldAdds
<1> QED
  BY <1>3

\* Whatever adds up comes to the sum.
LEMMA AddsToSum ==
  ASSUME NEW S, IsFiniteSet(S), NEW f, Whole(f, S), NEW it, Adds(it, f, S)
  PROVE  it[S] = Sum(f, S) /\ Sum(f, S) \in Int
<1> DEFINE other == CHOOSE g : Adds(g, f, S)
<1>1. Adds(other, f, S)
  OBVIOUS
<1> HIDE DEF other
<1>2. it[S] = other[S] /\ it[S] \in Int
  BY <1>1, AddsAgree
<1> QED
  BY <1>2 DEF Sum, other

\* So a fold comes to the sum: sums stands for the function the fold CHOOSEs, which
\* solves the recursion if anything does.
LEMMA FoldIsSum ==
  ASSUME NEW S, IsFiniteSet(S), NEW f, Whole(f, S),
         NEW pick, \A s \in SUBSET S : s # {} => pick[s] \in s,
         NEW sums, \/ (\E it : SumFirst(it, f, pick, S)) => SumFirst(sums, f, pick, S)
                   \/ (\E it : SumLast(it, f, pick, S)) => SumLast(sums, f, pick, S)
  PROVE  sums[S] = Sum(f, S) /\ Sum(f, S) \in Int
<1>1. SumFirst(sums, f, pick, S) \/ SumLast(sums, f, pick, S)
  BY FoldExists
<1>2. Adds(sums, f, S)
  BY <1>1, FoldAdds
<1> QED
  BY <1>2, AddsToSum

\* The sum over a set is any element's number and the sum over the others.
LEMMA SumStep ==
  ASSUME NEW S, IsFiniteSet(S), NEW f, Whole(f, S)
  PROVE  /\ Sum(f, S) \in Int
         /\ S = {} => Sum(f, S) = 0
         /\ \A x \in S : Sum(f, S) = f[x] + Sum(f, S \ {x})
<1>1. PICK it : Adds(it, f, S)
  BY AddsExists
<1>2. Sum(f, S) \in Int /\ Sum(f, S) = it[S]
  BY <1>1, AddsToSum
<1>3. S = {} => Sum(f, S) = 0
  BY <1>1, <1>2 DEF Adds
<1>4. ASSUME NEW x \in S PROVE Sum(f, S) = f[x] + Sum(f, S \ {x})
  <2> DEFINE R == S \ {x}
  <2>1. Adds(it, f, R) /\ Whole(f, R)
    BY <1>1 DEF Adds, Whole
  <2>2. IsFiniteSet(R)
    BY FS_Subset
  <2> HIDE DEF R
  <2>3. it[R] = Sum(f, R)
    BY <2>1, <2>2, AddsToSum
  <2>4. it[S] = f[x] + it[R]
    BY <1>1, AddsAgree DEF R
  <2> QED
    BY <1>2, <2>3, <2>4 DEF R
<1> QED
  BY <1>2, <1>3, <1>4

\* An element more adds its number.
LEMMA SumAdd ==
  ASSUME NEW S, IsFiniteSet(S), NEW x, x \notin S, NEW f, Whole(f, S \cup {x})
  PROVE  Sum(f, S \cup {x}) = f[x] + Sum(f, S)
<1> DEFINE R == S \cup {x}
<1>1. IsFiniteSet(R) /\ x \in R /\ R \ {x} = S
  BY FS_AddElement
<1> HIDE DEF R
<1>2. Whole(f, R)
  BY DEF R
<1> QED
  BY <1>1, <1>2, SumStep DEF R

\* Numbers that are nowhere greater have no greater sum.
LEMMA SumOrdered ==
  ASSUME NEW S, IsFiniteSet(S), NEW f, NEW g, Whole(f, S), Whole(g, S), \A x \in S : f[x] <= g[x]
  PROVE  Sum(f, S) <= Sum(g, S)
<1> DEFINE T == {s \in SUBSET S : Sum(f, s) <= Sum(g, s)}
<1>1. ASSUME NEW s \in SUBSET S, \A t \in SUBSET s : t # s => t \in T PROVE s \in T
  <2>1. IsFiniteSet(s) /\ Whole(f, s) /\ Whole(g, s)
    BY FS_Subset DEF Whole
  <2>2. CASE s = {}
    <3>1. Sum(f, s) = 0 /\ Sum(g, s) = 0
      BY <2>1, <2>2, SumStep
    <3> QED
      BY <3>1
  <2>3. CASE s # {}
    <3>1. PICK x \in s : TRUE
      BY <2>3
    <3> DEFINE r == s \ {x}
    <3>2. r \in T
      BY <1>1
    <3>3. IsFiniteSet(r) /\ Whole(f, r) /\ Whole(g, r)
      BY <2>1, FS_Subset DEF Whole
    <3>4. Sum(f, s) = f[x] + Sum(f, r) /\ Sum(g, s) = g[x] + Sum(g, r)
      BY <2>1, SumStep
    <3>5. Sum(f, r) \in Int /\ Sum(g, r) \in Int
      <4> HIDE DEF r
      <4> QED
        BY <3>3, SumStep
    <3>6. f[x] \in Int /\ g[x] \in Int /\ f[x] <= g[x]
      BY DEF Whole
    <3> QED
      BY <3>2, <3>4, <3>5, <3>6
  <2> QED
    BY <2>2, <2>3
<1>2. \A s \in SUBSET S : s \in T
  <2> HIDE DEF T
  <2> QED
    BY <1>1, SubsetInduction
<1> QED
  BY <1>2

\* The same numbers have the same sum.
LEMMA SumSame ==
  ASSUME NEW S, IsFiniteSet(S), NEW f, NEW g, Whole(f, S), \A x \in S : f[x] = g[x]
  PROVE  Sum(f, S) = Sum(g, S)
<1>1. Whole(g, S)
  BY DEF Whole
<1>2. \A x \in S : f[x] <= g[x] /\ g[x] <= f[x]
  BY DEF Whole
<1>3. Sum(f, S) <= Sum(g, S) /\ Sum(g, S) <= Sum(f, S)
  BY <1>1, <1>2, SumOrdered
<1>4. Sum(f, S) \in Int /\ Sum(g, S) \in Int
  BY <1>1, SumStep
<1> QED
  BY <1>3, <1>4

\* Without negative numbers, a part of a set comes to no more than the set.
LEMMA SumOfPart ==
  ASSUME NEW S, IsFiniteSet(S), NEW f, \A x \in S : f[x] \in Nat, NEW R \in SUBSET S
  PROVE  Sum(f, R) \in Nat /\ Sum(f, R) <= Sum(f, S)
<1> DEFINE within == [x \in S |-> IF x \in R THEN f[x] ELSE 0]
           zero == [x \in S |-> 0]
           T == {s \in SUBSET S : Sum(zero, s) = 0 /\ Sum(within, s) = Sum(f, s \cap R)}
<1>1. Whole(f, S) /\ Whole(within, S) /\ Whole(zero, S)
  BY DEF Whole
<1>2. ASSUME NEW s \in SUBSET S, \A t \in SUBSET s : t # s => t \in T PROVE s \in T
  <2>1. \A t \in SUBSET s : IsFiniteSet(t) /\ Whole(f, t) /\ Whole(within, t) /\ Whole(zero, t)
    BY <1>1, FS_Subset DEF Whole
  <2>2. CASE s = {}
    <3>1. s \cap R = s
      BY <2>2
    <3> HIDE DEF within, zero
    <3> QED
      BY <2>1, <2>2, <3>1, SumStep
  <2>3. CASE s # {}
    <3>1. PICK x \in s : TRUE
      BY <2>3
    <3> DEFINE r == s \ {x}
    <3>2. r \in T
      BY <1>2
    <3>3. within[x] = (IF x \in R THEN f[x] ELSE 0) /\ zero[x] = 0 /\ f[x] \in Int
      OBVIOUS
    <3> HIDE DEF within, zero
    <3>4. Sum(within, s) = within[x] + Sum(within, r) /\ Sum(zero, s) = zero[x] + Sum(zero, r)
      BY <2>1, SumStep
    <3>5. x \in R => Sum(f, s \cap R) = f[x] + Sum(f, r \cap R)
      <4> SUFFICES ASSUME x \in R PROVE Sum(f, s \cap R) = f[x] + Sum(f, r \cap R)
        OBVIOUS
      <4> DEFINE t == s \cap R
      <4>1. x \in t /\ t \ {x} = r \cap R /\ t \in SUBSET s
        OBVIOUS
      <4> HIDE DEF t
      <4> QED
        BY <2>1, <4>1, SumStep DEF t
    <3>6. x \notin R => s \cap R = r \cap R
      OBVIOUS
    <3>7. Sum(f, r \cap R) \in Int
      <4>1. r \cap R \in SUBSET s
        OBVIOUS
      <4> QED
        BY <2>1, <4>1, SumStep
    <3>8. Sum(zero, r) = 0 /\ Sum(within, r) = Sum(f, r \cap R)
      BY <3>2
    <3> QED
      BY <3>3, <3>4, <3>5, <3>6, <3>7, <3>8
  <2> QED
    BY <2>2, <2>3
<1>3. S \in T /\ R \in T
  <2>1. \A s \in SUBSET S : s \in T
    <3> HIDE DEF T
    <3> QED
      BY <1>2, SubsetInduction
  <2> QED
    BY <2>1
<1>4. /\ Sum(zero, S) = 0
      /\ Sum(within, S) = Sum(f, R)
  <2>1. S \cap R = R
    OBVIOUS
  <2> HIDE DEF within, zero
  <2> QED
    BY <1>3, <2>1
<1>5. \A x \in S : zero[x] <= within[x] /\ within[x] <= f[x]
  OBVIOUS
<1> HIDE DEF within, zero
<1>6. Sum(zero, S) <= Sum(within, S) /\ Sum(within, S) <= Sum(f, S)
  BY <1>1, <1>5, SumOrdered
<1>7. Sum(within, S) \in Int
  BY <1>1, SumStep
<1> QED
  BY <1>4, <1>6, <1>7
=============================================================================

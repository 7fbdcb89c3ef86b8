------------------------------ MODULE SumTheorems ------------------------------
(***************************************************************************)
(* Facts about SumFunction, for any function on a finite set with integer  *)
(* values.  The community modules define it through a function that is     *)
(* recursive on the subsets of the domain; that there is such a function   *)
(* comes first, and what it computes follows from its equation by the      *)
(* minimal counterexample.                                                 *)
(***************************************************************************)
EXTENDS Integers, FiniteSets, Functions, FiniteSetTheorems, TLAPS

\* g has the value for s that the recursion asks for.
SumStep(f, g, s) ==
    IF s = {} THEN 0
    ELSE LET x == CHOOSE x \in s : TRUE IN f[x] + g[s \ {x}]

\* The sums over all subsets of S.
IsSums(f, S, g) == g = [s \in SUBSET S |-> SumStep(f, g, s)]

Sums(f, S) == CHOOSE g : IsSums(f, S, g)

LEMMA SumIsSums ==
    ASSUME NEW f, NEW S
    PROVE  SumFunctionOnSet(f, S) = Sums(f, S)[S]
BY Zenon DEF SumFunctionOnSet, FoldFunctionOnSet, MapThenFoldSet, Sums, IsSums, SumStep

\* A set of naturals has a least element.
LEMMA Least ==
    ASSUME NEW T \in SUBSET Nat, T # {}
    PROVE  \E n \in T : \A m \in T : n <= m
<1> DEFINE R == {ss \in Nat \X Nat : ss[1] < ss[2]}
<1>1. IsWellFoundedOn(R, Nat)
  BY NatLessThanWellFounded, Zenon DEF OpToRel
<1>2. \E n \in T : \A m \in T : ~(<<m, n>> \in R)
  <2> HIDE DEF R
  <2> QED BY <1>1, WFMin
<1>3. PICK n \in T : \A m \in T : ~(<<m, n>> \in R)
  BY <1>2
<1>4. ASSUME NEW m \in T PROVE n <= m
  <2>1. ~(m < n)
    BY <1>3
  <2> QED BY <2>1
<1> QED BY <1>3, <1>4

\* A family of finite sets has one without a proper subset in it.
LEMMA Smallest ==
    ASSUME NEW S, IsFiniteSet(S), NEW T \in SUBSET SUBSET S, T # {}
    PROVE  \E s \in T : \A t \in T : t \subseteq s => t = s
<1>1. IsWellFoundedOn(StrictSubsetOrdering(S), SUBSET S)
  BY FS_FiniteSubsetsOfFinite, FS_StrictSubsetOrderingWellFounded
<1>2. \E s \in T : \A t \in T : ~(<<t, s>> \in StrictSubsetOrdering(S))
  BY <1>1, WFMin
<1> QED BY <1>2 DEF StrictSubsetOrdering

\* An element that is chosen from a set that is not empty is one of it.
LEMMA Chosen ==
    ASSUME NEW s, s # {}
    PROVE  (CHOOSE x \in s : TRUE) \in s
OBVIOUS

-----------------------------------------------------------------------------
\* The recursion has a solution: it has one on the subsets with at most n
\* elements, for each n.
LEMMA SumsExist ==
    ASSUME NEW f, NEW S, IsFiniteSet(S)
    PROVE  \E g : IsSums(f, S, g)
<1> DEFINE G(n) == {s \in SUBSET S : Cardinality(s) <= n}
           Solves(n, g) == g = [s \in G(n) |-> SumStep(f, g, s)]
           T == {n \in Nat : ~\E g : Solves(n, g)}
<1>1. \A s \in SUBSET S : IsFiniteSet(s) /\ Cardinality(s) \in Nat
  BY FS_Subset, FS_CardinalityType
<1>2. ASSUME NEW s \in SUBSET S, s # {}
      PROVE  LET u == s \ {CHOOSE x \in s : TRUE}
             IN  /\ u \in SUBSET S
                 /\ Cardinality(u) = Cardinality(s) - 1
  BY <1>1, <1>2, FS_RemoveElement, Chosen
<1>3. \E g : Solves(0, g)
  <2>1. G(0) = {{}}
    <3>1. \A s \in G(0) : s = {}
      BY <1>1, FS_EmptySet
    <3>2. {} \in G(0)
      BY FS_EmptySet
    <3> QED BY <3>1, <3>2
  <2> DEFINE g == [s \in {{}} |-> 0]
  <2>2. Solves(0, g)
    BY <2>1 DEF SumStep
  <2> QED BY <2>2
<1>4. ASSUME NEW n \in Nat, NEW g, Solves(n, g)
      PROVE  \E h : Solves(n + 1, h)
  <2> DEFINE h == [s \in G(n + 1) |-> SumStep(f, g, s)]
  <2>1. \A s \in G(n) : s \in G(n + 1) /\ h[s] = g[s]
    <3>1. \A s \in G(n) : s \in G(n + 1)
      BY <1>1
    <3>2. \A s \in G(n) : g[s] = SumStep(f, g, s)
      BY <1>4
    <3> QED BY <3>1, <3>2
  <2>2. ASSUME NEW s \in G(n + 1) PROVE SumStep(f, g, s) = SumStep(f, h, s)
    <3>1. CASE s = {}
      BY <3>1 DEF SumStep
    <3>2. CASE s # {}
      <4> DEFINE x == CHOOSE x \in s : TRUE
      <4>1. s \ {x} \in SUBSET S /\ Cardinality(s \ {x}) = Cardinality(s) - 1
        BY <1>2, <3>2
      <4>2. s \ {x} \in G(n)
        BY <1>1, <4>1
      <4>3. h[s \ {x}] = g[s \ {x}]
        BY <2>1, <4>2
      <4> QED BY <3>2, <4>3 DEF SumStep
    <3> QED BY <3>1, <3>2
  <2>3. Solves(n + 1, h)
    BY <2>2
  <2> QED BY <2>3
<1>5. T = {}
  <2> SUFFICES ASSUME T # {} PROVE FALSE
    OBVIOUS
  <2> HIDE DEF Solves
  <2>1. PICK n \in T : \A m \in T : n <= m
    BY Least
  <2>2. n # 0
    BY <1>3, <2>1
  <2>3. n - 1 \in Nat /\ n - 1 \notin T /\ (n - 1) + 1 = n
    BY <2>1, <2>2
  <2>4. PICK g : Solves(n - 1, g)
    BY <2>3
  <2>5. \E h : Solves((n - 1) + 1, h)
    BY <1>4, <2>3, <2>4
  <2> QED BY <2>1, <2>3, <2>5
<1>6. Cardinality(S) \in Nat /\ G(Cardinality(S)) = SUBSET S
  BY FS_CardinalityType, FS_Subset
<1>7. PICK g : Solves(Cardinality(S), g)
  BY <1>5, <1>6
<1> QED BY <1>6, <1>7 DEF IsSums

\* The equation of the recursion.
LEMMA SumsEquation ==
    ASSUME NEW f, NEW S, IsFiniteSet(S)
    PROVE  /\ Sums(f, S)[{}] = 0
           /\ \A s \in SUBSET S : s # {} =>
                 \E x \in s : /\ x = CHOOSE y \in s : TRUE
                              /\ Sums(f, S)[s] = f[x] + Sums(f, S)[s \ {x}]
<1> DEFINE g == Sums(f, S)
<1>1. IsSums(f, S, g)
  BY SumsExist DEF Sums
<1> HIDE DEF g
<1>2. \A s \in SUBSET S : g[s] = SumStep(f, g, s)
  BY <1>1 DEF IsSums
<1>3. g[{}] = 0
  BY <1>2 DEF SumStep
<1>4. ASSUME NEW s \in SUBSET S, s # {}
      PROVE  \E x \in s : /\ x = CHOOSE y \in s : TRUE
                          /\ g[s] = f[x] + g[s \ {x}]
  <2> DEFINE x == CHOOSE y \in s : TRUE
  <2>1. x \in s
    BY <1>4, Chosen
  <2>2. g[s] = f[x] + g[s \ {x}]
    BY <1>2, <1>4 DEF SumStep
  <2> QED BY <2>1, <2>2
<1> QED BY <1>3, <1>4 DEF g
-----------------------------------------------------------------------------
\* The sums are integers, and naturals if the values are.
LEMMA SumsType ==
    ASSUME NEW S, IsFiniteSet(S), NEW V \in {Nat, Int}, NEW f \in [S -> V]
    PROVE  \A s \in SUBSET S : Sums(f, S)[s] \in V
<1> DEFINE g == Sums(f, S)
           T == {s \in SUBSET S : g[s] \notin V}
<1>1. /\ g[{}] = 0
      /\ \A s \in SUBSET S : s # {} => \E x \in s : g[s] = f[x] + g[s \ {x}]
  BY SumsEquation
<1> HIDE DEF g
<1>2. SUFFICES ASSUME T # {} PROVE FALSE
  BY DEF g
<1>3. PICK s \in T : \A t \in T : t \subseteq s => t = s
  <2>1. T \in SUBSET SUBSET S
    OBVIOUS
  <2> HIDE DEF T
  <2> QED BY <1>2, <2>1, Smallest
<1>4. s # {}
  <2>1. 0 \in V
    OBVIOUS
  <2>2. {} \notin T
    BY <1>1, <2>1
  <2> QED BY <1>3, <2>2
<1>5. PICK x \in s : g[s] = f[x] + g[s \ {x}]
  BY <1>1, <1>3, <1>4
<1>6. s \ {x} \notin T
  BY <1>3, <1>5
<1>7. g[s \ {x}] \in V /\ f[x] \in V
  BY <1>3, <1>5, <1>6
<1>8. g[s] \in V
  <2>1. CASE V = Nat
    BY <1>5, <1>7, <2>1
  <2>2. CASE V = Int
    BY <1>5, <1>7, <2>2
  <2> QED BY <2>1, <2>2
<1> QED BY <1>3, <1>8

\* A sum of integers is an integer, a sum of naturals a natural.
THEOREM SumFunctionType ==
    ASSUME NEW S, IsFiniteSet(S), NEW V \in {Nat, Int}, NEW f \in [S -> V]
    PROVE  SumFunction(f) \in V
<1>1. SumFunction(f) = Sums(f, S)[S]
  BY SumIsSums DEF SumFunction
<1> QED BY <1>1, SumsType

\* A change of one value changes the sum by as much.
THEOREM SumFunctionChange ==
    ASSUME NEW S, IsFiniteSet(S), NEW f \in [S -> Int], NEW h \in [S -> Int],
           NEW a \in S, NEW d \in Int, h[a] = f[a] + d,
           \A s \in S \ {a} : h[s] = f[s]
    PROVE  SumFunction(h) = SumFunction(f) + d
<1> DEFINE F == Sums(f, S)
           H == Sums(h, S)
           T == {s \in SUBSET S : H[s] # F[s] + IF a \in s THEN d ELSE 0}
<1>1. /\ F[{}] = 0 /\ H[{}] = 0
      /\ \A s \in SUBSET S : s # {} =>
            \E x \in s : F[s] = f[x] + F[s \ {x}] /\ H[s] = h[x] + H[s \ {x}]
  <2>1. /\ F[{}] = 0
        /\ \A s \in SUBSET S : s # {} =>
              \E x \in s : x = (CHOOSE y \in s : TRUE) /\ F[s] = f[x] + F[s \ {x}]
    BY SumsEquation
  <2>2. /\ H[{}] = 0
        /\ \A s \in SUBSET S : s # {} =>
              \E x \in s : x = (CHOOSE y \in s : TRUE) /\ H[s] = h[x] + H[s \ {x}]
    BY SumsEquation
  <2> HIDE DEF F, H
  <2> QED BY <2>1, <2>2
<1>2. \A s \in SUBSET S : F[s] \in Int /\ H[s] \in Int
  BY SumsType
<1>3. SumFunction(f) = F[S] /\ SumFunction(h) = H[S]
  BY SumIsSums DEF SumFunction
<1> HIDE DEF F, H
<1>4. T = {}
  <2>1. SUFFICES ASSUME T # {} PROVE FALSE
    OBVIOUS
  <2>2. PICK s \in T : \A t \in T : t \subseteq s => t = s
    <3>1. T \in SUBSET SUBSET S
      OBVIOUS
    <3> HIDE DEF T
    <3> QED BY <2>1, <3>1, Smallest
  <2>3. s # {}
    <3>1. {} \notin T
      BY <1>1
    <3> QED BY <2>2, <3>1
  <2>4. PICK x \in s : F[s] = f[x] + F[s \ {x}] /\ H[s] = h[x] + H[s \ {x}]
    BY <1>1, <2>2, <2>3
  <2>5. s \ {x} \in SUBSET S /\ s \ {x} \notin T
    BY <2>2, <2>4
  <2>6. H[s \ {x}] = F[s \ {x}] + IF a \in s \ {x} THEN d ELSE 0
    BY <2>5
  <2>7. /\ H[s] \in Int /\ F[s] \in Int /\ H[s \ {x}] \in Int /\ F[s \ {x}] \in Int
        /\ f[x] \in Int /\ h[x] \in Int /\ f[a] \in Int
    BY <1>2, <2>2, <2>4, <2>5
  <2>8. H[s] = F[s] + IF a \in s THEN d ELSE 0
    <3>1. CASE x = a
      BY <2>4, <2>6, <2>7, <3>1
    <3>2. CASE x # a
      <4>1. h[x] = f[x] /\ (a \in s \ {x} <=> a \in s)
        BY <2>2, <2>4, <3>2
      <4> QED BY <2>4, <2>6, <2>7, <4>1
    <3> QED BY <3>1, <3>2
  <2> QED BY <2>2, <2>8
<1> QED BY <1>3, <1>4

\* A sum whose terms have a bound.
THEOREM SumFunctionBound ==
    ASSUME NEW S, IsFiniteSet(S), NEW f \in [S -> Int], NEW b \in Int,
           \A s \in S : f[s] <= b
    PROVE  SumFunction(f) <= Cardinality(S) * b
<1> DEFINE F == Sums(f, S)
           T == {s \in SUBSET S : ~(F[s] <= Cardinality(s) * b)}
<1>1. /\ F[{}] = 0
      /\ \A s \in SUBSET S : s # {} => \E x \in s : F[s] = f[x] + F[s \ {x}]
  BY SumsEquation
<1>2. \A s \in SUBSET S : F[s] \in Int
  BY SumsType
<1>3. SumFunction(f) = F[S]
  BY SumIsSums DEF SumFunction
<1> HIDE DEF F
<1>4. T = {}
  <2>1. SUFFICES ASSUME T # {} PROVE FALSE
    OBVIOUS
  <2>2. PICK s \in T : \A t \in T : t \subseteq s => t = s
    <3>1. T \in SUBSET SUBSET S
      OBVIOUS
    <3> HIDE DEF T
    <3> QED BY <2>1, <3>1, Smallest
  <2>3. s # {}
    <3>1. Cardinality({}) = 0
      BY FS_EmptySet
    <3>2. F[{}] <= Cardinality({}) * b
      BY <1>1, <3>1
    <3>3. {} \notin T
      BY <3>2
    <3> QED BY <2>2, <3>3
  <2>4. PICK x \in s : F[s] = f[x] + F[s \ {x}]
    BY <1>1, <2>2, <2>3
  <2>5. s \ {x} \in SUBSET S /\ s \ {x} \notin T
    BY <2>2, <2>4
  <2>6. F[s \ {x}] <= Cardinality(s \ {x}) * b
    BY <2>5
  <2>7. /\ F[s] \in Int /\ F[s \ {x}] \in Int
        /\ f[x] \in Int /\ f[x] <= b
    BY <1>2, <2>2, <2>4, <2>5
  <2>8. IsFiniteSet(s) /\ Cardinality(s) \in Nat
    BY <2>2, FS_Subset, FS_CardinalityType
  <2>9. Cardinality(s \ {x}) = Cardinality(s) - 1
    BY <2>4, <2>8, FS_RemoveElement
  <2>10. (Cardinality(s) - 1) * b = Cardinality(s) * b - b
    BY <2>8
  <2>11. F[s] <= Cardinality(s) * b
    BY <2>4, <2>6, <2>7, <2>8, <2>9, <2>10
  <2> QED BY <2>2, <2>11
<1> QED BY <1>3, <1>4
=============================================================================

------------------------ MODULE CombinatorialModelProofs ------------------------
(***************************************************************************)
(* Facts about the model of a covering array job that the proofs about its *)
(* components use: the kinds of its sets, that there are finitely many     *)
(* tuples, what setting values does to a test, and what sums of counts are.*)
(***************************************************************************)
EXTENDS CombinatorialModel, FiniteSetTheorems, TLAPS

-------------------------------------------------------------------------------
(* Parameters and values *)

\* Parameters are numbered from 1 and have at least one value.
LEMMA ParamsFacts ==
    /\ Params = 1 .. Len(NumValues)
    /\ Len(NumValues) \in Nat
    /\ \A p \in Params : NumValues[p] \in Nat /\ NumValues[p] >= 1
BY ModelAssumption DEF Params

\* The values of a parameter are natural numbers, 0 is one of them.
LEMMA DomFacts ==
    ASSUME NEW p \in Params
    PROVE  /\ Dom(p) \subseteq AllValues
           /\ Dom(p) \subseteq Nat
           /\ 0 \in Dom(p)
           /\ DontCare \notin Dom(p)
BY ParamsFacts DEF Dom, AllValues, DontCare

\* The parameters of a relation are parameters of the job, which come first.
LEMMA UsedFacts ==
    /\ NumUsed \in Nat
    /\ 1 .. NumUsed \subseteq Params
    /\ \A r \in Rels : /\ RelLen(r) \in Nat /\ RelLen(r) >= 1
                       /\ Relations[r].strength \in Nat
                       /\ \A i \in 1 .. RelLen(r) :
                             /\ Relations[r].params[i] \in Params
                             /\ Relations[r].params[i] \in 1 .. NumUsed
<1>1. NumUsed \in 0 .. Len(NumValues) /\ UsedParams = 1 .. NumUsed
  BY ModelAssumption
<1>2. 1 .. NumUsed \subseteq Params
  BY <1>1, ParamsFacts
<1>3. ASSUME NEW r \in Rels
      PROVE  /\ RelLen(r) \in Nat /\ RelLen(r) >= 1
             /\ Relations[r].strength \in Nat
  <2> DEFINE R == [params : Seq(Params), strength : Nat \ {0}]
  <2>1. Relations[r] \in R
    <3>1. Relations \in Seq(R) /\ r \in DOMAIN Relations
      BY ModelAssumption DEF Rels
    <3> HIDE DEF R
    <3>2. QED
      BY <3>1
  <2>2. Relations[r].params \in Seq(Params) /\ Relations[r].strength \in Nat
    BY <2>1
  <2>3. QED
    BY <2>2, ModelAssumption DEF RelLen
<1>4. ASSUME NEW r \in Rels, NEW i \in 1 .. RelLen(r)
      PROVE  Relations[r].params[i] \in UsedParams
  BY DEF UsedParams, RelParams
<1>5. QED
  BY <1>1, <1>2, <1>3, <1>4, ParamsFacts

-------------------------------------------------------------------------------
(* Finiteness *)

\* A set of natural numbers with a bound has a largest element.
LEMMA BoundedMax ==
    ASSUME NEW b \in Nat, NEW S \in SUBSET (0 .. b), S # {}
    PROVE  Max(S) \in S /\ \A y \in S : y <= Max(S)
<1> DEFINE T == {b - x : x \in S}
<1>1. T \subseteq Nat /\ T # {}
  <2>1. \A x \in S : b - x \in Nat
    OBVIOUS
  <2>2. QED
    BY <2>1
<1>2. PICK m \in T : \A y \in T : ~ (<<y, m>> \in OpToRel(<, Nat))
  BY <1>1, WFMin, NatLessThanWellFounded
<1>3. \A y \in T : m <= y
  <2>1. TAKE y \in T
  <2>2. y \in Nat /\ m \in Nat
    BY <1>1
  <2>3. y < m => <<y, m>> \in OpToRel(<, Nat)
    BY <2>2, Zenon DEF OpToRel
  <2>4. ~ (y < m)
    BY <1>2, <2>3, Zenon
  <2>5. QED
    BY <2>2, <2>4
<1>4. PICK x \in S : m = b - x
  OBVIOUS
<1>5. \A y \in S : x >= y
  BY <1>3, <1>4
<1>6. QED
  BY <1>5 DEF Max

\* There are finitely many values.
LEMMA AllValuesFinite == IsFiniteSet(AllValues)
<1>1. IsFiniteSet(Params)
  BY ParamsFacts, FS_Interval
<1> DEFINE f == [p \in Params |-> Dom(p)]
           D == {Dom(p) : p \in Params}
<1>2. f \in Surjection(Params, D)
  BY DEF Surjection
<1>3. IsFiniteSet(D)
  BY <1>1, <1>2, FS_Surjection
<1>4. \A S \in D : IsFiniteSet(S)
  <2>1. TAKE S \in D
  <2>2. PICK p \in Params : S = Dom(p)
    OBVIOUS
  <2>3. NumValues[p] - 1 \in Int /\ S = 0 .. (NumValues[p] - 1)
    BY <2>2, ParamsFacts DEF Dom
  <2>4. QED
    BY <2>3, FS_Interval
<1>5. QED
  BY <1>3, <1>4, FS_UNION DEF AllValues

\* There are finitely many tuples: a tuple is known by its graph.
LEMMA TuplesFinite == IsFiniteSet(Tuples)
<1> DEFINE G == SUBSET (Params \X AllValues)
           f == [u \in Tuples |-> {<<p, u[p]>> : p \in DOMAIN u}]
<1>1. IsFiniteSet(Params)
  BY ParamsFacts, FS_Interval
<1>2. IsFiniteSet(G)
  BY <1>1, AllValuesFinite, FS_Product, FS_SUBSET
<1>3. \A u \in Tuples : DOMAIN u \subseteq Params /\ u \in [DOMAIN u -> AllValues]
  BY DEF Tuples, TuplesOf
<1>4. f \in [Tuples -> G]
  BY <1>3
<1>5. ASSUME NEW u \in Tuples, NEW v \in Tuples, f[u] = f[v]
      PROVE  u = v
  <2>1. {<<p, u[p]>> : p \in DOMAIN u} = {<<p, v[p]>> : p \in DOMAIN v}
    BY <1>5
  <2>2. \A p \in DOMAIN u : p \in DOMAIN v /\ u[p] = v[p]
    <3>1. TAKE p \in DOMAIN u
    <3>2. <<p, u[p]>> \in {<<q, v[q]>> : q \in DOMAIN v}
      BY <2>1
    <3>3. QED
      BY <3>2
  <2>3. \A p \in DOMAIN v : p \in DOMAIN u
    <3>1. TAKE p \in DOMAIN v
    <3>2. <<p, v[p]>> \in {<<q, u[q]>> : q \in DOMAIN u}
      BY <2>1
    <3>3. QED
      BY <3>2
  <2>4. DOMAIN u = DOMAIN v
    BY <2>2, <2>3
  <2>5. QED
    BY <1>3, <2>2, <2>4
<1>6. f \in Injection(Tuples, G)
  BY <1>4, <1>5 DEF Injection, IsInjective
<1>7. QED
  BY <1>2, <1>6, FS_Injection

\* A set of tuples tagged with relations is finite, and can be counted.
LEMMA TaggedFinite ==
    ASSUME NEW T \in SUBSET (Rels \X Tuples)
    PROVE  IsFiniteSet(T) /\ Cardinality(T) \in Nat
<1>1. IsFiniteSet(Rels)
  <2>1. Rels = 1 .. Len(Relations) /\ Len(Relations) \in Nat
    BY ModelAssumption DEF Rels
  <2>2. QED
    BY <2>1, FS_Interval
<1>2. IsFiniteSet(Rels \X Tuples)
  BY <1>1, TuplesFinite, FS_Product
<1>3. QED
  BY <1>2, FS_Subset, FS_CardinalityType

\* The tuples to cover are tuples.
LEMMA TargetTuplesType == TargetTuples \subseteq Rels \X Tuples
<1>1. ASSUME NEW r \in Rels, NEW S \in kSubset(Relations[r].strength, RelParams(r))
      PROVE  S \in SUBSET Params
  <2>1. S \subseteq RelParams(r)
    BY <1>1 DEF kSubset
  <2>2. QED
    BY <2>1, UsedFacts DEF RelParams
<1>2. QED
  BY <1>1 DEF TargetTuples, Tuples

\* One of the sets includes no other of them.
HasMinimal(B) == \E T \in B : \A U \in B : U \subseteq T => U = T

\* Sets of elements of a finite set have a minimal one: what holds of a set
\* whenever it holds of its proper subsets holds of all.
LEMMA MinimalSet ==
    ASSUME NEW S, IsFiniteSet(S), NEW B, B \subseteq SUBSET S, B # {}
    PROVE  HasMinimal(B)
<1>1. FiniteSubsetsOf(S) = SUBSET S
  BY FS_FiniteSubsetsOfFinite
<1>2. IsWellFoundedOn(StrictSubsetOrdering(S), FiniteSubsetsOf(S))
  BY FS_StrictSubsetOrderingWellFounded
<1>3. B \subseteq FiniteSubsetsOf(S)
  BY <1>1
<1>4. PICK T \in B : \A U \in B : ~ (<<U, T>> \in StrictSubsetOrdering(S))
  BY <1>2, <1>3, WFMin
<1>5. ASSUME NEW U \in B, U \subseteq T, U # T
      PROVE  FALSE
  <2>1. <<U, T>> \in StrictSubsetOrdering(S)
    BY <1>5 DEF StrictSubsetOrdering
  <2>2. QED
    BY <1>4, <2>1
<1>6. QED
  BY <1>5 DEF HasMinimal

-------------------------------------------------------------------------------
(* Setting values of a test *)

\* A test has a value of each parameter's domain, or none, at each position.
LEMMA TestFacts ==
    ASSUME NEW t \in PartialTests
    PROVE  /\ t \in [Params -> AllValues \cup {DontCare}]
           /\ \A p \in Params : t[p] \in Dom(p) \cup {DontCare}
BY DEF PartialTests

\* A complete test is a test.
LEMMA FullTestFacts ==
    ASSUME NEW a \in FullTests
    PROVE  /\ a \in PartialTests
           /\ a \in [Params -> AllValues]
           /\ \A p \in Params : a[p] \in Dom(p)
BY DEF FullTests, TuplesOf, PartialTests

\* A tuple has a value of each of its parameters.
LEMMA TupleFacts ==
    ASSUME NEW u \in Tuples
    PROVE  /\ DOMAIN u \subseteq Params
           /\ \A p \in DOMAIN u : u[p] \in Dom(p)
BY DEF Tuples, TuplesOf

\* The empty test, and a test with one more value or with those of a tuple, are
\* tests.
LEMMA TestTypes ==
    ASSUME NEW t \in PartialTests
    PROVE  /\ Unassigned \in PartialTests
           /\ \A p \in Params : \A v \in Dom(p) : Assign(t, p, v) \in PartialTests
           /\ \A u \in Tuples : Inject(t, u) \in PartialTests
<1>1. Unassigned \in PartialTests
  BY DEF Unassigned, PartialTests
<1>2. ASSUME NEW p \in Params, NEW v \in Dom(p)
      PROVE  Assign(t, p, v) \in PartialTests
  BY TestFacts, DomFacts DEF Assign, PartialTests
<1>3. ASSUME NEW u \in Tuples
      PROVE  Inject(t, u) \in PartialTests
  BY TestFacts, DomFacts, TupleFacts DEF Inject, PartialTests
<1>4. QED
  BY <1>1, <1>2, <1>3

\* Removing an element from a list leaves a list of the others.
LEMMA RemoveAtPosFacts ==
    ASSUME NEW S, NEW list \in Seq(S), NEW k \in DOMAIN list
    PROVE  /\ RemoveAtPos(list, k) \in Seq(S)
           /\ Len(RemoveAtPos(list, k)) = Len(list) - 1
           /\ \A j \in DOMAIN RemoveAtPos(list, k) :
                 \E i \in DOMAIN list : RemoveAtPos(list, k)[j] = list[i]
<1> DEFINE n == Len(list) - 1
           g == [j \in 1 .. n |-> IF j < k THEN list[j] ELSE list[j + 1]]
<1>1. n \in Nat /\ DOMAIN list = 1 .. Len(list) /\ Len(list) \in Nat
  OBVIOUS
<1>2. \A j \in 1 .. n : j \in DOMAIN list /\ j + 1 \in DOMAIN list
  BY <1>1
<1>3. \A i \in DOMAIN list : list[i] \in S
  OBVIOUS
<1>4. g \in [1 .. n -> S]
  BY <1>2, <1>3
<1>5. g \in Seq(S) /\ Len(g) = n /\ DOMAIN g = 1 .. n
  BY <1>1, <1>4
<1>6. RemoveAtPos(list, k) = g
  BY DEF RemoveAtPos
<1>7. QED
  BY <1>2, <1>5, <1>6

-------------------------------------------------------------------------------
(* Tests that can be completed *)

\* An allowed test can be completed: it is complete.
LEMMA AllowedExtendable ==
    ASSUME NEW allowed, NEW a \in allowed
    PROVE  Extendable(allowed, a)
BY DEF Extendable, Fits

\* A tuple that a completable test covers is allowed.
LEMMA CoveredTupleAllowed ==
    ASSUME NEW allowed, NEW t, Extendable(allowed, t), NEW u \in Tuples, Covers(t, u),
           allowed \subseteq FullTests
    PROVE  TupleAllowed(allowed, u)
<1>1. PICK a \in allowed : \A p \in DOMAIN a : t[p] = a[p] \/ t[p] = DontCare
  BY DEF Extendable, Fits
<1>2. DOMAIN a = Params
  BY FullTestFacts
<1>3. \A p \in DOMAIN u : a[p] = u[p]
  BY <1>1, <1>2, TupleFacts, DomFacts DEF Covers
<1>4. QED
  BY <1>3 DEF TupleAllowed, Covers

\* An allowed tuple alone makes a completable test.
LEMMA TupleTestExtendable ==
    ASSUME NEW allowed \in SUBSET FullTests, NEW u \in Tuples, TupleAllowed(allowed, u)
    PROVE  Extendable(allowed, Inject(Unassigned, u))
<1>1. PICK a \in allowed : \A p \in DOMAIN u : a[p] = u[p]
  BY DEF TupleAllowed, Covers
<1>2. DOMAIN a = Params
  BY FullTestFacts
<1>3. \A p \in Params :
          Inject(Unassigned, u)[p] = a[p] \/ Inject(Unassigned, u)[p] = DontCare
  BY <1>1 DEF Inject, Unassigned
<1>4. QED
  BY <1>2, <1>3 DEF Extendable, Fits

-------------------------------------------------------------------------------
(* Sums *)

\* The element a sum takes out of a set first.
FirstOf(s) == CHOOSE x \in s : TRUE

\* What the sum over s is, when that over its subsets is g.
SumFrom(f, g, s) == IF s = {} THEN 0 ELSE f[FirstOf(s)] + g[s \ {FirstOf(s)}]

\* g is the sum over every subset of T.
IsSumUpTo(f, g, T) == g = [s \in SUBSET T |-> SumFrom(f, g, s)]

\* There is no more than one sum.
LEMMA SumUnique ==
    ASSUME NEW f, NEW S, IsFiniteSet(S), NEW T \in SUBSET S, NEW U \in SUBSET S,
           NEW g, NEW h, IsSumUpTo(f, g, T), IsSumUpTo(f, h, U)
    PROVE  \A s \in SUBSET (T \cap U) : g[s] = h[s]
<1> DEFINE B == {s \in SUBSET (T \cap U) : g[s] # h[s]}
<1> SUFFICES ASSUME B # {} PROVE FALSE
  OBVIOUS
<1>1. PICK s \in B : \A w \in B : w \subseteq s => w = s
  <2>1. B \subseteq SUBSET S
    OBVIOUS
  <2> HIDE DEF B
  <2>2. QED
    BY <2>1, MinimalSet DEF HasMinimal
<1>2. s \in SUBSET T /\ s \in SUBSET U /\ g[s] # h[s]
  OBVIOUS
<1>3. g[s] = SumFrom(f, g, s) /\ h[s] = SumFrom(f, h, s)
  BY <1>2 DEF IsSumUpTo
<1>4. CASE s = {}
  BY <1>2, <1>3, <1>4 DEF SumFrom
<1>5. CASE s # {}
  <2> DEFINE w == s \ {FirstOf(s)}
  <2>1. FirstOf(s) \in s
    BY <1>5 DEF FirstOf
  <2>2. w \in SUBSET (T \cap U) /\ w # s /\ w \subseteq s
    BY <1>2, <2>1
  <2>3. g[w] = h[w]
    BY <1>1, <2>2
  <2>4. QED
    BY <1>2, <1>3, <1>5, <2>3 DEF SumFrom
<1>6. QED
  BY <1>4, <1>5

\* There is a sum over the subsets of a finite set.
LEMMA SumExists ==
    ASSUME NEW f, NEW S, IsFiniteSet(S)
    PROVE  \A T \in SUBSET S : \E g : IsSumUpTo(f, g, T)
<1> DEFINE B == {T \in SUBSET S : ~ \E g : IsSumUpTo(f, g, T)}
           h == [T \in SUBSET S |-> CHOOSE g : IsSumUpTo(f, g, T)]
<1> SUFFICES ASSUME B # {} PROVE FALSE
  OBVIOUS
<1>1. PICK T \in B : \A U \in B : U \subseteq T => U = T
  <2>1. B \subseteq SUBSET S
    OBVIOUS
  <2> HIDE DEF B
  <2>2. QED
    BY <2>1, MinimalSet DEF HasMinimal
<1>2. \A U \in SUBSET T : U # T => IsSumUpTo(f, h[U], U)
  <2>1. TAKE U \in SUBSET T
  <2>2. HAVE U # T
  <2>3. U \in SUBSET S /\ \E g : IsSumUpTo(f, g, U)
    BY <1>1, <2>2
  <2>4. QED
    BY <2>3
<1> DEFINE w(s) == s \ {FirstOf(s)}
           g == [s \in SUBSET T |-> IF s = {} THEN 0 ELSE f[FirstOf(s)] + h[w(s)][w(s)]]
<1>3. ASSUME NEW s \in SUBSET T, s # {}
      PROVE  w(s) \in SUBSET T /\ w(s) # T /\ w(s) # s
  BY <1>3 DEF FirstOf
<1> HIDE DEF h
<1>4. ASSUME NEW s \in SUBSET T, s # T
      PROVE  g[s] = h[s][s]
  <2>1. IsSumUpTo(f, h[s], s)
    BY <1>2, <1>4
  <2>2. h[s][s] = SumFrom(f, h[s], s)
    BY <2>1 DEF IsSumUpTo
  <2>3. CASE s = {}
    BY <2>2, <2>3 DEF SumFrom
  <2>4. CASE s # {}
    <3>1. w(s) \in SUBSET T /\ w(s) # T
      BY <1>3, <2>4
    <3>2. IsSumUpTo(f, h[w(s)], w(s))
      BY <1>2, <3>1
    <3>3. s \in SUBSET S /\ w(s) \in SUBSET S /\ w(s) \in SUBSET (s \cap w(s))
      BY <1>1
    <3>4. PICK W : W = w(s)
      OBVIOUS
    <3>5. IsSumUpTo(f, h[W], W) /\ W \in SUBSET S /\ W \in SUBSET (s \cap W)
      BY <3>2, <3>3, <3>4
    <3>6. \A z \in SUBSET (s \cap W) : h[s][z] = h[W][z]
      <4>1. s \in SUBSET S
        BY <3>3
      <4> HIDE DEF g, w
      <4>2. QED
        BY <2>1, <3>5, <4>1, SumUnique
    <3>7. QED
      BY <2>2, <2>4, <3>4, <3>5, <3>6 DEF SumFrom
  <2>5. QED
    BY <2>3, <2>4
<1>5. ASSUME NEW s \in SUBSET T
      PROVE  g[s] = SumFrom(f, g, s)
  <2>1. CASE s = {}
    BY <2>1 DEF SumFrom
  <2>2. CASE s # {}
    <3>1. g[w(s)] = h[w(s)][w(s)]
      BY <1>3, <1>4, <2>2
    <3>2. QED
      BY <2>2, <3>1 DEF SumFrom
  <2>3. QED
    BY <2>1, <2>2
<1>6. IsSumUpTo(f, g, T)
  BY <1>5 DEF IsSumUpTo
<1>7. QED
  BY <1>1, <1>6

\* The sum of the community modules is that sum.
LEMMA SumIsSum ==
    ASSUME NEW f, NEW S, IsFiniteSet(S), NEW T \in SUBSET S, NEW g, IsSumUpTo(f, g, S)
    PROVE  SumFunctionOnSet(f, T) = g[T]
<1> DEFINE h == CHOOSE h : IsSumUpTo(f, h, T)
<1>1. SumFunctionOnSet(f, T) = h[T]
  BY DEF SumFunctionOnSet, FoldFunctionOnSet, MapThenFoldSet, IsSumUpTo, SumFrom, FirstOf
<1>2. IsSumUpTo(f, h, T)
  BY SumExists
<1> HIDE DEF h
<1>3. QED
  BY <1>1, <1>2, SumUnique

\* The sum over a finite set, by its first element.
LEMMA SumByFirst ==
    ASSUME NEW f, NEW S, IsFiniteSet(S)
    PROVE  /\ SumFunctionOnSet(f, {}) = 0
           /\ S # {} => /\ FirstOf(S) \in S
                        /\ SumFunctionOnSet(f, S) =
                              f[FirstOf(S)] + SumFunctionOnSet(f, S \ {FirstOf(S)})
<1>1. PICK g : IsSumUpTo(f, g, S)
  BY SumExists
<1>2. ASSUME NEW T \in SUBSET S
      PROVE  SumFunctionOnSet(f, T) = g[T] /\ g[T] = SumFrom(f, g, T)
  <2>1. SumFunctionOnSet(f, T) = g[T]
    BY <1>1, SumIsSum
  <2>2. QED
    BY <1>1, <2>1 DEF IsSumUpTo
<1>3. S # {} => FirstOf(S) \in S
  BY DEF FirstOf
<1>4. QED
  BY <1>2, <1>3 DEF SumFrom

\* A sum of integers is an integer, one of natural numbers is a natural number.
LEMMA SumType ==
    ASSUME NEW f, NEW S, IsFiniteSet(S), \A x \in S : f[x] \in Int
    PROVE  /\ SumFunctionOnSet(f, S) \in Int
           /\ (\A x \in S : f[x] >= 0) => SumFunctionOnSet(f, S) >= 0
<1> DEFINE Good(T) == /\ SumFunctionOnSet(f, T) \in Int
                      /\ (\A x \in T : f[x] >= 0) => SumFunctionOnSet(f, T) >= 0
           B == {T \in SUBSET S : ~ Good(T)}
<1> SUFFICES ASSUME B # {} PROVE FALSE
  OBVIOUS
<1>1. PICK T \in B : \A U \in B : U \subseteq T => U = T
  <2>1. B \subseteq SUBSET S
    OBVIOUS
  <2> HIDE DEF B
  <2>2. QED
    BY <2>1, MinimalSet DEF HasMinimal
<1>2. IsFiniteSet(T)
  BY FS_Subset
<1>3. CASE T = {}
  <2>1. SumFunctionOnSet(f, T) = 0
    BY <1>2, <1>3, SumByFirst
  <2>2. Good(T)
    BY <1>3, <2>1
  <2>3. QED
    BY <1>1, <2>2
<1>4. CASE T # {}
  <2> DEFINE x == FirstOf(T)
             U == T \ {x}
  <2>1. x \in T /\ SumFunctionOnSet(f, T) = f[x] + SumFunctionOnSet(f, U)
    BY <1>2, <1>4, SumByFirst
  <2>2. Good(U)
    BY <1>1, <2>1
  <2>3. f[x] \in Int /\ ((\A y \in T : f[y] >= 0) => f[x] >= 0)
    BY <2>1
  <2> HIDE DEF x, B
  <2>4. Good(T)
    BY <2>1, <2>2, <2>3
  <2>5. QED
    BY <1>1, <2>4 DEF B
<1>5. QED
  BY <1>3, <1>4

\* A sum does not depend on the element that is taken out first.
LEMMA SumRemove ==
    ASSUME NEW f, NEW S, IsFiniteSet(S), \A x \in S : f[x] \in Int, NEW e \in S
    PROVE  SumFunctionOnSet(f, S) = f[e] + SumFunctionOnSet(f, S \ {e})
<1> DEFINE Good(T) == \A x \in T :
               SumFunctionOnSet(f, T) = f[x] + SumFunctionOnSet(f, T \ {x})
           B == {T \in SUBSET S : ~ Good(T)}
<1> SUFFICES ASSUME B # {} PROVE FALSE
  <2>1. Good(S)
    OBVIOUS
  <2>2. QED
    BY <2>1
<1>1. PICK T \in B : \A U \in B : U \subseteq T => U = T
  <2>1. B \subseteq SUBSET S
    OBVIOUS
  <2> HIDE DEF B
  <2>2. QED
    BY <2>1, MinimalSet DEF HasMinimal
<1>2. \A U \in SUBSET T : IsFiniteSet(U) /\ SumFunctionOnSet(f, U) \in Int
  BY FS_Subset, SumType
<1>3. PICK x \in T : SumFunctionOnSet(f, T) # f[x] + SumFunctionOnSet(f, T \ {x})
  BY <1>1
<1> DEFINE y == FirstOf(T)
<1>4. y \in T /\ SumFunctionOnSet(f, T) = f[y] + SumFunctionOnSet(f, T \ {y})
  BY <1>2, SumByFirst
<1>5. x # y
  BY <1>3, <1>4
<1>6. Good(T \ {x}) /\ Good(T \ {y})
  BY <1>1, <1>4
<1> DEFINE R == (T \ {x}) \ {y}
<1>7. R = (T \ {y}) \ {x} /\ R \in SUBSET T
  OBVIOUS
<1>8. SumFunctionOnSet(f, T \ {x}) = f[y] + SumFunctionOnSet(f, R)
  BY <1>4, <1>5, <1>6
<1>9. SumFunctionOnSet(f, T \ {y}) = f[x] + SumFunctionOnSet(f, R)
  BY <1>5, <1>6, <1>7
<1>10. f[x] \in Int /\ f[y] \in Int /\ SumFunctionOnSet(f, R) \in Int
  BY <1>2, <1>4, <1>7
<1> HIDE DEF y, R
<1>11. QED
  BY <1>3, <1>4, <1>8, <1>9, <1>10

\* Sums of equal numbers are equal, those of smaller numbers are smaller, and a
\* sum of sums is the sum of both.
LEMMA SumPointwise ==
    ASSUME NEW f, NEW g, NEW h, NEW S, IsFiniteSet(S),
           \A x \in S : f[x] \in Int /\ g[x] \in Int /\ h[x] \in Int
    PROVE  /\ (\A x \in S : f[x] = g[x])
                  => SumFunctionOnSet(f, S) = SumFunctionOnSet(g, S)
           /\ (\A x \in S : f[x] <= g[x])
                  => SumFunctionOnSet(f, S) <= SumFunctionOnSet(g, S)
           /\ (\A x \in S : h[x] = f[x] + g[x])
                  => SumFunctionOnSet(h, S) = SumFunctionOnSet(f, S) + SumFunctionOnSet(g, S)
<1> DEFINE Good(T) ==
              /\ (\A x \in T : f[x] = g[x])
                  => SumFunctionOnSet(f, T) = SumFunctionOnSet(g, T)
              /\ (\A x \in T : f[x] <= g[x])
                  => SumFunctionOnSet(f, T) <= SumFunctionOnSet(g, T)
              /\ (\A x \in T : h[x] = f[x] + g[x])
                  => SumFunctionOnSet(h, T) = SumFunctionOnSet(f, T) + SumFunctionOnSet(g, T)
           B == {T \in SUBSET S : ~ Good(T)}
<1> SUFFICES ASSUME B # {} PROVE FALSE
  OBVIOUS
<1>1. PICK T \in B : \A U \in B : U \subseteq T => U = T
  <2>1. B \subseteq SUBSET S
    OBVIOUS
  <2> HIDE DEF B
  <2>2. QED
    BY <2>1, MinimalSet DEF HasMinimal
<1>2. \A U \in SUBSET T : /\ IsFiniteSet(U)
                          /\ SumFunctionOnSet(f, U) \in Int
                          /\ SumFunctionOnSet(g, U) \in Int
                          /\ SumFunctionOnSet(h, U) \in Int
  BY FS_Subset, SumType
<1>3. CASE T = {}
  <2>1. SumFunctionOnSet(f, T) = 0 /\ SumFunctionOnSet(g, T) = 0 /\ SumFunctionOnSet(h, T) = 0
    BY <1>2, <1>3, SumByFirst
  <2>2. QED
    BY <1>1, <2>1
<1>4. CASE T # {}
  <2> DEFINE x == FirstOf(T)
             U == T \ {x}
  <2>1. /\ x \in T
        /\ SumFunctionOnSet(f, T) = f[x] + SumFunctionOnSet(f, U)
        /\ SumFunctionOnSet(g, T) = g[x] + SumFunctionOnSet(g, U)
        /\ SumFunctionOnSet(h, T) = h[x] + SumFunctionOnSet(h, U)
    BY <1>2, <1>4, SumByFirst
  <2>2. Good(U)
    BY <1>1, <2>1
  <2>3. /\ f[x] \in Int /\ g[x] \in Int /\ h[x] \in Int
        /\ SumFunctionOnSet(f, U) \in Int
        /\ SumFunctionOnSet(g, U) \in Int
        /\ SumFunctionOnSet(h, U) \in Int
    BY <1>2, <2>1
  <2> HIDE DEF x, B
  <2>4. (\A z \in T : f[z] = g[z]) => SumFunctionOnSet(f, T) = SumFunctionOnSet(g, T)
    BY <2>1, <2>2, <2>3
  <2>5. (\A z \in T : f[z] <= g[z]) => SumFunctionOnSet(f, T) <= SumFunctionOnSet(g, T)
    BY <2>1, <2>2, <2>3
  <2>6. (\A z \in T : h[z] = f[z] + g[z])
            => SumFunctionOnSet(h, T) = SumFunctionOnSet(f, T) + SumFunctionOnSet(g, T)
    BY <2>1, <2>2, <2>3
  <2>7. QED
    BY <1>1, <2>4, <2>5, <2>6 DEF B
<1>5. QED
  BY <1>3, <1>4

\* The sum over two sets that share no element.
LEMMA SumUnion ==
    ASSUME NEW f, NEW S, IsFiniteSet(S), NEW R, IsFiniteSet(R), S \cap R = {},
           \A x \in S \cup R : f[x] \in Int
    PROVE  SumFunctionOnSet(f, S \cup R) = SumFunctionOnSet(f, S) + SumFunctionOnSet(f, R)
<1> DEFINE Good(T) == SumFunctionOnSet(f, T \cup R) =
                          SumFunctionOnSet(f, T) + SumFunctionOnSet(f, R)
           B == {T \in SUBSET S : ~ Good(T)}
<1> SUFFICES ASSUME B # {} PROVE FALSE
  OBVIOUS
<1>1. PICK T \in B : \A U \in B : U \subseteq T => U = T
  <2>1. B \subseteq SUBSET S
    OBVIOUS
  <2> HIDE DEF B
  <2>2. QED
    BY <2>1, MinimalSet DEF HasMinimal
<1>2. IsFiniteSet(S \cup R)
  BY FS_Union
<1>3. \A U \in SUBSET (S \cup R) : IsFiniteSet(U) /\ SumFunctionOnSet(f, U) \in Int
  BY <1>2, FS_Subset, SumType
<1>4. CASE T = {}
  <2>1. SumFunctionOnSet(f, T \cup R) = SumFunctionOnSet(f, R) /\ SumFunctionOnSet(f, T) = 0
    <3>1. T \cup R = R
      BY <1>4
    <3>2. SumFunctionOnSet(f, {}) = 0
      BY FS_EmptySet, SumByFirst
    <3>3. QED
      BY <1>4, <3>1, <3>2
  <2>2. SumFunctionOnSet(f, R) \in Int
    BY <1>3
  <2> HIDE DEF B
  <2>3. Good(T)
    BY <2>1, <2>2
  <2>4. QED
    BY <1>1, <2>3 DEF B
<1>5. ASSUME NEW x \in T PROVE FALSE
  <2> DEFINE U == T \ {x}
  <2>1. Good(U)
    BY <1>1
  <2>2. (T \cup R) \ {x} = U \cup R /\ T \cup R \in SUBSET (S \cup R) /\ T \in SUBSET (S \cup R)
        /\ U \in SUBSET (S \cup R)
    OBVIOUS
  <2>3. SumFunctionOnSet(f, T \cup R) = f[x] + SumFunctionOnSet(f, U \cup R)
    <3>1. IsFiniteSet(T \cup R) /\ \A z \in T \cup R : f[z] \in Int
      BY <1>3, <2>2
    <3>2. SumFunctionOnSet(f, T \cup R) = f[x] + SumFunctionOnSet(f, (T \cup R) \ {x})
      BY <3>1, SumRemove
    <3>3. QED
      BY <2>2, <3>2
  <2>4. SumFunctionOnSet(f, T) = f[x] + SumFunctionOnSet(f, U)
    BY <1>3, <2>2, SumRemove
  <2>5. f[x] \in Int /\ SumFunctionOnSet(f, U) \in Int /\ SumFunctionOnSet(f, R) \in Int
    BY <1>3, <2>2
  <2> HIDE DEF U, B
  <2>6. SumFunctionOnSet(f, T \cup R) = SumFunctionOnSet(f, T) + SumFunctionOnSet(f, R)
    BY <2>1, <2>3, <2>4, <2>5
  <2>7. QED
    BY <1>1, <2>6 DEF B
<1>6. QED
  BY <1>4, <1>5

\* One member of a finite number of numbers is changed.
LEMMA SumChange ==
    ASSUME NEW f, NEW g, NEW S, IsFiniteSet(S), NEW e \in S,
           \A x \in S : f[x] \in Int /\ g[x] \in Int,
           \A x \in S \ {e} : f[x] = g[x]
    PROVE  SumFunctionOnSet(g, S) = SumFunctionOnSet(f, S) + (g[e] - f[e])
<1>1. IsFiniteSet(S \ {e})
  BY FS_Subset
<1>2. SumFunctionOnSet(g, S) = g[e] + SumFunctionOnSet(g, S \ {e})
  BY SumRemove
<1>3. SumFunctionOnSet(f, S) = f[e] + SumFunctionOnSet(f, S \ {e})
  BY SumRemove
<1>4. SumFunctionOnSet(f, S \ {e}) = SumFunctionOnSet(g, S \ {e})
  BY <1>1, SumPointwise
<1>5. SumFunctionOnSet(f, S \ {e}) \in Int /\ f[e] \in Int /\ g[e] \in Int
  BY <1>1, SumType
<1>6. QED
  BY <1>2, <1>3, <1>4, <1>5

\* A sum over fewer natural numbers is not larger.
LEMMA SumMonotone ==
    ASSUME NEW f, NEW S, IsFiniteSet(S), \A x \in S : f[x] \in Int /\ f[x] >= 0,
           NEW T \in SUBSET S
    PROVE  SumFunctionOnSet(f, T) <= SumFunctionOnSet(f, S)
<1> DEFINE R == S \ T
<1>1. IsFiniteSet(T) /\ IsFiniteSet(R)
  BY FS_Subset
<1>2. SumFunctionOnSet(f, T) \in Int /\ SumFunctionOnSet(f, R) \in Int
      /\ SumFunctionOnSet(f, R) >= 0
  BY <1>1, SumType
<1>3. SumFunctionOnSet(f, T \cup R) = SumFunctionOnSet(f, T) + SumFunctionOnSet(f, R)
  <2>1. T \cap R = {} /\ \A x \in T \cup R : f[x] \in Int
    OBVIOUS
  <2> HIDE DEF R
  <2>2. QED
    BY <1>1, <2>1, SumUnion
<1>4. T \cup R = S
  OBVIOUS
<1>5. SumFunctionOnSet(f, S) = SumFunctionOnSet(f, T) + SumFunctionOnSet(f, R)
  BY <1>3, <1>4
<1> HIDE DEF R
<1>6. QED
  BY <1>2, <1>5

\* The elements of the sets parts[x], for x in S.
Joined(parts, S) == UNION {parts[x] : x \in S}

\* How many elements sets have together that share none.
LEMMA CardinalityOfUnion ==
    ASSUME NEW c, NEW parts, NEW S, IsFiniteSet(S),
           \A x \in S : IsFiniteSet(parts[x]) /\ c[x] = Cardinality(parts[x]),
           \A x, y \in S : x # y => parts[x] \cap parts[y] = {}
    PROVE  /\ IsFiniteSet(Joined(parts, S))
           /\ Cardinality(Joined(parts, S)) = SumFunctionOnSet(c, S)
<1> DEFINE Good(T) == /\ IsFiniteSet(Joined(parts, T))
                      /\ Cardinality(Joined(parts, T)) = SumFunctionOnSet(c, T)
           B == {T \in SUBSET S : ~ Good(T)}
<1> SUFFICES ASSUME B # {} PROVE FALSE
  <2>1. Good(S)
    OBVIOUS
  <2>2. QED
    BY <2>1
<1>1. PICK T \in B : \A U \in B : U \subseteq T => U = T
  <2>1. B \subseteq SUBSET S
    OBVIOUS
  <2> HIDE DEF B
  <2>2. QED
    BY <2>1, MinimalSet DEF HasMinimal
<1>2. IsFiniteSet(T) /\ \A x \in T : c[x] \in Int
  BY FS_Subset, FS_CardinalityType
<1>3. CASE T = {}
  <2>1. Joined(parts, T) = {}
    BY <1>3 DEF Joined
  <2>2. SumFunctionOnSet(c, {}) = 0
    BY FS_EmptySet, SumByFirst
  <2>3. Good(T)
    BY <1>3, <2>1, <2>2, FS_EmptySet
  <2>4. QED
    BY <1>1, <2>3
<1>4. ASSUME NEW x \in T PROVE FALSE
  <2> DEFINE U == T \ {x}
  <2>1. Good(U)
    <3>1. U \in SUBSET S /\ U \subseteq T /\ U # T
      OBVIOUS
    <3> HIDE DEF U
    <3>2. QED
      BY <1>1, <3>1
  <2>2. Joined(parts, T) = parts[x] \cup Joined(parts, U)
    BY DEF Joined
  <2>3. parts[x] \cap Joined(parts, U) = {}
    BY DEF Joined
  <2>4. IsFiniteSet(parts[x]) /\ c[x] = Cardinality(parts[x]) /\ c[x] \in Int
    BY <1>2
  <2>5. SumFunctionOnSet(c, T) = c[x] + SumFunctionOnSet(c, U)
    BY <1>2, SumRemove
  <2> HIDE DEF U, B
  <2>6. /\ IsFiniteSet(Joined(parts, T))
        /\ Cardinality(Joined(parts, T)) = Cardinality(parts[x]) + Cardinality(Joined(parts, U))
    <3>1. IsFiniteSet(parts[x] \cup Joined(parts, U))
          /\ Cardinality(parts[x] \cup Joined(parts, U)) =
                Cardinality(parts[x]) + Cardinality(Joined(parts, U)) - Cardinality(parts[x] \cap Joined(parts, U))
      BY <2>1, <2>4, FS_Union
    <3>2. Cardinality(parts[x] \cap Joined(parts, U)) = 0
      BY <2>3, FS_EmptySet
    <3>3. Cardinality(parts[x]) \in Int /\ Cardinality(Joined(parts, U)) \in Int
      BY <2>1, <2>4, FS_CardinalityType
    <3>4. QED
      BY <2>2, <3>1, <3>2, <3>3
  <2>7. Good(T)
    BY <2>1, <2>4, <2>5, <2>6
  <2>8. QED
    BY <1>1, <2>7 DEF B
<1>5. QED
  BY <1>3, <1>4
================================================================================

------------------------ MODULE CoverageMeasurementProofs ------------------------
(***************************************************************************)
(* For every model, every set of constraints and every set of tests in     *)
(* values that are kept: a coverage measurement delivers what it promises  *)
(* (MeasurementJob), whichever way its functors mark the covered tuples,   *)
(* however they interleave, and whenever the client aborts.                *)
(***************************************************************************)
EXTENDS CoverageMeasurement, CombinatorialModelProofs, SequenceTheorems

-------------------------------------------------------------------------------
(* The inductive invariant *)

AfterPcs == {"decide", "deliver", "done"}

TypesInv ==
    /\ allowed \in ConstraintSets
    /\ clientTests \in TestSets
    /\ aborted \in BOOLEAN
    /\ pc \in {"filter", "count", "measure"} \cup AfterPcs

\* Tests s in the values of the simplified model.
Internal(s) == [n \in DOMAIN s |-> InternalTest(s[n])]

TestsInv ==
    IF pc = "filter"
    THEN tests = Internal(clientTests) /\ invalid = {}
    ELSE tests = Internal(ValidTests) /\ invalid = InvalidIndices

\* The tuples of the first n relations, and of all.
TotalUpTo(n) == SumFunctionOnSet([r \in Rels |-> NumCombinations(r)], 1 .. n)

Total == TotalUpTo(Len(Relations))

CountingInv ==
    pc \in {"filter", "count"} =>
        /\ rel \in 1 .. (Len(Relations) + 1)
        /\ pc = "filter" => rel = 1
        /\ covm = [r \in 1 .. (rel - 1) |-> NotMeasured(r)]
        /\ progress = [toProcess |-> TotalUpTo(rel - 1), processed |-> 0]

CombosOf(p) == {P \in Combos[rel] : Max(P) = p}

SeenBy(p) == CombosOf(p) \ functors[p].left

\* The tuples of the combinations S that the i-th of the tests s is the first to
\* cover.
FirstCovered(s, i, S) == CoveredBy(s, i, S) \ CoveredBy(s, i - 1, S)

Functor(C) ==
    [left    : SUBSET C,
     stopped : BOOLEAN,
     invalid : Nat,
     covered : [1 .. NumTests -> Nat],
     levels  : [DOMAIN NoLevels -> Nat]]

\* The counters of functor f are those of the combinations S.
Counts(f, S) ==
    /\ f.invalid = Cardinality(Forbidden(S))
    /\ \A i \in 1 .. NumTests : f.covered[i] = Cardinality(FirstCovered(ValidTests, i, S))
    /\ f.levels = LevelsOf(ValidTests, S)

FunctorInv(p) ==
    /\ functors[p] \in Functor(CombosOf(p))
    /\ functors[p].stopped => aborted
    /\ Counts(functors[p], SeenBy(p))

\* The functors of the relation that is measured.
FunctorsInv ==
    /\ rel \in Rels
    /\ DOMAIN functors = LastParams(rel)
    /\ \A p \in LastParams(rel) : FunctorInv(p)

\* The combinations that the functors have before them.
Left == UNION {functors[p].left : p \in DOMAIN functors}

\* The relations before n have been measured, the others are yet to be.
RelationsInv(n) ==
    /\ DOMAIN covm = Rels
    /\ \A r \in Rels :
          IF r < n
          THEN /\ IsPart(ValidTests, r, covm[r])
               /\ ~aborted => IsWhole(ValidTests, r, covm[r])
          ELSE covm[r] = NotMeasured(r)

\* An abort leaves some tuples unprocessed.
MeasuringInv ==
    pc = "measure" =>
        /\ FunctorsInv
        /\ RelationsInv(rel)
        /\ progress = [toProcess |-> Total, processed |-> progress.processed]
        /\ progress.processed \in Nat
        /\ progress.processed + Cardinality(TuplesOver(Left)) <= TotalUpTo(rel)
        /\ aborted \/ progress.processed + Cardinality(TuplesOver(Left)) = TotalUpTo(rel)

\* Everything has been measured.
Complete ==
    /\ progress.processed = Total
    /\ \A r \in Rels : IsWhole(ValidTests, r, covm[r])

MeasuredInv ==
    pc \in AfterPcs =>
        /\ DOMAIN covm = Rels
        /\ \A r \in Rels : IsPart(ValidTests, r, covm[r])
        /\ progress = [toProcess |-> Total, processed |-> progress.processed]
        /\ progress.processed \in Nat
        /\ progress.processed <= Total
        /\ pc = "decide" => Complete \/ aborted
        /\ pc # "decide" => \/ code = "COMPLETED" /\ Complete
                            \/ code = "ABORTED" /\ aborted

ResultInv ==
    /\ pc = "done" => result = [code |-> code, invalid |-> invalid, relations |-> covm]
    /\ pc # "done" => result = Pending
    /\ pc # "measure" => functors = NoFunctors

MInv ==
    /\ TypesInv
    /\ TestsInv
    /\ CountingInv
    /\ MeasuringInv
    /\ MeasuredInv
    /\ ResultInv
-------------------------------------------------------------------------------
(* Values *)

\* The values of a parameter are different values of the client.
LEMMA ClientValueFacts ==
    ASSUME NEW p \in Params
    PROVE  /\ \A x \in Dom(p) : /\ x \in Nat
                                /\ ClientValue(p, x) \in Nat
                                /\ ClientValue(p, x) \in ToSet(KeptValues[p])
           /\ \A x, y \in Dom(p) : ClientValue(p, x) = ClientValue(p, y) => x = y
           /\ \A v \in ToSet(KeptValues[p]) : \E x \in Dom(p) : v = ClientValue(p, x)
<1> DEFINE K == KeptValues[p]
           n == NumValues[p]
<1>1. K \in Seq(Nat) /\ Len(K) = n /\ n \in Nat /\ Dom(p) = 0 .. (n - 1)
  BY MeasurementAssumption, ParamsFacts DEF Dom
<1>2. \A i, j \in Dom(p) : i < j => K[i + 1] < K[j + 1]
  BY MeasurementAssumption
<1>3. DOMAIN K = 1 .. n /\ \A i \in 1 .. n : K[i] \in Nat
  BY <1>1
<1> HIDE DEF K, n
<1>4. \A x \in Dom(p) : x \in Nat /\ x + 1 \in 1 .. n /\ x + 1 \in DOMAIN K
  BY <1>1, <1>3
<1>5. \A x \in Dom(p) : ClientValue(p, x) = K[x + 1]
  BY DEF ClientValue, K
<1>6. ToSet(KeptValues[p]) = {K[i] : i \in DOMAIN K}
  BY DEF ToSet, K
<1>7. \A x \in Dom(p) : K[x + 1] \in Nat /\ K[x + 1] \in ToSet(KeptValues[p])
  BY <1>3, <1>4, <1>6
<1>8. ASSUME NEW x \in Dom(p), NEW y \in Dom(p), K[x + 1] = K[y + 1]
      PROVE  x = y
  <2>1. ~ (x < y) /\ ~ (y < x)
    BY <1>2, <1>7, <1>8
  <2>2. QED
    BY <1>4, <2>1
<1>9. ASSUME NEW i \in DOMAIN K
      PROVE  \E x \in Dom(p) : K[i] = K[x + 1]
  <2>1. i \in 1 .. n /\ n \in Nat
    BY <1>1, <1>3
  <2>2. i - 1 \in Dom(p) /\ i = (i - 1) + 1
    BY <1>1, <2>1
  <2>3. QED
    BY <2>2
<1>10. \A v \in ToSet(KeptValues[p]) : \E x \in Dom(p) : v = ClientValue(p, x)
  BY <1>5, <1>6, <1>9
<1>11. QED
  BY <1>4, <1>5, <1>7, <1>8, <1>10

\* A value that is kept, or none, at every position.
KeptTest(t) == \A p \in Params : t[p] \in ToSet(KeptValues[p]) \cup {DontCare}

\* The value of the model that stands for a value of the client stands for no
\* other.
LEMMA InternalValueFacts ==
    ASSUME NEW t, KeptTest(t), NEW p \in Params
    PROVE  /\ \A x \in Dom(p) : InternalTest(t)[p] = x <=> t[p] = ClientValue(p, x)
           /\ InternalTest(t)[p] \in Dom(p) \cup {DontCare}
           /\ InternalTest(t)[p] < 0 <=> t[p] = DontCare
           /\ InternalTest(t)[p] >= 0 <=> InternalTest(t)[p] \in Dom(p)
<1>1. InternalTest(t)[p] = InternalValue(p, t[p])
  BY DEF InternalTest
<1>2. t[p] \in ToSet(KeptValues[p]) \cup {DontCare}
  BY DEF KeptTest
<1>3. CASE t[p] = DontCare
  <2>1. InternalValue(p, t[p]) = DontCare
    BY <1>3 DEF InternalValue, DontCare
  <2>2. \A x \in Dom(p) : DontCare # x /\ DontCare # ClientValue(p, x)
    BY ClientValueFacts DEF DontCare
  <2>3. QED
    BY <1>1, <1>3, <2>1, <2>2 DEF DontCare
<1>4. CASE t[p] # DontCare
  <2>1. PICK y \in Dom(p) : t[p] = ClientValue(p, y)
    BY <1>2, <1>4, ClientValueFacts
  <2>2. t[p] \in Nat /\ y \in Nat
    BY <2>1, ClientValueFacts
  <2>3. \A x \in Dom(p) : KeptValues[p][x + 1] = t[p] <=> x = y
    BY <2>1, ClientValueFacts DEF ClientValue
  <2>4. InternalValue(p, t[p]) = y
    BY <2>2, <2>3 DEF InternalValue
  <2>5. QED
    BY <1>1, <1>4, <2>1, <2>2, <2>4, ClientValueFacts DEF DontCare
<1>5. QED
  BY <1>3, <1>4

\* A test covers a tuple of the model if its values in the model are the tuple's.
LEMMA CoversInternal ==
    ASSUME NEW t, KeptTest(t), NEW P \in SUBSET Params, NEW u \in TuplesOf(P)
    PROVE  /\ DOMAIN u = P
           /\ \A p \in P : u[p] \in Dom(p)
           /\ CoversTuple(t, u) <=> \A p \in P : InternalTest(t)[p] = u[p]
<1>1. DOMAIN u = P /\ \A p \in P : u[p] \in Dom(p)
  BY DEF TuplesOf
<1>2. QED
  BY <1>1, InternalValueFacts DEF CoversTuple

\* The tests that are kept are those that are admissible.
LEMMA ValidIsAdmissible ==
    ASSUME allowed \in SUBSET FullTests, NEW t, KeptTest(t)
    PROVE  IsValid(InternalTest(t)) <=> Admissible(t)
<1> DEFINE i == InternalTest(t)
<1>1. \A a \in allowed : a \in [Params -> AllValues] /\ \A p \in Params : a[p] \in Dom(p)
  BY FullTestFacts
<1>2. Admissible(t) <=> \E a \in allowed : \A p \in Params : i[p] < 0 \/ i[p] = a[p]
  BY <1>1, InternalValueFacts DEF Admissible
<1>3. \A p \in Params : i[p] \in Dom(p) \cup {DontCare} /\ (i[p] < 0 <=> ~ (i[p] >= 0))
  BY InternalValueFacts, DomFacts DEF DontCare
<1>4. i = [p \in Params |-> i[p]]
  BY DEF InternalTest
<1> HIDE DEF i
<1>5. ASSUME HasDontCareValue(i)
      PROVE  IsValid(i) <=> Admissible(t)
  BY <1>2, <1>3, <1>5 DEF IsValid, IsValidPartialTest
<1>6. ASSUME ~ HasDontCareValue(i)
      PROVE  IsValid(i) <=> Admissible(t)
  <2>1. \A p \in Params : ~ (i[p] < 0)
    BY <1>6 DEF HasDontCareValue
  <2>2. \A a \in allowed : (\A p \in Params : i[p] = a[p]) <=> a = i
    BY <1>1, <1>4
  <2>3. QED
    BY <1>2, <1>6, <2>1, <2>2 DEF IsValid
<1>7. QED
  BY <1>5, <1>6 DEF i

-------------------------------------------------------------------------------
(* The tests that are measured *)

\* A set of positions has an n-th one, for every n up to their number.
LEMMA PositionExists ==
    ASSUME NEW N \in Nat, NEW I \in SUBSET (1 .. N)
    PROVE  /\ IsFiniteSet(I)
           /\ Cardinality(I) \in Nat
           /\ \A n \in 1 .. Cardinality(I) :
                 \E i \in I : Cardinality({k \in I : k < i}) = n - 1
<1> DEFINE Good(T) == \A n \in 1 .. Cardinality(T) :
                          \E i \in T : Cardinality({k \in T : k < i}) = n - 1
           B == {T \in SUBSET I : ~ Good(T)}
<1>1. \A T \in SUBSET I : IsFiniteSet(T) /\ Cardinality(T) \in Nat
  <2>1. IsFiniteSet(1 .. N)
    BY FS_Interval
  <2>2. QED
    BY <2>1, FS_Subset, FS_CardinalityType
<1> SUFFICES ASSUME B # {} PROVE FALSE
  <2>1. Good(I)
    OBVIOUS
  <2>2. QED
    BY <1>1, <2>1
<1>2. PICK T \in B : \A U \in B : U \subseteq T => U = T
  <2>1. B \subseteq SUBSET I /\ IsFiniteSet(I)
    BY <1>1
  <2> HIDE DEF B
  <2>2. HasMinimal(B)
    BY <2>1, MinimalSet
  <2>3. QED
    BY <2>2 DEF HasMinimal
<1>3. T \in SUBSET I /\ ~ Good(T)
  BY <1>2
<1>4. CASE T = {}
  <2>1. Cardinality(T) = 0
    BY <1>4, FS_EmptySet
  <2>2. 1 .. Cardinality(T) = {}
    BY <2>1
  <2>3. QED
    BY <1>3, <2>2
<1>5. CASE T # {}
  <2> DEFINE m == Max(T)
             U == T \ {m}
  <2>1. m \in T /\ \A y \in T : y <= m
    <3>1. T \in SUBSET (0 .. N)
      BY <1>3
    <3>2. QED
      BY <1>5, <3>1, BoundedMax
  <2>2. Cardinality(U) = Cardinality(T) - 1 /\ Cardinality(T) \in Nat
    BY <1>1, <1>3, <2>1, FS_RemoveElement
  <2>3. Good(U)
    <3>1. U \in SUBSET I /\ U \subseteq T /\ U # T
      BY <1>3, <2>1
    <3> HIDE DEF U
    <3>2. QED
      BY <1>2, <3>1
  <2>4. \A y \in T : y \in Nat
    BY <1>3
  <2>5. {k \in T : k < m} = U
    <3> HIDE DEF m, B
    <3>1. \A k \in T : k < m <=> k # m
      BY <2>1, <2>4
    <3>2. QED
      BY <2>1, <3>1
  <2> HIDE DEF m
  <2>6. \A i \in U : {k \in T : k < i} = {k \in U : k < i}
    BY <2>1, <2>4
  <2>7. ASSUME NEW n \in 1 .. Cardinality(T)
        PROVE  \E i \in T : Cardinality({k \in T : k < i}) = n - 1
    <3>1. CASE n = Cardinality(T)
      BY <2>1, <2>2, <2>5, <3>1
    <3>2. CASE n # Cardinality(T)
      <4>1. n \in 1 .. Cardinality(U)
        BY <2>2, <3>2
      <4>2. PICK i \in U : Cardinality({k \in U : k < i}) = n - 1
        BY <2>3, <4>1
      <4>3. QED
        BY <2>6, <4>2
    <3>3. QED
      BY <3>1, <3>2
  <2>8. QED
    BY <1>3, <2>7
<1>6. QED
  BY <1>4, <1>5

\* What is at positions of a sequence is an element of it, and the tests of the
\* model are at the same positions as the client's.
LEMMA AtPositionsFacts ==
    ASSUME NEW s, NEW N \in Nat, DOMAIN s = 1 .. N, NEW I \in SUBSET (1 .. N)
    PROVE  /\ Cardinality(I) \in Nat
           /\ DOMAIN AtPositions(s, I) = 1 .. Cardinality(I)
           /\ \A n \in DOMAIN AtPositions(s, I) : \E i \in I : AtPositions(s, I)[n] = s[i]
           /\ AtPositions(Internal(s), I) = Internal(AtPositions(s, I))
<1> DEFINE at(n) == CHOOSE i \in I : Cardinality({k \in I : k < i}) = n - 1
<1>1. Cardinality(I) \in Nat /\ \A n \in 1 .. Cardinality(I) : at(n) \in I
  BY PositionExists
<1> HIDE DEF at
<1>2. /\ AtPositions(s, I) = [n \in 1 .. Cardinality(I) |-> s[at(n)]]
      /\ AtPositions(Internal(s), I) = [n \in 1 .. Cardinality(I) |-> Internal(s)[at(n)]]
  BY DEF AtPositions, at
<1>3. \A i \in I : Internal(s)[i] = InternalTest(s[i])
  BY DEF Internal
<1>4. Internal(AtPositions(s, I)) = [n \in 1 .. Cardinality(I) |-> InternalTest(s[at(n)])]
  BY <1>2 DEF Internal
<1>5. QED
  BY <1>1, <1>2, <1>3, <1>4

\* The tests to measure are tests of the client, and admissible ones.
LEMMA ValidTestsFacts ==
    ASSUME TypesInv, OnlyKeptValues
    PROVE  /\ allowed \in SUBSET FullTests
           /\ Len(ValidTests) \in Nat
           /\ DOMAIN ValidTests = 1 .. Len(ValidTests)
           /\ \A i \in DOMAIN clientTests : KeptTest(clientTests[i])
           /\ \A n \in DOMAIN ValidTests : KeptTest(ValidTests[n]) /\ Admissible(ValidTests[n])
<1> DEFINE I == DOMAIN clientTests \ InvalidIndices
<1>1. clientTests \in Seq([Params -> Nat \cup {DontCare}])
  BY MeasurementAssumption DEF TypesInv
<1>2. Len(clientTests) \in Nat /\ DOMAIN clientTests = 1 .. Len(clientTests)
  BY <1>1
<1>3. \A i \in DOMAIN clientTests : KeptTest(clientTests[i])
  BY DEF TypesInv, OnlyKeptValues, KeptTest
<1>4. I \in SUBSET (1 .. Len(clientTests)) /\ \A i \in I : Admissible(clientTests[i])
  BY <1>2 DEF InvalidIndices
<1>5. /\ ValidTests = AtPositions(clientTests, I)
      /\ Cardinality(I) \in Nat
      /\ DOMAIN ValidTests = 1 .. Cardinality(I)
      /\ \A n \in DOMAIN ValidTests : \E i \in I : ValidTests[n] = clientTests[i]
  <2>1. ValidTests = AtPositions(clientTests, I)
    BY DEF ValidTests
  <2> HIDE DEF I
  <2>2. QED
    BY <1>2, <1>4, <2>1, AtPositionsFacts
<1>6. ValidTests = [n \in 1 .. Cardinality(I) |-> ValidTests[n]]
  BY <1>5 DEF ValidTests, AtPositions
<1>7. Len(ValidTests) = Cardinality(I)
  BY <1>5, <1>6
<1>8. allowed \in SUBSET FullTests
  BY InputAssumption DEF TypesInv
<1>9. QED
  BY <1>3, <1>4, <1>5, <1>7, <1>8

-------------------------------------------------------------------------------
(* Combinations and tuples *)

\* The tuples of a combination: there is one, and there are finitely many.
LEMMA TuplesOfFacts ==
    ASSUME NEW P \in SUBSET Params
    PROVE  /\ IsFiniteSet(TuplesOf(P))
           /\ ComboSize(P) \in Nat /\ ComboSize(P) >= 1
           /\ \A u \in TuplesOf(P) : DOMAIN u = P
<1>1. TuplesOf(P) \subseteq Tuples
  BY DEF Tuples
<1>2. IsFiniteSet(TuplesOf(P))
  BY <1>1, TuplesFinite, FS_Subset
<1>3. [p \in P |-> 0] \in TuplesOf(P)
  BY DomFacts DEF TuplesOf
<1>4. ComboSize(P) \in Nat /\ ComboSize(P) # 0
  BY <1>2, <1>3, FS_CardinalityType, FS_EmptySet DEF ComboSize
<1>5. \A u \in TuplesOf(P) : DOMAIN u = P
  BY DEF TuplesOf
<1>6. QED
  BY <1>2, <1>4, <1>5

\* A relation has finitely many combinations, of parameters of which one is the
\* last.
LEMMA ComboFacts ==
    ASSUME NEW r \in Rels
    PROVE  /\ IsFiniteSet(Combos[r])
           /\ Combos[r] \subseteq SUBSET Params
           /\ \A P \in Combos[r] : /\ P \in SUBSET Params
                                   /\ Max(P) \in P
                                   /\ Max(P) \in LastParams(r)
           /\ LastParams(r) \subseteq Params
           /\ IsFiniteSet(LastParams(r))
           /\ Combos[r] = UNION {{P \in Combos[r] : Max(P) = p} : p \in LastParams(r)}
<1>1. Relations[r].strength \in Nat /\ Relations[r].strength # 0
  <2> DEFINE R == [params : Seq(Params), strength : Nat \ {0}]
  <2>1. Relations \in Seq(R) /\ r \in DOMAIN Relations
    BY ModelAssumption DEF Rels
  <2>2. Relations[r] \in R
    <3> HIDE DEF R
    <3>1. QED
      BY <2>1
  <2>3. QED
    BY <2>2
<1>2. Combos[r] = {P \in SUBSET RelParams(r) : Cardinality(P) = Relations[r].strength}
  BY DEF Combos, kSubset
<1>3. RelParams(r) \subseteq Params
  BY UsedFacts DEF RelParams
<1>4. IsFiniteSet(Params)
  BY ParamsFacts, FS_Interval
<1>5. Combos[r] \subseteq SUBSET Params
  BY <1>2, <1>3
<1>6. IsFiniteSet(Combos[r])
  BY <1>4, <1>5, FS_SUBSET, FS_Subset
<1>7. ASSUME NEW P \in Combos[r]
      PROVE  P \in SUBSET Params /\ Max(P) \in P
  <2>1. P \in SUBSET Params /\ P # {}
    BY <1>1, <1>2, <1>5, FS_EmptySet
  <2>2. P \in SUBSET (0 .. Len(NumValues)) /\ Len(NumValues) \in Nat
    BY <2>1, ParamsFacts
  <2>3. QED
    BY <2>1, <2>2, BoundedMax
<1>8. LastParams(r) \subseteq Params /\ \A P \in Combos[r] : Max(P) \in LastParams(r)
  BY <1>7 DEF LastParams
<1>9. IsFiniteSet(LastParams(r))
  BY <1>4, <1>8, FS_Subset
<1>10. Combos[r] = UNION {{P \in Combos[r] : Max(P) = p} : p \in LastParams(r)}
  BY <1>8
<1>11. QED
  BY <1>5, <1>6, <1>7, <1>8, <1>9, <1>10

\* The tuples of sets of combinations.
LEMMA TuplesOverFacts ==
    ASSUME NEW S, S \subseteq SUBSET Params
    PROVE  /\ IsFiniteSet(TuplesOver(S))
           /\ Cardinality(TuplesOver(S)) \in Nat
           /\ \A A : /\ IsFiniteSet(TuplesOver(S) \cap A)
                     /\ Cardinality(TuplesOver(S) \cap A) \in Nat
<1>1. TuplesOver(S) \subseteq Tuples
  BY DEF TuplesOver, Tuples
<1>2. IsFiniteSet(TuplesOver(S))
  BY <1>1, TuplesFinite, FS_Subset
<1>3. \A A : IsFiniteSet(TuplesOver(S) \cap A)
  BY <1>2, FS_Subset
<1>4. QED
  BY <1>2, <1>3, FS_CardinalityType

\* No tuple belongs to two combinations: those of a kind that disjoint sets of
\* combinations have together are counted by a sum.
LEMMA CountTuples ==
    ASSUME NEW A, NEW X, IsFiniteSet(X), NEW parts, NEW c,
           \A x \in X : parts[x] \subseteq SUBSET Params,
           \A x, y \in X : x # y => parts[x] \cap parts[y] = {},
           \A x \in X : c[x] = Cardinality(TuplesOver(parts[x]) \cap A)
    PROVE  Cardinality(TuplesOver(Joined(parts, X)) \cap A) = SumFunctionOnSet(c, X)
<1> DEFINE tuples == [x \in X |-> TuplesOver(parts[x]) \cap A]
<1>1. \A x \in X : IsFiniteSet(tuples[x]) /\ c[x] = Cardinality(tuples[x])
  BY TuplesOverFacts
<1>2. ASSUME NEW x \in X, NEW y \in X, x # y
      PROVE  tuples[x] \cap tuples[y] = {}
  <2>1. \A u \in tuples[x] : DOMAIN u \in parts[x]
    BY TuplesOfFacts DEF TuplesOver
  <2>2. \A u \in tuples[y] : DOMAIN u \in parts[y]
    BY TuplesOfFacts DEF TuplesOver
  <2>3. QED
    BY <1>2, <2>1, <2>2
<1>3. Joined(tuples, X) = TuplesOver(Joined(parts, X)) \cap A
  BY DEF TuplesOver, Joined
<1> HIDE DEF tuples
<1>4. Cardinality(Joined(tuples, X)) = SumFunctionOnSet(c, X)
  BY <1>1, <1>2, CardinalityOfUnion
<1>5. QED
  BY <1>3, <1>4

\* One more combination.
LEMMA CountOneMore ==
    ASSUME NEW A, NEW S, S \subseteq SUBSET Params, NEW P \in SUBSET Params, P \notin S
    PROVE  Cardinality(TuplesOver(S \cup {P}) \cap A) =
               Cardinality(TuplesOver(S) \cap A) + Cardinality(TuplesOver({P}) \cap A)
<1> DEFINE old == TuplesOver(S) \cap A
           new == TuplesOver({P}) \cap A
<1>1. TuplesOver(S \cup {P}) \cap A = old \cup new
  BY DEF TuplesOver
<1>2. \A u \in TuplesOver(S) : DOMAIN u \in S
  BY TuplesOfFacts DEF TuplesOver
<1>3. \A u \in TuplesOver({P}) : DOMAIN u = P
  BY TuplesOfFacts DEF TuplesOver
<1>4. old \cap new = {}
  BY <1>2, <1>3
<1>5. /\ IsFiniteSet(old) /\ Cardinality(old) \in Nat
      /\ IsFiniteSet(new) /\ Cardinality(new) \in Nat
  <2>1. {P} \subseteq SUBSET Params
    OBVIOUS
  <2>2. QED
    BY <2>1, TuplesOverFacts
<1> HIDE DEF old, new
<1>6. Cardinality(old \cup new) = Cardinality(old) + Cardinality(new) - Cardinality(old \cap new)
  BY <1>5, FS_Union
<1>7. Cardinality(old \cap new) = 0
  BY <1>4, FS_EmptySet
<1>8. Cardinality(old \cup new) = Cardinality(old) + Cardinality(new)
  BY <1>5, <1>6, <1>7
<1>9. QED
  BY <1>1, <1>8 DEF old, new

-------------------------------------------------------------------------------
(* What one combination shows *)

\* A set of natural numbers has a smallest element.
LEMMA MinFacts ==
    ASSUME NEW S \in SUBSET Nat, S # {}
    PROVE  Min(S) \in S /\ \A y \in S : Min(S) <= y
<1>1. PICK m \in S : \A y \in S : ~ (<<y, m>> \in OpToRel(<, Nat))
  BY WFMin, NatLessThanWellFounded
<1>2. \A y \in S : m <= y
  <2>1. TAKE y \in S
  <2>2. y \in Nat /\ m \in Nat
    OBVIOUS
  <2>3. y < m => <<y, m>> \in OpToRel(<, Nat)
    BY <2>2, Zenon DEF OpToRel
  <2>4. ~ (y < m)
    BY <1>1, <2>3, Zenon
  <2>5. QED
    BY <2>2, <2>4
<1>3. QED
  BY <1>2 DEF Min

\* The tests have been filtered.
Filtered == TypesInv /\ OnlyKeptValues /\ tests = Internal(ValidTests)

\* A test has the values of a tuple of P exactly if its client test covers it.
LEMMA FilteredTests ==
    ASSUME Filtered
    PROVE  /\ NumTests = Len(ValidTests) /\ NumTests \in Nat
           /\ DOMAIN tests = 1 .. NumTests /\ DOMAIN ValidTests = 1 .. NumTests
           /\ \A P \in SUBSET Params : \A u \in TuplesOf(P) : \A i \in 1 .. NumTests :
                 CoversTuple(ValidTests[i], u) <=> \A p \in P : tests[i][p] = u[p]
           /\ \A i \in 1 .. NumTests : \A p \in Params :
                 tests[i][p] >= 0 <=> tests[i][p] \in Dom(p)
<1>1. /\ Len(ValidTests) \in Nat /\ DOMAIN ValidTests = 1 .. Len(ValidTests)
      /\ \A n \in DOMAIN ValidTests : KeptTest(ValidTests[n])
  BY ValidTestsFacts DEF Filtered
<1>2. tests = [n \in 1 .. Len(ValidTests) |-> InternalTest(ValidTests[n])]
  BY <1>1 DEF Filtered, Internal
<1>3. NumTests = Len(ValidTests) /\ DOMAIN tests = 1 .. NumTests
  BY <1>1, <1>2 DEF NumTests
<1>4. \A i \in 1 .. NumTests : tests[i] = InternalTest(ValidTests[i])
  BY <1>2, <1>3
<1>5. ASSUME NEW P \in SUBSET Params, NEW u \in TuplesOf(P), NEW i \in 1 .. NumTests
      PROVE  CoversTuple(ValidTests[i], u) <=> \A p \in P : tests[i][p] = u[p]
  BY <1>1, <1>3, <1>4, CoversInternal
<1>6. ASSUME NEW i \in 1 .. NumTests, NEW p \in Params
      PROVE  tests[i][p] >= 0 <=> tests[i][p] \in Dom(p)
  BY <1>1, <1>3, <1>4, InternalValueFacts
<1>7. QED
  BY <1>1, <1>3, <1>5, <1>6

\* What the first tests cover of one combination, and what test i is the first to
\* cover.
LEMMA CoveredOfOne ==
    ASSUME Filtered, NEW P \in SUBSET Params
    PROVE  /\ \A n \in 0 .. NumTests :
                 CoveredBy(ValidTests, n, {P}) =
                     {u \in TuplesOf(P) : \E k \in 1 .. n : \A p \in P : tests[k][p] = u[p]}
           /\ \A i \in 1 .. NumTests :
                 FirstCovered(ValidTests, i, {P}) =
                     {u \in TuplesOf(P) :
                         /\ \A p \in P : tests[i][p] = u[p]
                         /\ \A k \in 1 .. i - 1 : ~ \A p \in P : tests[k][p] = u[p]}
<1>1. TuplesOver({P}) = TuplesOf(P)
  BY DEF TuplesOver
<1>2. NumTests \in Nat
  BY FilteredTests
<1>3. \A u \in TuplesOf(P) : \A i \in 1 .. NumTests :
          CoversTuple(ValidTests[i], u) <=> \A p \in P : tests[i][p] = u[p]
  BY FilteredTests
<1>4. ASSUME NEW n \in 0 .. NumTests
      PROVE  CoveredBy(ValidTests, n, {P}) =
                 {u \in TuplesOf(P) : \E k \in 1 .. n : \A p \in P : tests[k][p] = u[p]}
  <2>1. \A k \in 1 .. n : k \in 1 .. NumTests
    BY <1>2
  <2>2. QED
    BY <1>1, <1>3, <2>1 DEF CoveredBy
<1>5. ASSUME NEW i \in 1 .. NumTests
      PROVE  FirstCovered(ValidTests, i, {P}) =
                 {u \in TuplesOf(P) :
                     /\ \A p \in P : tests[i][p] = u[p]
                     /\ \A k \in 1 .. i - 1 : ~ \A p \in P : tests[k][p] = u[p]}
  <2> DEFINE Has(k, u) == \A p \in P : tests[k][p] = u[p]
  <2>1. i \in 0 .. NumTests /\ i - 1 \in 0 .. NumTests /\ i \in Nat
    BY <1>2
  <2>2. /\ CoveredBy(ValidTests, i, {P}) = {u \in TuplesOf(P) : \E k \in 1 .. i : Has(k, u)}
        /\ CoveredBy(ValidTests, i - 1, {P}) =
              {u \in TuplesOf(P) : \E k \in 1 .. i - 1 : Has(k, u)}
    BY <1>4, <2>1
  <2>3. \A k : k \in 1 .. i <=> k \in 1 .. i - 1 \/ k = i
    BY <2>1
  <2> HIDE DEF Has
  <2>4. FirstCovered(ValidTests, i, {P}) =
            {u \in TuplesOf(P) : Has(i, u) /\ \A k \in 1 .. i - 1 : ~ Has(k, u)}
    BY <2>2, <2>3 DEF FirstCovered
  <2>5. QED
    BY <2>4 DEF Has
<1>6. QED
  BY <1>4, <1>5

\* Conjunctions of the columns find what the tests cover,
LEMMA ColumnsAreExact ==
    ASSUME Filtered, NEW P \in SUBSET Params
    PROVE  ByTestColumns(P) =
               [marked |-> CoveredBy(ValidTests, NumTests, {P}),
                first  |-> [i \in 1 .. NumTests |->
                               Cardinality(FirstCovered(ValidTests, i, {P}))]]
<1> DEFINE Has(k, u) == \A p \in P : tests[k][p] = u[p]
           covered == {u \in TuplesOf(P) : TestsWith(u) # {}}
<1>1. NumTests \in Nat
  BY FilteredTests
<1>2. \A u \in TuplesOf(P) : TestsWith(u) = {i \in 1 .. NumTests : Has(i, u)}
  BY TuplesOfFacts DEF TestsWith
<1>3. covered = CoveredBy(ValidTests, NumTests, {P})
  <2>1. CoveredBy(ValidTests, NumTests, {P}) =
            {u \in TuplesOf(P) : \E k \in 1 .. NumTests : Has(k, u)}
    <3>1. NumTests \in 0 .. NumTests
      BY <1>1
    <3>2. QED
      BY <3>1, CoveredOfOne
  <2> HIDE DEF Has
  <2>2. QED
    BY <1>2, <2>1
<1>4. ASSUME NEW i \in 1 .. NumTests
      PROVE  {u \in covered : LowestTest(u) = i} = FirstCovered(ValidTests, i, {P})
  <2>1. FirstCovered(ValidTests, i, {P}) =
            {u \in TuplesOf(P) : Has(i, u) /\ \A k \in 1 .. i - 1 : ~ Has(k, u)}
    BY CoveredOfOne
  <2>2. ASSUME NEW u \in covered
        PROVE  LowestTest(u) = i <=> Has(i, u) /\ \A k \in 1 .. i - 1 : ~ Has(k, u)
    <3> DEFINE T == TestsWith(u)
               m == Min(T)
    <3>1. T = {k \in 1 .. NumTests : Has(k, u)} /\ T \in SUBSET Nat /\ T # {}
      BY <1>2
    <3> HIDE DEF T, Has
    <3>2. m \in T /\ \A y \in T : m <= y
      BY <3>1, MinFacts
    <3>3. LowestTest(u) = m
      BY DEF LowestTest, T
    <3> HIDE DEF m
    <3>4. ASSUME m = i
          PROVE  Has(i, u) /\ \A k \in 1 .. i - 1 : ~ Has(k, u)
      <4>1. Has(i, u)
        BY <3>1, <3>2, <3>4
      <4>2. ASSUME NEW k \in 1 .. i - 1
            PROVE  k \in 1 .. NumTests /\ ~ (m <= k)
        BY <1>1, <3>4
      <4>3. \A k \in 1 .. i - 1 : ~ Has(k, u)
        BY <3>1, <3>2, <4>2
      <4>4. QED
        BY <4>1, <4>3
    <3>5. ASSUME Has(i, u), \A k \in 1 .. i - 1 : ~ Has(k, u)
          PROVE  m = i
      <4>1. i \in T /\ m \in Nat /\ m >= 1
        BY <3>1, <3>2, <3>5
      <4>2. m <= i
        BY <3>2, <4>1
      <4>3. m \notin 1 .. i - 1
        BY <3>1, <3>2, <3>5
      <4>4. QED
        BY <4>1, <4>2, <4>3
    <3>6. QED
      BY <3>3, <3>4, <3>5
  <2>3. ASSUME NEW u \in TuplesOf(P), Has(i, u)
        PROVE  u \in covered
    BY <1>2, <2>3
  <2> HIDE DEF Has
  <2>4. QED
    BY <2>1, <2>2, <2>3
<1>5. QED
  BY <1>3, <1>4 DEF ByTestColumns

\* and so does a scan of the tests.
LEMMA ScanIsExact ==
    ASSUME Filtered, NEW P \in SUBSET Params
    PROVE  ByTestScan(P) =
               [marked |-> CoveredBy(ValidTests, NumTests, {P}),
                first  |-> [i \in 1 .. NumTests |->
                               Cardinality(FirstCovered(ValidTests, i, {P}))]]
<1> DEFINE Has(k, u) == \A p \in P : tests[k][p] = u[p]
           has(i) == \A p \in P : tests[i][p] >= 0
           new(i) == has(i) /\ \A k \in 1 .. i - 1 : ScannedTuple(k, P) # ScannedTuple(i, P)
           marked == {ScannedTuple(i, P) : i \in {k \in 1 .. NumTests : has(k)}}
<1>1. NumTests \in Nat
  BY FilteredTests
<1>2. ASSUME NEW i \in 1 .. NumTests
      PROVE  /\ \A u \in TuplesOf(P) : Has(i, u) <=> u = ScannedTuple(i, P)
             /\ has(i) <=> ScannedTuple(i, P) \in TuplesOf(P)
  <2>1. \A u \in TuplesOf(P) : u = [p \in P |-> u[p]]
    BY DEF TuplesOf
  <2>2. \A u \in TuplesOf(P) : Has(i, u) <=> u = ScannedTuple(i, P)
    BY <2>1 DEF ScannedTuple
  <2>3. \A p \in P : tests[i][p] >= 0 <=> tests[i][p] \in Dom(p)
    BY FilteredTests
  <2>4. ScannedTuple(i, P) \in TuplesOf(P) <=> \A p \in P : tests[i][p] \in Dom(p)
    BY DomFacts DEF ScannedTuple, TuplesOf
  <2>5. QED
    BY <2>2, <2>3, <2>4
<1> HIDE DEF Has, has
<1>3. marked = CoveredBy(ValidTests, NumTests, {P})
  <2>1. CoveredBy(ValidTests, NumTests, {P}) =
            {u \in TuplesOf(P) : \E k \in 1 .. NumTests : Has(k, u)}
    <3>1. NumTests \in 0 .. NumTests
      BY <1>1
    <3>2. QED
      BY <3>1, CoveredOfOne DEF Has
  <2>2. \A u : u \in marked <=> \E k \in 1 .. NumTests : has(k) /\ u = ScannedTuple(k, P)
    OBVIOUS
  <2>3. QED
    BY <1>2, <2>1, <2>2
<1>4. ASSUME NEW i \in 1 .. NumTests
      PROVE  Cardinality(FirstCovered(ValidTests, i, {P})) = IF new(i) THEN 1 ELSE 0
  <2>1. FirstCovered(ValidTests, i, {P}) =
            {u \in TuplesOf(P) : Has(i, u) /\ \A k \in 1 .. i - 1 : ~ Has(k, u)}
    BY CoveredOfOne DEF Has
  <2>2. \A k \in 1 .. i - 1 : k \in 1 .. NumTests
    BY <1>1
  <2>3. CASE new(i)
    <3>1. ScannedTuple(i, P) \in TuplesOf(P)
      BY <1>2, <2>3
    <3>2. FirstCovered(ValidTests, i, {P}) = {ScannedTuple(i, P)}
      BY <1>2, <2>1, <2>2, <2>3, <3>1
    <3>3. QED
      BY <2>3, <3>2, FS_Singleton
  <2>4. CASE ~ new(i)
    <3>1. FirstCovered(ValidTests, i, {P}) = {}
      BY <1>2, <2>1, <2>2, <2>4
    <3>2. QED
      BY <2>4, <3>1, FS_EmptySet
  <2>5. QED
    BY <2>3, <2>4
<1>5. ByTestScan(P) = [marked |-> marked,
                       first |-> [i \in 1 .. NumTests |-> IF new(i) THEN 1 ELSE 0]]
  BY DEF ByTestScan, has
<1> HIDE DEF marked, new
<1>6. QED
  BY <1>3, <1>4, <1>5

\* Whichever way the functor chooses, it marks exactly what the tests cover.
LEMMA MarkIsExact ==
    ASSUME Filtered, NEW P \in SUBSET Params
    PROVE  /\ MarkCoveredTuples(P).marked = CoveredBy(ValidTests, NumTests, {P})
           /\ \A i \in 1 .. NumTests :
                 MarkCoveredTuples(P).first[i] = Cardinality(FirstCovered(ValidTests, i, {P}))
<1>1. MarkCoveredTuples(P) =
          [marked |-> CoveredBy(ValidTests, NumTests, {P}),
           first  |-> [i \in 1 .. NumTests |-> Cardinality(FirstCovered(ValidTests, i, {P}))]]
  <2>1. MarkCoveredTuples(P) = ByTestColumns(P) \/ MarkCoveredTuples(P) = ByTestScan(P)
    BY DEF MarkCoveredTuples
  <2>2. QED
    BY <2>1, ColumnsAreExact, ScanIsExact
<1>2. QED
  BY <1>1

\* The tests that are measured are admissible: what they cover is allowed, and what
\* the functor asks the constraint handler about is all that may be forbidden.
LEMMA InvalidIsForbidden ==
    ASSUME Filtered, NEW P \in SUBSET Params
    PROVE  InvalidTuples(P, MarkCoveredTuples(P).marked) = Forbidden({P})
<1>1. MarkCoveredTuples(P).marked = CoveredBy(ValidTests, NumTests, {P})
  BY MarkIsExact
<1>2. TuplesOver({P}) = TuplesOf(P)
  BY DEF TuplesOver
<1>3. ASSUME NEW u \in CoveredBy(ValidTests, NumTests, {P})
      PROVE  TupleAllowed(allowed, u)
  <2>1. PICK k \in 1 .. NumTests : CoversTuple(ValidTests[k], u)
    BY DEF CoveredBy
  <2>2. u \in TuplesOf(P) /\ DOMAIN u = P /\ \A p \in P : u[p] \in Dom(p)
    BY <1>2, TuplesOfFacts DEF CoveredBy, TuplesOf
  <2>3. \A p \in P : ValidTests[k][p] = ClientValue(p, u[p])
    BY <2>1, <2>2 DEF CoversTuple
  <2>4. k \in DOMAIN ValidTests /\ Admissible(ValidTests[k]) /\ allowed \in SUBSET FullTests
    BY FilteredTests, ValidTestsFacts DEF Filtered
  <2>5. PICK a \in allowed : \A p \in Params : \/ ValidTests[k][p] = DontCare
                                               \/ ValidTests[k][p] = ClientValue(p, a[p])
    BY <2>4 DEF Admissible
  <2>6. \A p \in Params : a[p] \in Dom(p)
    BY <2>4, FullTestFacts
  <2>7. ASSUME NEW p \in P PROVE a[p] = u[p]
    <3>1. ClientValue(p, u[p]) # DontCare
      BY <2>2, ClientValueFacts DEF DontCare
    <3>2. ClientValue(p, u[p]) = ClientValue(p, a[p])
      BY <2>3, <2>5, <3>1
    <3>3. QED
      BY <2>2, <2>6, <3>2, ClientValueFacts
  <2>8. QED
    BY <2>2, <2>7 DEF TupleAllowed, Covers
<1>4. QED
  BY <1>1, <1>2, <1>3 DEF InvalidTuples, Forbidden

\* The level of a combination is the highest whose share of the tuples is reached.
LEMMA LevelIsFloor ==
    ASSUME NEW done \in Nat, NEW size \in Nat, size >= 1, NEW l \in Nat
    PROVE  l <= CoverageLevel(done, size)
               <=> (NUM_DIFFERENTIATED_COVERAGE_LEVELS - 1) * done >= l * size
<1> DEFINE a == (NUM_DIFFERENTIATED_COVERAGE_LEVELS - 1) * done
           q == a \div size
<1>1. a \in Nat
  BY DEF NUM_DIFFERENTIATED_COVERAGE_LEVELS
<1> HIDE DEF a
<1>2. q \in Int /\ size * q <= a /\ a < size * q + size
  BY <1>1, Z3
<1> HIDE DEF q
<1>3. l <= q => l * size <= size * q
  BY <1>2, Z3
<1>4. q + 1 <= l => size * q + size <= l * size
  <2> SUFFICES ASSUME q + 1 <= l PROVE size * q + size <= l * size
    OBVIOUS
  <2>1. PICK d \in Nat : l = q + 1 + d
    <3>1. l - (q + 1) \in Nat /\ l = q + 1 + (l - (q + 1))
      BY <1>2
    <3>2. QED
      BY <3>1
  <2>2. l * size = size * q + size + d * size /\ d * size >= 0
    BY <1>2, <2>1, Z3
  <2>3. QED
    BY <1>2, <2>2, Z3
<1>5. CoverageLevel(done, size) = q
  BY DEF CoverageLevel, a, q
<1>6. l * size \in Int /\ size * q \in Int
  BY <1>2
<1>7. QED
  BY <1>1, <1>2, <1>3, <1>4, <1>5, <1>6 DEF a

-------------------------------------------------------------------------------
(* The order of the combinations *)

\* Two combinations differ, and the last parameter in which they do is one that
\* only one of them has.
LEMMA LastDifference ==
    ASSUME NEW P \in SUBSET Params, NEW Q \in SUBSET Params, P # Q
    PROVE  \E d \in Params :
              /\ d \in P <=> d \notin Q
              /\ \A q \in Params : d < q => (q \in P <=> q \in Q)
              /\ VisitedBefore(P, Q) <=> d \in P
              /\ VisitedBefore(Q, P) <=> d \in Q
<1> DEFINE D == (P \cup Q) \ (P \cap Q)
           d == Max(D)
<1>1. D # {} /\ D \in SUBSET (0 .. Len(NumValues)) /\ Len(NumValues) \in Nat
  <2>1. D # {} /\ D \subseteq Params
    OBVIOUS
  <2>2. Params \subseteq 0 .. Len(NumValues) /\ Len(NumValues) \in Nat
    BY ParamsFacts
  <2> HIDE DEF D
  <2>3. QED
    BY <2>1, <2>2
<1>2. (Q \cup P) \ (Q \cap P) = D
  OBVIOUS
<1>3. (VisitedBefore(P, Q) <=> d \in P) /\ (VisitedBefore(Q, P) <=> d \in Q)
  BY <1>2 DEF VisitedBefore
<1>4. d \in D /\ \A y \in D : y <= d
  <2> HIDE DEF D
  <2>1. QED
    BY <1>1, BoundedMax
<1> HIDE DEF d
<1>5. d \in Params /\ (d \in P <=> d \notin Q)
  BY <1>4
<1>6. ASSUME NEW q \in Params, d < q
      PROVE  q \in P <=> q \in Q
  <2>1. d \in Nat /\ q \in Nat
    BY <1>5, ParamsFacts
  <2>2. q \notin D
    <3> HIDE DEF D
    <3>1. QED
      BY <1>4, <1>6, <2>1
  <2>3. QED
    BY <2>2
<1>7. QED
  BY <1>3, <1>5, <1>6

\* The order in which combinations are visited is transitive.
LEMMA VisitingIsTransitive ==
    ASSUME NEW P \in SUBSET Params, NEW Q \in SUBSET Params, NEW R \in SUBSET Params,
           P # Q, Q # R, VisitedBefore(P, Q), VisitedBefore(Q, R)
    PROVE  P # R /\ VisitedBefore(P, R)
<1>1. PICK a \in Params : /\ a \in P /\ a \notin Q
                          /\ \A q \in Params : a < q => (q \in P <=> q \in Q)
                          /\ ~ VisitedBefore(Q, P)
  <2>1. PICK a \in Params : /\ a \in P <=> a \notin Q
                            /\ \A q \in Params : a < q => (q \in P <=> q \in Q)
                            /\ VisitedBefore(P, Q) <=> a \in P
                            /\ VisitedBefore(Q, P) <=> a \in Q
    BY LastDifference
  <2>2. QED
    BY <2>1
<1>2. PICK b \in Params : /\ b \in Q /\ b \notin R
                          /\ \A q \in Params : b < q => (q \in Q <=> q \in R)
  <2>1. PICK b \in Params : /\ b \in Q <=> b \notin R
                            /\ \A q \in Params : b < q => (q \in Q <=> q \in R)
                            /\ VisitedBefore(Q, R) <=> b \in Q
    BY LastDifference
  <2>2. QED
    BY <2>1
<1>3. P # R
  BY <1>1
<1>4. PICK d \in Params : /\ d \in P <=> d \notin R
                          /\ \A q \in Params : d < q => (q \in P <=> q \in R)
                          /\ VisitedBefore(P, R) <=> d \in P
  BY <1>3, LastDifference
<1>5. a \in Int /\ b \in Int /\ d \in Int
  BY ParamsFacts
<1>6. d \in P
  <2> SUFFICES ASSUME d \notin P, d \in R PROVE FALSE
    BY <1>4
  <2>1. ~ (a < d)
    <3>1. SUFFICES ASSUME a < d PROVE FALSE
      OBVIOUS
    <3>2. d \notin Q
      BY <1>1, <3>1
    <3>3. ~ (b < d) /\ b # d
      BY <1>2, <3>2
    <3>4. a < b
      BY <1>5, <3>1, <3>3
    <3>5. b \in P /\ d < b
      BY <1>1, <1>2, <1>5, <3>3, <3>4
    <3>6. QED
      BY <1>2, <1>4, <3>5
  <2>2. a # d
    BY <1>1
  <2>3. d < a
    BY <1>5, <2>1, <2>2
  <2>4. a \in R
    BY <1>1, <1>4, <2>3
  <2>5. ~ (b < a) /\ a # b
    BY <1>1, <1>2, <2>4
  <2>6. a < b
    BY <1>5, <2>5
  <2>7. b \in P /\ d < b
    BY <1>1, <1>2, <1>5, <2>3, <2>6
  <2>8. QED
    BY <1>2, <1>4, <2>7
<1>7. QED
  BY <1>3, <1>4, <1>6

\* The functor has a next combination as long as it has any.
LEMMA NextComboExists ==
    ASSUME NEW left, left \subseteq SUBSET Params, IsFiniteSet(left), left # {}
    PROVE  NextCombo(left) \in left
<1> DEFINE IsNext(P, T) == P \in T /\ \A Q \in T \ {P} : VisitedBefore(P, Q)
           B == {T \in SUBSET left : T # {} /\ ~ \E P : IsNext(P, T)}
<1>1. B = {}
  <2> SUFFICES ASSUME B # {} PROVE FALSE
    OBVIOUS
  <2>1. PICK T \in B : \A U \in B : U \subseteq T => U = T
    <3>1. B \subseteq SUBSET left
      OBVIOUS
    <3> HIDE DEF B
    <3>2. QED
      BY <3>1, MinimalSet DEF HasMinimal
  <2>2. PICK P \in T : TRUE
    BY <2>1
  <2> DEFINE U == T \ {P}
  <2>3. T \subseteq left /\ ~ \E Q : IsNext(Q, T)
    BY <2>1
  <2>4. CASE U = {}
    <3>1. IsNext(P, T)
      BY <2>4
    <3>2. QED
      BY <2>3, <3>1
  <2>5. CASE U # {}
    <3>1. PICK Q : IsNext(Q, U)
      <4>1. U \in SUBSET left /\ U \subseteq T /\ U # T
        BY <2>3
      <4> HIDE DEF U, IsNext
      <4>2. U \notin B
        BY <2>1, <4>1
      <4>3. QED
        BY <2>5, <4>1, <4>2 DEF B
    <3>2. Q \in T /\ P # Q /\ P \in SUBSET Params /\ Q \in SUBSET Params
      BY <2>3, <3>1
    <3>3. CASE VisitedBefore(Q, P)
      <4>1. IsNext(Q, T)
        BY <3>1, <3>2, <3>3
      <4>2. QED
        BY <2>3, <4>1
    <3>4. CASE ~ VisitedBefore(Q, P)
      <4>1. VisitedBefore(P, Q)
        BY <3>2, <3>4, LastDifference
      <4>2. ASSUME NEW R \in T \ {P}
            PROVE  VisitedBefore(P, R)
        <5>1. CASE R = Q
          BY <4>1, <5>1
        <5>2. CASE R # Q
          <6>1. VisitedBefore(Q, R)
            BY <3>1, <5>2
          <6>2. R \in SUBSET Params
            BY <2>3
          <6>3. QED
            BY <3>2, <4>1, <5>2, <6>1, <6>2, VisitingIsTransitive
        <5>3. QED
          BY <5>1, <5>2
      <4>3. IsNext(P, T)
        BY <4>2
      <4>4. QED
        BY <2>3, <4>3
    <3>5. QED
      BY <3>3, <3>4
  <2>6. QED
    BY <2>4, <2>5
<1>2. \E P : IsNext(P, left)
  <2>1. left \in SUBSET left /\ left \notin B
    BY <1>1
  <2> HIDE DEF IsNext
  <2>2. QED
    BY <2>1
<1>3. \E P \in left : \A Q \in left \ {P} : VisitedBefore(P, Q)
  BY <1>2
<1>4. QED
  BY <1>3, Zenon DEF NextCombo

-------------------------------------------------------------------------------
(* What the combinations show together *)

\* The tuples no test may have, those the first n tests cover, and those test i
\* is the first to cover.
ForbiddenTuples == {u \in Tuples : ~ TupleAllowed(allowed, u)}

CoveredTuples(s, n) == {u \in Tuples : \E k \in 1 .. n : CoversTuple(s[k], u)}

FirstTuples(s, i) == CoveredTuples(s, i) \ CoveredTuples(s, i - 1)

LEMMA KindsOfTuples ==
    ASSUME NEW S, S \subseteq SUBSET Params, NEW s
    PROVE  /\ Forbidden(S) = TuplesOver(S) \cap ForbiddenTuples
           /\ \A n : CoveredBy(s, n, S) = TuplesOver(S) \cap CoveredTuples(s, n)
           /\ \A i : FirstCovered(s, i, S) = TuplesOver(S) \cap FirstTuples(s, i)
<1>1. TuplesOver(S) \subseteq Tuples
  BY DEF TuplesOver, Tuples
<1>2. Forbidden(S) = TuplesOver(S) \cap ForbiddenTuples
  BY <1>1 DEF Forbidden, ForbiddenTuples
<1>3. \A n : CoveredBy(s, n, S) = TuplesOver(S) \cap CoveredTuples(s, n)
  BY <1>1 DEF CoveredBy, CoveredTuples
<1>4. \A i : FirstCovered(s, i, S) = TuplesOver(S) \cap FirstTuples(s, i)
  BY <1>3 DEF FirstCovered, FirstTuples
<1>5. QED
  BY <1>2, <1>3, <1>4

\* A combination is covered to level l by the tests s.
Reaches(s, P, l) ==
    (NUM_DIFFERENTIATED_COVERAGE_LEVELS - 1) * Cardinality(Settled(s, {P}))
        >= l * Cardinality(TuplesOf(P))

LEMMA LevelsByReach ==
    ASSUME NEW s, NEW S
    PROVE  LevelsOf(s, S) =
               [l \in DOMAIN NoLevels |-> Cardinality({P \in S : Reaches(s, P, l)})]
<1> DEFINE done == [P \in S |-> Cardinality(Settled(s, {P}))]
           reaches(P, l) == (NUM_DIFFERENTIATED_COVERAGE_LEVELS - 1) * done[P]
                                >= l * Cardinality(TuplesOf(P))
<1>1. ASSUME NEW l \in DOMAIN NoLevels
      PROVE  {P \in S : reaches(P, l)} = {P \in S : Reaches(s, P, l)}
  BY DEF Reaches
<1>2. LevelsOf(s, S) = [l \in DOMAIN NoLevels |-> Cardinality({P \in S : reaches(P, l)})]
  BY DEF LevelsOf, NoLevels
<1> HIDE DEF reaches
<1>3. QED
  BY <1>1, <1>2

\* The level a functor computes is reached, and no higher one is.
LEMMA LevelIsReached ==
    ASSUME Filtered, NEW P \in SUBSET Params, NEW l \in Nat
    PROVE  LET mark == MarkCoveredTuples(P)
               done == Cardinality(mark.marked \cup InvalidTuples(P, mark.marked))
           IN l <= CoverageLevel(done, ComboSize(P)) <=> Reaches(ValidTests, P, l)
<1> DEFINE mark == MarkCoveredTuples(P)
           settled == mark.marked \cup InvalidTuples(P, mark.marked)
<1>1. settled = Settled(ValidTests, {P})
  BY MarkIsExact, InvalidIsForbidden, FilteredTests DEF Settled
<1>2. Settled(ValidTests, {P}) \subseteq TuplesOver({P})
  BY DEF Settled, Forbidden, CoveredBy
<1>3. Cardinality(Settled(ValidTests, {P})) \in Nat
  <2>1. IsFiniteSet(TuplesOver({P}))
    <3>1. {P} \subseteq SUBSET Params
      OBVIOUS
    <3>2. QED
      BY <3>1, TuplesOverFacts
  <2>2. QED
    BY <1>2, <2>1, FS_Subset, FS_CardinalityType
<1>4. ComboSize(P) \in Nat /\ ComboSize(P) >= 1
  BY TuplesOfFacts
<1> HIDE DEF settled
<1>5. l <= CoverageLevel(Cardinality(settled), ComboSize(P)) <=> Reaches(ValidTests, P, l)
  BY <1>1, <1>3, <1>4, LevelIsFloor DEF Reaches, ComboSize
<1>6. QED
  BY <1>5 DEF settled

\* Nothing has been seen of no combination.
LEMMA NothingSeen ==
    ASSUME NEW s
    PROVE  /\ Forbidden({}) = {} /\ TuplesOver({}) = {}
           /\ \A n : CoveredBy(s, n, {}) = {}
           /\ \A i : FirstCovered(s, i, {}) = {}
           /\ LevelsOf(s, {}) = NoLevels
<1>1. TuplesOver({}) = {}
  BY DEF TuplesOver
<1>2. LevelsOf(s, {}) = [l \in DOMAIN NoLevels |-> 0]
  <2>1. \A l : {P \in {} : Reaches(s, P, l)} = {}
    OBVIOUS
  <2>2. QED
    BY <2>1, LevelsByReach, FS_EmptySet
<1>3. QED
  BY <1>1, <1>2 DEF Forbidden, CoveredBy, FirstCovered, NoLevels

\* A functor that has visited one more combination has the counters of one more.
LEMMA VisitedCounts ==
    ASSUME Filtered, NEW P \in SUBSET Params, NEW S, S \subseteq SUBSET Params,
           IsFiniteSet(S), P \notin S, NEW C, NEW f \in Functor(C), Counts(f, S),
           aborted \in BOOLEAN
    PROVE  /\ Visited(f, P) \in Functor(C)
           /\ Visited(f, P).left = f.left \ {P}
           /\ Visited(f, P).stopped = aborted
           /\ Counts(Visited(f, P), S \cup {P})
<1> DEFINE mark == MarkCoveredTuples(P)
           forbidden == InvalidTuples(P, mark.marked)
           level == CoverageLevel(Cardinality(mark.marked \cup forbidden), ComboSize(P))
           one(l) == IF l <= level THEN 1 ELSE 0
           g == [left    |-> f.left \ {P},
                 stopped |-> aborted,
                 invalid |-> f.invalid + Cardinality(forbidden),
                 covered |-> [i \in 1 .. NumTests |-> f.covered[i] + mark.first[i]],
                 levels  |-> [l \in DOMAIN f.levels |-> f.levels[l] + one(l)]]
<1>1. Visited(f, P) = g
  BY DEF Visited
<1>2. S \cup {P} \subseteq SUBSET Params /\ {P} \subseteq SUBSET Params
  OBVIOUS
<1>3. /\ DOMAIN f.levels = DOMAIN NoLevels /\ DOMAIN NoLevels \subseteq Nat
      /\ f.left \in SUBSET C /\ f.invalid \in Nat
      /\ \A i \in 1 .. NumTests : f.covered[i] \in Nat
      /\ \A l \in DOMAIN NoLevels : f.levels[l] \in Nat
  <2>1. DOMAIN NoLevels \subseteq Nat
    BY DEF NoLevels, NUM_DIFFERENTIATED_COVERAGE_LEVELS
  <2>2. /\ f.left \in SUBSET C /\ f.invalid \in Nat
        /\ f.covered \in [1 .. NumTests -> Nat] /\ f.levels \in [DOMAIN NoLevels -> Nat]
    BY DEF Functor
  <2>3. QED
    BY <2>1, <2>2
<1>4. /\ Cardinality(forbidden) \in Nat
      /\ f.invalid + Cardinality(forbidden) = Cardinality(Forbidden(S \cup {P}))
  <2>1. forbidden = TuplesOver({P}) \cap ForbiddenTuples
    BY <1>2, InvalidIsForbidden, KindsOfTuples
  <2>2. f.invalid = Cardinality(TuplesOver(S) \cap ForbiddenTuples)
    BY KindsOfTuples DEF Counts
  <2>3. Forbidden(S \cup {P}) = TuplesOver(S \cup {P}) \cap ForbiddenTuples
    BY <1>2, KindsOfTuples
  <2>4. Cardinality(TuplesOver({P}) \cap ForbiddenTuples) \in Nat
    BY <1>2, TuplesOverFacts
  <2>5. Cardinality(TuplesOver(S \cup {P}) \cap ForbiddenTuples) =
            Cardinality(TuplesOver(S) \cap ForbiddenTuples)
                + Cardinality(TuplesOver({P}) \cap ForbiddenTuples)
    BY CountOneMore
  <2> HIDE DEF forbidden
  <2>6. QED
    BY <2>1, <2>2, <2>3, <2>4, <2>5
<1>5. ASSUME NEW i \in 1 .. NumTests
      PROVE  /\ mark.first[i] \in Nat
             /\ f.covered[i] + mark.first[i]
                    = Cardinality(FirstCovered(ValidTests, i, S \cup {P}))
  <2> DEFINE A == FirstTuples(ValidTests, i)
  <2>1. mark.first[i] = Cardinality(TuplesOver({P}) \cap A)
    BY <1>2, MarkIsExact, KindsOfTuples
  <2>2. f.covered[i] = Cardinality(TuplesOver(S) \cap A)
    BY KindsOfTuples DEF Counts
  <2>3. FirstCovered(ValidTests, i, S \cup {P}) = TuplesOver(S \cup {P}) \cap A
    BY <1>2, KindsOfTuples
  <2>4. Cardinality(TuplesOver({P}) \cap A) \in Nat
    BY <1>2, TuplesOverFacts
  <2>5. Cardinality(TuplesOver(S \cup {P}) \cap A) =
            Cardinality(TuplesOver(S) \cap A) + Cardinality(TuplesOver({P}) \cap A)
    <3> HIDE DEF A
    <3>1. QED
      BY CountOneMore
  <2> HIDE DEF A, mark
  <2>6. QED
    BY <2>1, <2>2, <2>3, <2>4, <2>5
<1>6. ASSUME NEW l \in DOMAIN NoLevels
      PROVE  f.levels[l] + one(l) = Cardinality({Q \in S \cup {P} : Reaches(ValidTests, Q, l)})
  <2> DEFINE R == {Q \in S : Reaches(ValidTests, Q, l)}
             T == {Q \in S \cup {P} : Reaches(ValidTests, Q, l)}
  <2>1. l <= level <=> Reaches(ValidTests, P, l)
    BY <1>3, LevelIsReached
  <2>2. f.levels[l] = Cardinality(R)
    BY LevelsByReach DEF Counts
  <2>3. IsFiniteSet(R) /\ P \notin R
    BY FS_Subset
  <2> HIDE DEF level
  <2>4. ASSUME l <= level
        PROVE  f.levels[l] + one(l) = Cardinality(T)
    <3>1. T = R \cup {P}
      BY <2>1, <2>4
    <3> HIDE DEF R
    <3>2. Cardinality(R \cup {P}) = Cardinality(R) + 1
      BY <2>3, FS_AddElement
    <3>3. QED
      BY <2>2, <2>4, <3>1, <3>2
  <2>5. ASSUME ~ (l <= level)
        PROVE  f.levels[l] + one(l) = Cardinality(T)
    <3>1. T = R
      BY <2>1, <2>5
    <3>2. Cardinality(R) \in Nat
      BY <2>3, FS_CardinalityType
    <3> HIDE DEF R, T
    <3>3. QED
      BY <2>2, <2>5, <3>1, <3>2
  <2> HIDE DEF one, T
  <2>6. f.levels[l] + one(l) = Cardinality(T)
    BY <2>4, <2>5
  <2>7. QED
    BY <2>6 DEF T
<1> HIDE DEF mark, forbidden, level
<1>7. g \in Functor(C)
  <2>1. \A l \in DOMAIN NoLevels : one(l) \in Nat
    OBVIOUS
  <2> HIDE DEF one
  <2>2. g.levels \in [DOMAIN NoLevels -> Nat]
    BY <1>3, <2>1
  <2>3. g.covered \in [1 .. NumTests -> Nat]
    BY <1>3, <1>5
  <2>4. QED
    BY <1>3, <1>4, <2>2, <2>3 DEF Functor
<1>8. g.levels = LevelsOf(ValidTests, S \cup {P})
  <2> HIDE DEF one
  <2>1. g.levels = [l \in DOMAIN NoLevels |-> f.levels[l] + one(l)]
    BY <1>3
  <2>2. QED
    BY <1>6, <2>1, LevelsByReach
<1>9. Counts(g, S \cup {P})
  BY <1>4, <1>5, <1>8 DEF Counts
<1>10. QED
  BY <1>1, <1>7, <1>9

-------------------------------------------------------------------------------
(* What is summed up *)

\* The tuples of a relation are those of its combinations.
LEMMA CombinationsCounted ==
    ASSUME NEW r \in Rels
    PROVE  /\ NumCombinations(r) = Cardinality(TuplesOver(Combos[r]))
           /\ NumCombinations(r) \in Nat
<1> DEFINE C == Combos[r]
           parts == [P \in C |-> {P}]
           c == [P \in C |-> ComboSize(P)]
<1>1. IsFiniteSet(C) /\ C \subseteq SUBSET Params
  BY ComboFacts
<1> HIDE DEF C
<1>2. \A P \in C : parts[P] \subseteq SUBSET Params
  BY <1>1
<1>3. \A P, Q \in C : P # Q => parts[P] \cap parts[Q] = {}
  OBVIOUS
<1>4. \A P \in C : c[P] = Cardinality(TuplesOver(parts[P]) \cap Tuples)
  <2>1. TAKE P \in C
  <2>2. TuplesOver({P}) \cap Tuples = TuplesOf(P)
    BY <1>1 DEF TuplesOver, Tuples
  <2>3. QED
    BY <2>2 DEF ComboSize
<1>5. Joined(parts, C) = C
  BY DEF Joined
<1>6. TuplesOver(C) \cap Tuples = TuplesOver(C)
  BY <1>1 DEF TuplesOver, Tuples
<1>7. NumCombinations(r) = SumFunctionOnSet(c, C)
  BY DEF NumCombinations, SumFunction, C
<1> HIDE DEF parts, c
<1>8. Cardinality(TuplesOver(Joined(parts, C)) \cap Tuples) = SumFunctionOnSet(c, C)
  BY <1>1, <1>2, <1>3, <1>4, CountTuples
<1>9. Cardinality(TuplesOver(C)) = NumCombinations(r)
  BY <1>5, <1>6, <1>7, <1>8
<1>10. QED
  BY <1>1, <1>9, TuplesOverFacts DEF C

\* The tuples of the first relations add up.
LEMMA Totals ==
    /\ Rels = 1 .. Len(Relations) /\ Len(Relations) \in Nat
    /\ TotalUpTo(0) = 0
    /\ \A n \in 0 .. Len(Relations) : TotalUpTo(n) \in Nat /\ TotalUpTo(n) <= Total
    /\ \A r \in Rels : TotalUpTo(r) = TotalUpTo(r - 1) + NumCombinations(r)
<1> DEFINE c == [r \in Rels |-> NumCombinations(r)]
<1>1. Rels = 1 .. Len(Relations) /\ Len(Relations) \in Nat
  BY ModelAssumption DEF Rels
<1>2. \A r \in Rels : c[r] \in Int /\ c[r] >= 0
  BY CombinationsCounted
<1>3. \A n : TotalUpTo(n) = SumFunctionOnSet(c, 1 .. n)
  BY DEF TotalUpTo
<1> HIDE DEF c
<1>4. TotalUpTo(0) = 0
  <2>1. 1 .. 0 = {}
    OBVIOUS
  <2>2. SumFunctionOnSet(c, {}) = 0
    BY FS_EmptySet, SumByFirst
  <2>3. QED
    BY <1>3, <2>1, <2>2
<1>5. ASSUME NEW n \in 0 .. Len(Relations)
      PROVE  TotalUpTo(n) \in Nat /\ TotalUpTo(n) <= Total
  <2>1. 1 .. n \in SUBSET Rels /\ IsFiniteSet(1 .. n) /\ IsFiniteSet(Rels)
    BY <1>1, FS_Interval
  <2>2. SumFunctionOnSet(c, 1 .. n) \in Int /\ SumFunctionOnSet(c, 1 .. n) >= 0
    BY <1>2, <2>1, SumType
  <2>3. SumFunctionOnSet(c, 1 .. n) <= SumFunctionOnSet(c, Rels)
    BY <1>2, <2>1, SumMonotone
  <2>4. QED
    BY <1>1, <1>3, <2>2, <2>3 DEF Total
<1>6. ASSUME NEW r \in Rels
      PROVE  TotalUpTo(r) = TotalUpTo(r - 1) + NumCombinations(r)
  <2> DEFINE X == 1 .. r
             Y == 1 .. (r - 1)
  <2>1. r \in Nat /\ r \in X /\ Y = X \ {r} /\ r - 1 \in 0 .. Len(Relations)
    BY <1>1
  <2>2. IsFiniteSet(X)
    BY <2>1, FS_Interval
  <2>3. \A k \in X : c[k] \in Int
    BY <1>1, <1>2
  <2>4. c[r] = NumCombinations(r) /\ c[r] \in Int
    BY <1>2 DEF c
  <2> HIDE DEF X, Y
  <2>5. SumFunctionOnSet(c, X) = c[r] + SumFunctionOnSet(c, Y)
    <3>1. r \in X /\ Y = X \ {r}
      BY <2>1
    <3>2. QED
      BY <2>2, <2>3, <3>1, SumRemove
  <2>6. TotalUpTo(r) = SumFunctionOnSet(c, X) /\ TotalUpTo(r - 1) = SumFunctionOnSet(c, Y)
    BY <1>3 DEF X, Y
  <2>7. TotalUpTo(r - 1) \in Nat
    BY <1>5, <2>1
  <2>8. QED
    BY <2>4, <2>5, <2>6, <2>7
<1>7. QED
  BY <1>1, <1>4, <1>5, <1>6

FirstCounts(c, S) ==
    /\ DOMAIN c = 1 .. NumTests
    /\ \A i \in 1 .. NumTests : c[i] = Cardinality(FirstCovered(ValidTests, i, S))

\* What the tests are the first to cover adds up to what they cover.
LEMMA AccumulatedIsExact ==
    ASSUME Filtered, NEW S, S \subseteq SUBSET Params, NEW c, FirstCounts(c, S)
    PROVE  Accumulated(c) =
               [n \in DOMAIN ValidTests |-> Cardinality(CoveredBy(ValidTests, n, S))]
<1>1. DOMAIN ValidTests = 1 .. NumTests /\ NumTests \in Nat
  BY FilteredTests
<1>2. ASSUME NEW n \in 1 .. NumTests
      PROVE  SumFunctionOnSet(c, 1 .. n) = Cardinality(CoveredBy(ValidTests, n, S))
  <2> DEFINE parts == [i \in 1 .. n |-> FirstCovered(ValidTests, i, S)]
             X == 1 .. n
             Has(k, u) == CoversTuple(ValidTests[k], u)
  <2>1. IsFiniteSet(X) /\ n \in Nat /\ \A i \in X : i \in 1 .. NumTests /\ i \in Nat
    BY <1>1, FS_Interval
  <2>2. \A i : CoveredBy(ValidTests, i, S) = {u \in TuplesOver(S) : \E k \in 1 .. i : Has(k, u)}
    BY DEF CoveredBy
  <2> HIDE DEF Has
  <2>3. ASSUME NEW i \in X
        PROVE  parts[i] = {u \in TuplesOver(S) :
                              Has(i, u) /\ \A k \in 1 .. (i - 1) : ~ Has(k, u)}
    <3>1. \A k : k \in 1 .. i <=> k \in 1 .. (i - 1) \/ k = i
      BY <2>1
    <3>2. QED
      BY <2>2, <3>1 DEF FirstCovered
  <2>4. \A i \in X : IsFiniteSet(parts[i]) /\ c[i] = Cardinality(parts[i])
    <3>1. IsFiniteSet(TuplesOver(S))
      BY TuplesOverFacts
    <3>2. \A i \in X : parts[i] \subseteq TuplesOver(S)
      BY <2>3
    <3>3. QED
      BY <2>1, <3>1, <3>2, FS_Subset DEF FirstCounts
  <2>5. ASSUME NEW i \in X, NEW j \in X, i # j
        PROVE  parts[i] \cap parts[j] = {}
    <3>1. i \in 1 .. (j - 1) \/ j \in 1 .. (i - 1)
      BY <2>1, <2>5
    <3>2. QED
      BY <2>3, <3>1
  <2>6. Joined(parts, X) = CoveredBy(ValidTests, n, S)
    <3>1. ASSUME NEW u \in CoveredBy(ValidTests, n, S)
          PROVE  \E i \in X : u \in parts[i]
      <4> DEFINE T == {k \in X : Has(k, u)}
                 m == Min(T)
      <4>1. u \in TuplesOver(S) /\ T # {} /\ T \in SUBSET Nat
        BY <2>1, <2>2
      <4> HIDE DEF T
      <4>2. m \in T /\ \A y \in T : m <= y
        BY <4>1, MinFacts
      <4> HIDE DEF m
      <4>3. m \in X /\ Has(m, u)
        BY <4>2 DEF T
      <4>4. ASSUME NEW k \in 1 .. (m - 1), Has(k, u)
            PROVE  FALSE
        <5>1. k \in X /\ ~ (m <= k)
          BY <2>1, <4>3
        <5>2. QED
          BY <4>2, <4>4, <5>1 DEF T
      <4>5. QED
        BY <2>3, <4>1, <4>3, <4>4
    <3>2. ASSUME NEW i \in X, NEW u \in parts[i]
          PROVE  u \in CoveredBy(ValidTests, n, S)
      BY <2>2, <2>3
    <3> HIDE DEF parts
    <3>3. QED
      BY <3>1, <3>2 DEF Joined
  <2> HIDE DEF parts, X
  <2>7. Cardinality(Joined(parts, X)) = SumFunctionOnSet(c, X)
    <3>1. IsFiniteSet(X)
      BY <2>1
    <3>2. QED
      BY <2>4, <2>5, <3>1, CardinalityOfUnion
  <2>8. QED
    BY <2>6, <2>7 DEF X
<1>3. QED
  BY <1>1, <1>2 DEF Accumulated, FirstCounts

SeenSets == [p \in DOMAIN functors |-> SeenBy(p)]

\* The combinations that the functors have visited.
Seen == Joined(SeenSets, DOMAIN functors)

\* Each combination has one functor.
LEMMA SeenFacts ==
    ASSUME FunctorsInv
    PROVE  /\ IsFiniteSet(DOMAIN functors) /\ DOMAIN functors \subseteq Params
           /\ Seen \in SUBSET Combos[rel] /\ Seen \subseteq SUBSET Params
           /\ \A p \in DOMAIN functors :
                 /\ SeenSets[p] \subseteq SUBSET Params /\ IsFiniteSet(SeenSets[p])
                 /\ Counts(functors[p], SeenSets[p])
                 /\ functors[p] \in Functor(CombosOf(p))
           /\ \A p, q \in DOMAIN functors : p # q => SeenSets[p] \cap SeenSets[q] = {}
           /\ (\A p \in DOMAIN functors : functors[p].left = {}) => Seen = Combos[rel]
<1>1. rel \in Rels /\ DOMAIN functors = LastParams(rel)
  BY DEF FunctorsInv
<1>2. IsFiniteSet(DOMAIN functors) /\ DOMAIN functors \subseteq Params
  BY <1>1, ComboFacts
<1>3. /\ IsFiniteSet(Combos[rel]) /\ Combos[rel] \subseteq SUBSET Params
      /\ Combos[rel] = UNION {CombosOf(p) : p \in DOMAIN functors}
  BY <1>1, ComboFacts DEF CombosOf
<1>4. \A p \in DOMAIN functors : SeenSets[p] = CombosOf(p) \ functors[p].left
  BY DEF SeenSets, SeenBy
<1>5. \A p \in DOMAIN functors : SeenSets[p] \subseteq Combos[rel]
  BY <1>4 DEF CombosOf
<1>6. \A p, q \in DOMAIN functors : p # q => SeenSets[p] \cap SeenSets[q] = {}
  BY <1>4 DEF CombosOf
<1>7. \A p \in DOMAIN functors : /\ Counts(functors[p], SeenSets[p])
                                 /\ functors[p] \in Functor(CombosOf(p))
  BY <1>1, <1>4 DEF FunctorsInv, FunctorInv, SeenBy
<1>8. Seen \in SUBSET Combos[rel]
  BY <1>5 DEF Seen, Joined
<1>9. (\A p \in DOMAIN functors : functors[p].left = {}) => Seen = Combos[rel]
  <2> SUFFICES ASSUME \A p \in DOMAIN functors : functors[p].left = {}
               PROVE  Seen = Combos[rel]
    OBVIOUS
  <2>1. \A p \in DOMAIN functors : SeenSets[p] = CombosOf(p)
    BY <1>4
  <2>2. QED
    BY <1>3, <2>1 DEF Seen, Joined
<1>10. \A p \in DOMAIN functors : IsFiniteSet(SeenSets[p]) /\ SeenSets[p] \subseteq SUBSET Params
  BY <1>3, <1>5, FS_Subset
<1>11. QED
  BY <1>2, <1>3, <1>6, <1>7, <1>8, <1>9, <1>10

\* What the thread sums up.
SummedInvalid == SumFunction([p \in DOMAIN functors |-> functors[p].invalid])

SummedFirst == [i \in 1 .. NumTests |->
                   SumFunction([p \in DOMAIN functors |-> functors[p].covered[i]])]

SummedLevels == [l \in DOMAIN NoLevels |->
                    SumFunction([p \in DOMAIN functors |-> functors[p].levels[l]])]

\* The sums are the counts of all that has been seen.
LEMMA SumsAreCounts ==
    ASSUME FunctorsInv
    PROVE  /\ SummedInvalid = Cardinality(Forbidden(Seen))
           /\ FirstCounts(SummedFirst, Seen)
           /\ SummedLevels = LevelsOf(ValidTests, Seen)
<1> DEFINE D == DOMAIN functors
<1>1. /\ IsFiniteSet(D) /\ Seen \subseteq SUBSET Params /\ Seen = Joined(SeenSets, D)
      /\ \A p \in D : SeenSets[p] \subseteq SUBSET Params
      /\ \A p, q \in D : p # q => SeenSets[p] \cap SeenSets[q] = {}
  BY SeenFacts DEF Seen
<1>2. \A p \in D : Counts(functors[p], SeenSets[p]) /\ IsFiniteSet(SeenSets[p])
  BY SeenFacts
<1> HIDE DEF D
<1>3. ASSUME NEW A, NEW c, DOMAIN c = D,
             \A p \in D : c[p] = Cardinality(TuplesOver(SeenSets[p]) \cap A)
      PROVE  SumFunction(c) = Cardinality(TuplesOver(Seen) \cap A)
  <2>1. Cardinality(TuplesOver(Joined(SeenSets, D)) \cap A) = SumFunctionOnSet(c, D)
    BY <1>1, <1>3, CountTuples
  <2>2. SumFunction(c) = SumFunctionOnSet(c, D)
    BY <1>3 DEF SumFunction
  <2>3. QED
    BY <1>1, <2>1, <2>2
<1>4. SummedInvalid = Cardinality(Forbidden(Seen))
  <2> DEFINE c == [p \in D |-> functors[p].invalid]
  <2>1. \A p \in D : c[p] = Cardinality(TuplesOver(SeenSets[p]) \cap ForbiddenTuples)
    BY <1>1, <1>2, KindsOfTuples DEF Counts
  <2>2. DOMAIN c = D
    OBVIOUS
  <2>3. SummedInvalid = SumFunction(c)
    BY DEF SummedInvalid, D
  <2> HIDE DEF c
  <2>4. SumFunction(c) = Cardinality(TuplesOver(Seen) \cap ForbiddenTuples)
    BY <1>3, <2>1, <2>2
  <2>5. QED
    BY <1>1, <2>3, <2>4, KindsOfTuples
<1>5. ASSUME NEW i \in 1 .. NumTests
      PROVE  SumFunction([p \in D |-> functors[p].covered[i]])
                 = Cardinality(FirstCovered(ValidTests, i, Seen))
  <2> DEFINE c == [p \in D |-> functors[p].covered[i]]
             A == FirstTuples(ValidTests, i)
  <2>1. ASSUME NEW p \in D
        PROVE  c[p] = Cardinality(TuplesOver(SeenSets[p]) \cap A)
    <3>1. FirstCovered(ValidTests, i, SeenSets[p]) = TuplesOver(SeenSets[p]) \cap A
      BY <1>1, KindsOfTuples
    <3>2. functors[p].covered[i] = Cardinality(FirstCovered(ValidTests, i, SeenSets[p]))
      BY <1>2 DEF Counts
    <3>3. QED
      BY <3>1, <3>2
  <2>2. DOMAIN c = D
    OBVIOUS
  <2>3. FirstCovered(ValidTests, i, Seen) = TuplesOver(Seen) \cap A
    BY <1>1, KindsOfTuples
  <2> HIDE DEF A, c
  <2>4. SumFunction(c) = Cardinality(TuplesOver(Seen) \cap A)
    BY <1>3, <2>1, <2>2
  <2>5. QED
    BY <2>3, <2>4 DEF c
<1>6. FirstCounts(SummedFirst, Seen)
  BY <1>5 DEF FirstCounts, SummedFirst, D
<1>7. ASSUME NEW l \in DOMAIN NoLevels
      PROVE  SumFunction([p \in D |-> functors[p].levels[l]])
                 = Cardinality({P \in Seen : Reaches(ValidTests, P, l)})
  <2> DEFINE c == [p \in D |-> functors[p].levels[l]]
             part(S) == {P \in S : Reaches(ValidTests, P, l)}
             parts == [p \in D |-> part(SeenSets[p])]
  <2>1. \A p \in D : IsFiniteSet(parts[p]) /\ c[p] = Cardinality(parts[p])
    <3>1. \A p \in D : part(SeenSets[p]) \subseteq SeenSets[p]
      OBVIOUS
    <3>2. \A p \in D : IsFiniteSet(part(SeenSets[p]))
      BY <1>2, <3>1, FS_Subset
    <3>3. ASSUME NEW p \in D
          PROVE  functors[p].levels[l] = Cardinality(part(SeenSets[p]))
      BY <1>2, LevelsByReach DEF Counts
    <3>4. QED
      BY <3>2, <3>3
  <2>2. \A p, q \in D : p # q => parts[p] \cap parts[q] = {}
    BY <1>1
  <2>3. Joined(parts, D) = part(Seen)
    BY <1>1 DEF Joined
  <2>4. SumFunction(c) = SumFunctionOnSet(c, D)
    BY DEF SumFunction
  <2> HIDE DEF c, parts, part
  <2>5. Cardinality(Joined(parts, D)) = SumFunctionOnSet(c, D)
    BY <1>1, <2>1, <2>2, CardinalityOfUnion
  <2>6. QED
    BY <2>3, <2>4, <2>5 DEF c, part
<1>8. SummedLevels = LevelsOf(ValidTests, Seen)
  BY <1>7, LevelsByReach DEF SummedLevels, D
<1>9. QED
  BY <1>4, <1>6, <1>8

\* What is left to cover when the combinations S have been seen.
LEMMA LeftToCover ==
    ASSUME NEW r \in Rels, NEW S \in SUBSET Combos[r]
    PROVE  Cardinality(TuplesOver(Combos[r]) \ Forbidden(S)) =
               NumCombinations(r) - Cardinality(Forbidden(S))
<1> DEFINE T == TuplesOver(Combos[r])
           F == Forbidden(S)
<1>1. IsFiniteSet(T) /\ NumCombinations(r) = Cardinality(T)
  BY ComboFacts, TuplesOverFacts, CombinationsCounted
<1>2. F \subseteq T
  BY DEF Forbidden, TuplesOver
<1>3. IsFiniteSet(F) /\ T \cap F = F
  BY <1>1, <1>2, FS_Subset
<1> HIDE DEF T, F
<1>4. Cardinality(T \ F) = Cardinality(T) - Cardinality(T \cap F)
  BY <1>1, <1>3, FS_Difference
<1>5. QED
  BY <1>1, <1>3, <1>4 DEF T, F

\* A relation that has only been counted.
LEMMA NotMeasuredIs ==
    ASSUME NEW r \in Rels
    PROVE  NotMeasured(r) = [combos  |-> Cardinality(Combos[r]),
                             toCover |-> NumCombinations(r),
                             covered |-> <<>>,
                             levels  |-> NoLevels]
<1>1. Forbidden({}) = {} /\ LevelsOf(<<>>, {}) = NoLevels
  BY NothingSeen
<1>2. Cardinality(TuplesOver(Combos[r]) \ {}) = NumCombinations(r)
  BY CombinationsCounted
<1>3. \A f : [n \in DOMAIN <<>> |-> f[n]] = <<>>
  OBVIOUS
<1>4. [n \in DOMAIN <<>> |-> Cardinality(CoveredBy(<<>>, n, {}))] = <<>>
  OBVIOUS
<1>5. QED
  BY <1>1, <1>2, <1>4 DEF NotMeasured, Measured

-------------------------------------------------------------------------------
(* The steps *)

\* Nothing the promise speaks of changes while the constraints and the client's
\* tests stay.
LEMMA Unchanged ==
    ASSUME UNCHANGED <<allowed, clientTests>>
    PROVE  /\ ValidTests' = ValidTests
           /\ InvalidIndices' = InvalidIndices
           /\ \A r : NotMeasured(r)' = NotMeasured(r)
           /\ \A s, r, S : Measured(s, r, S)' = Measured(s, r, S)
           /\ \A S : Forbidden(S)' = Forbidden(S)
           /\ \A s, S : LevelsOf(s, S)' = LevelsOf(s, S)
<1>1. InvalidIndices' = InvalidIndices
  BY DEF InvalidIndices, Admissible
<1>2. ValidTests' = ValidTests
  BY <1>1 DEF ValidTests
<1>3. \A S : Forbidden(S)' = Forbidden(S)
  BY DEF Forbidden
<1>4. \A s, S : LevelsOf(s, S)' = LevelsOf(s, S)
  BY <1>3 DEF LevelsOf, Settled
<1>5. \A s, r, S : Measured(s, r, S)' = Measured(s, r, S)
  BY <1>3, <1>4 DEF Measured
<1>6. \A r : NotMeasured(r)' = NotMeasured(r)
  BY <1>5 DEF NotMeasured
<1>7. QED
  BY <1>1, <1>2, <1>3, <1>4, <1>5, <1>6

LEMMA InitMeasuring ==
    ASSUME Init
    PROVE  MInv
<1>1. TypesInv
  BY DEF Init, JobInit, TypesInv
<1>2. TestsInv
  BY DEF Init, TestsInv, Internal
<1>3. CountingInv
  <2>1. 1 - 1 = 0 /\ 1 .. 0 = {}
    OBVIOUS
  <2>2. [r \in {} |-> NotMeasured(r)] = <<>>
    OBVIOUS
  <2>3. TotalUpTo(0) = 0 /\ Len(Relations) \in Nat
    BY Totals
  <2>4. QED
    BY <2>1, <2>2, <2>3 DEF Init, CountingInv
<1>4. MeasuringInv /\ MeasuredInv /\ ResultInv
  BY DEF Init, JobInit, MeasuringInv, MeasuredInv, ResultInv, AfterPcs
<1>5. QED
  BY <1>1, <1>2, <1>3, <1>4 DEF MInv

\* The tests that are thrown out are the inadmissible ones.
LEMMA FilterStep ==
    ASSUME OnlyKeptValues, MInv, FilterTests
    PROVE  MInv'
<1> DEFINE N == Len(clientTests)
           I == DOMAIN clientTests \ InvalidIndices
<1>1. pc = "filter" /\ pc' = "count" /\ TypesInv /\ tests = Internal(clientTests)
  BY DEF MInv, FilterTests, TestsInv
<1>2. N \in Nat /\ DOMAIN clientTests = 1 .. N /\ DOMAIN tests = DOMAIN clientTests
  <2>1. clientTests \in Seq([Params -> Nat \cup {DontCare}])
    BY <1>1, MeasurementAssumption DEF TypesInv
  <2>2. QED
    BY <1>1, <2>1 DEF Internal
<1>3. \A i \in DOMAIN clientTests : IsValid(tests[i]) <=> Admissible(clientTests[i])
  <2>1. \A i \in DOMAIN clientTests : tests[i] = InternalTest(clientTests[i])
    BY <1>1 DEF Internal
  <2>2. allowed \in SUBSET FullTests /\ \A i \in DOMAIN clientTests : KeptTest(clientTests[i])
    BY <1>1, ValidTestsFacts
  <2>3. QED
    BY <2>1, <2>2, ValidIsAdmissible
<1>4. invalid' = InvalidIndices
  BY <1>2, <1>3 DEF FilterTests, InvalidIndices
<1>5. tests' = Internal(ValidTests)
  <2>1. tests' = AtPositions(Internal(clientTests), I)
    BY <1>1, <1>2, <1>4 DEF FilterTests
  <2>2. I \in SUBSET (1 .. N)
    BY <1>2
  <2>3. AtPositions(Internal(clientTests), I) = Internal(AtPositions(clientTests, I))
    <3> HIDE DEF I, N
    <3>1. QED
      BY <1>2, <2>2, AtPositionsFacts
  <2>4. QED
    BY <2>1, <2>3 DEF ValidTests
<1>6. UNCHANGED <<allowed, clientTests>>
  BY DEF FilterTests
<1>7. TypesInv'
  BY <1>1 DEF TypesInv, FilterTests
<1>8. TestsInv'
  <2>1. ValidTests' = ValidTests /\ InvalidIndices' = InvalidIndices
    BY <1>6, Unchanged
  <2>2. Internal(ValidTests)' = Internal(ValidTests')
    BY DEF Internal
  <2>3. QED
    BY <1>1, <1>4, <1>5, <2>1, <2>2 DEF TestsInv
<1>9. CountingInv'
  <2>1. rel = 1 /\ covm = [r \in 1 .. (rel - 1) |-> NotMeasured(r)]
        /\ rel \in 1 .. (Len(Relations) + 1)
        /\ progress = [toProcess |-> TotalUpTo(rel - 1), processed |-> 0]
    BY <1>1 DEF MInv, CountingInv
  <2>2. \A r : NotMeasured(r)' = NotMeasured(r)
    BY <1>6, Unchanged
  <2>3. UNCHANGED <<rel, covm, progress>>
    BY DEF FilterTests
  <2>4. QED
    BY <1>1, <2>1, <2>2, <2>3 DEF CountingInv, TotalUpTo
<1>10. MeasuringInv' /\ MeasuredInv' /\ ResultInv'
  BY <1>1 DEF MInv, FilterTests, MeasuringInv, MeasuredInv, ResultInv, AfterPcs
<1>11. QED
  BY <1>7, <1>8, <1>9, <1>10 DEF MInv

LEMMA KeepTests ==
    ASSUME TestsInv, pc # "filter", pc' # "filter",
           UNCHANGED <<allowed, clientTests, tests, invalid>>
    PROVE  TestsInv'
<1>1. tests = Internal(ValidTests) /\ invalid = InvalidIndices
  BY DEF TestsInv
<1>2. ValidTests' = ValidTests /\ InvalidIndices' = InvalidIndices
  BY Unchanged
<1>3. Internal(ValidTests)' = Internal(ValidTests')
  BY DEF Internal
<1>4. QED
  BY <1>1, <1>2, <1>3 DEF TestsInv

\* One more relation has been counted.
LEMMA CountStep ==
    ASSUME MInv, CountCombinations
    PROVE  MInv'
<1>1. pc = "count" /\ pc' = "count" /\ rel \in Rels /\ rel' = rel + 1
      /\ UNCHANGED <<allowed, clientTests, aborted, result, tests, invalid, functors>>
  BY DEF CountCombinations
<1>2. TypesInv'
  BY <1>1 DEF MInv, TypesInv
<1>3. TestsInv'
  BY <1>1, KeepTests DEF MInv
<1>4. covm = [r \in 1 .. (rel - 1) |-> NotMeasured(r)]
      /\ progress = [toProcess |-> TotalUpTo(rel - 1), processed |-> 0]
  BY <1>1 DEF MInv, CountingInv
<1>5. rel \in Nat /\ rel >= 1 /\ rel <= Len(Relations) /\ Len(Relations) \in Nat
  BY <1>1, Totals
<1>6. rel' \in 1 .. (Len(Relations) + 1) /\ rel' - 1 = rel
  BY <1>1, <1>5
<1>7. covm' = [r \in 1 .. rel |-> NotMeasured(r)]
  <2> DEFINE f == [r \in 1 .. (rel - 1) |-> NotMeasured(r)]
             g == [r \in 1 .. rel |-> NotMeasured(r)]
  <2>1. covm' = Append(f, NotMeasured(rel))
    BY <1>1, <1>4, NotMeasuredIs DEF CountCombinations
  <2>2. f \in Seq({NotMeasured(r) : r \in 1 .. rel}) /\ Len(f) = rel - 1
    <3>1. 1 .. (rel - 1) \subseteq 1 .. rel /\ rel - 1 \in Nat
      BY <1>5
    <3>2. \A r \in 1 .. (rel - 1) : f[r] \in {NotMeasured(q) : q \in 1 .. rel}
      BY <3>1
    <3>3. f \in [1 .. (rel - 1) -> {NotMeasured(r) : r \in 1 .. rel}]
      BY <3>2
    <3> HIDE DEF f
    <3>4. QED
      BY <3>1, <3>3, LenProperties, SeqDef
  <2>3. Append(f, NotMeasured(rel)) = g
    <3> DEFINE h == Append(f, NotMeasured(rel))
               X == {NotMeasured(r) : r \in 1 .. rel}
    <3>1. NotMeasured(rel) \in X
      BY <1>5
    <3>2. /\ h \in Seq(X) /\ DOMAIN h = 1 .. rel /\ h[rel] = NotMeasured(rel)
          /\ \A r \in 1 .. (rel - 1) : h[r] = f[r]
      <4> HIDE DEF f, X
      <4>1. /\ h \in Seq(X) /\ Len(h) = Len(f) + 1 /\ h[Len(f) + 1] = NotMeasured(rel)
            /\ \A r \in 1 .. Len(f) : h[r] = f[r]
        <5>1. f \in Seq(X)
          BY <2>2 DEF X
        <5>2. QED
          BY <3>1, <5>1, AppendProperties
      <4>2. Len(f) + 1 = rel
        BY <1>5, <2>2
      <4>3. DOMAIN h = 1 .. Len(h)
        BY <4>1, LenProperties
      <4> HIDE DEF h
      <4>4. QED
        BY <2>2, <4>1, <4>2, <4>3
    <3>3. \A r \in 1 .. rel : h[r] = NotMeasured(r)
      <4>1. \A r \in 1 .. rel : r \in 1 .. (rel - 1) \/ r = rel
        BY <1>5
      <4> HIDE DEF h
      <4>2. QED
        BY <3>2, <4>1
    <3>4. h = [r \in 1 .. rel |-> h[r]]
      <4> HIDE DEF h, X
      <4>1. QED
        BY <3>2, SeqDef
    <3> HIDE DEF h
    <3>5. QED
      BY <3>3, <3>4 DEF h
  <2>4. QED
    BY <2>1, <2>3
<1>8. progress' = [toProcess |-> TotalUpTo(rel), processed |-> 0]
  <2>1. TotalUpTo(rel) = TotalUpTo(rel - 1) + NumCombinations(rel)
    BY <1>1, Totals
  <2>2. QED
    BY <1>4, <2>1 DEF CountCombinations, ToProcess
<1>9. CountingInv'
  <2>1. \A r : NotMeasured(r)' = NotMeasured(r)
    BY <1>1, Unchanged
  <2>2. QED
    BY <1>1, <1>6, <1>7, <1>8, <2>1 DEF CountingInv, TotalUpTo
<1>10. MeasuringInv' /\ MeasuredInv' /\ ResultInv'
  BY <1>1 DEF MInv, MeasuringInv, MeasuredInv, ResultInv, AfterPcs
<1>11. QED
  BY <1>2, <1>3, <1>9, <1>10 DEF MInv

\* The functors of relation r have all of it before them.
LEMMA NewFunctorsStart ==
    ASSUME Filtered, NEW r \in Rels, rel' = r, functors' = NewFunctors(r),
           UNCHANGED <<allowed, clientTests, tests>>
    PROVE  FunctorsInv' /\ Left' = Combos[r]
<1>1. /\ ValidTests' = ValidTests
      /\ \A S : Forbidden(S)' = Forbidden(S)
      /\ \A s, S : LevelsOf(s, S)' = LevelsOf(s, S)
  BY Unchanged
<1>2. /\ DOMAIN functors' = LastParams(r)
      /\ \A p \in LastParams(r) : functors'[p] = NewFunctor(r, p)
  BY DEF NewFunctors
<1>3. NumTests \in Nat /\ NumTests' = NumTests
  BY FilteredTests DEF NumTests
<1>4. ASSUME NEW p \in LastParams(r)
      PROVE  FunctorInv(p)'
  <2> DEFINE C == {P \in Combos[r] : Max(P) = p}
             f == NewFunctor(r, p)
  <2>1. /\ f.left = C /\ f.stopped = FALSE /\ f.invalid = 0
        /\ f.covered = [i \in 1 .. NumTests |-> 0] /\ f.levels = NoLevels
    BY DEF NewFunctor
  <2>2. f \in [left : SUBSET C, stopped : BOOLEAN, invalid : Nat,
               covered : [1 .. NumTests -> Nat], levels : [DOMAIN NoLevels -> Nat]]
    BY DEF NewFunctor, NoLevels
  <2>3. /\ f.invalid = Cardinality(Forbidden({}))
        /\ \A i \in 1 .. NumTests : f.covered[i] = Cardinality(FirstCovered(ValidTests, i, {}))
        /\ f.levels = LevelsOf(ValidTests, {})
    BY <2>1, NothingSeen, FS_EmptySet
  <2>4. CombosOf(p)' = C
    BY DEF CombosOf
  <2>5. SeenBy(p)' = {}
    BY <1>2, <2>1, <2>4 DEF SeenBy
  <2> HIDE DEF C, f
  <2>6. functors'[p] = f
    BY <1>2 DEF f
  <2>7. Functor(CombosOf(p))' = [left : SUBSET C, stopped : BOOLEAN, invalid : Nat,
               covered : [1 .. NumTests -> Nat], levels : [DOMAIN NoLevels -> Nat]]
    BY <1>3, <2>4 DEF Functor
  <2>8. Counts(functors[p], SeenBy(p))'
    BY <1>1, <1>3, <2>3, <2>5, <2>6 DEF Counts, FirstCovered, CoveredBy
  <2>9. QED
    BY <2>1, <2>2, <2>6, <2>7, <2>8 DEF FunctorInv
<1>5. FunctorsInv'
  BY <1>2, <1>4 DEF FunctorsInv
<1>6. Left' = Combos[r]
  <2>1. \A p \in LastParams(r) : functors'[p].left = {P \in Combos[r] : Max(P) = p}
    BY <1>2 DEF NewFunctor
  <2>2. QED
    BY <1>2, <2>1, ComboFacts DEF Left
<1>7. QED
  BY <1>5, <1>6

\* The thread goes on to the first relation, or is done already.
LEMMA StartStep ==
    ASSUME OnlyKeptValues, MInv, StartMeasuring
    PROVE  MInv'
<1>1. pc = "count" /\ rel \notin Rels /\ rel' = 1
      /\ UNCHANGED <<allowed, clientTests, aborted, result, tests, invalid, covm, progress>>
      /\ IF aborted \/ Rels = {}
         THEN pc' = "decide" /\ UNCHANGED functors
         ELSE pc' = "measure" /\ functors' = NewFunctors(1)
  BY DEF StartMeasuring
<1>2. TypesInv' /\ TestsInv'
  <2>1. pc' \in {"measure", "decide"} /\ pc' # "filter"
    BY <1>1
  <2>2. TestsInv'
    BY <1>1, <2>1, KeepTests DEF MInv
  <2>3. QED
    BY <1>1, <2>1, <2>2 DEF MInv, TypesInv, AfterPcs
<1>3. Filtered
  BY <1>1 DEF MInv, TestsInv, Filtered
<1>4. /\ Rels = 1 .. Len(Relations) /\ Len(Relations) \in Nat /\ TotalUpTo(0) = 0
      /\ \A r \in Rels : TotalUpTo(r) = TotalUpTo(r - 1) + NumCombinations(r)
      /\ \A n \in 0 .. Len(Relations) : TotalUpTo(n) \in Nat /\ TotalUpTo(n) <= Total
  BY Totals
<1>5. rel - 1 = Len(Relations)
  BY <1>1, <1>4 DEF MInv, CountingInv
<1>6. covm = [r \in Rels |-> NotMeasured(r)] /\ progress = [toProcess |-> Total, processed |-> 0]
  BY <1>1, <1>4, <1>5 DEF MInv, CountingInv, Total
<1>7. \A r : NotMeasured(r)' = NotMeasured(r)
  BY <1>1, Unchanged
<1>8. aborted \in BOOLEAN /\ Total \in Nat
  BY <1>4 DEF MInv, TypesInv, Total
<1>9. MeasuringInv'
  <2> SUFFICES ASSUME pc' = "measure" PROVE MeasuringInv'
    BY DEF MeasuringInv
  <2>1. functors' = NewFunctors(1) /\ 1 \in Rels /\ ~ aborted /\ Rels # {}
    BY <1>1, <1>4
  <2>2. FunctorsInv' /\ Left' = Combos[1]
    BY <1>1, <1>3, <2>1, NewFunctorsStart
  <2>3. TuplesOver(Left)' = TuplesOver(Combos[1])
    BY <2>2 DEF TuplesOver
  <2>4. Cardinality(TuplesOver(Left)') = TotalUpTo(1) /\ TotalUpTo(1) \in Nat
    <3>1. Cardinality(TuplesOver(Combos[1])) = NumCombinations(1) /\ NumCombinations(1) \in Nat
      BY <2>1, CombinationsCounted
    <3>2. TotalUpTo(1) = TotalUpTo(1 - 1) + NumCombinations(1) /\ 1 - 1 = 0
      BY <1>4, <2>1
    <3>3. QED
      BY <1>4, <2>3, <3>1, <3>2
  <2>5. \A r \in Rels : ~ (r < 1)
    BY <1>4
  <2>6. (\A r \in Rels : covm[r] = NotMeasured(r))'
    BY <1>1, <1>6, <1>7
  <2>7. Total' = Total /\ TotalUpTo(rel)' = TotalUpTo(1)
    BY <1>1 DEF Total, TotalUpTo
  <2>8. /\ progress' = [toProcess |-> Total, processed |-> progress'.processed]
        /\ progress'.processed = 0 /\ DOMAIN covm' = Rels
    BY <1>1, <1>6
  <2>9. 0 + TotalUpTo(1) <= TotalUpTo(1) /\ 0 + TotalUpTo(1) = TotalUpTo(1)
    BY <2>4
  <2>10. QED
    BY <1>1, <2>2, <2>4, <2>5, <2>6, <2>7, <2>8, <2>9 DEF MeasuringInv, RelationsInv
<1>10. MeasuredInv'
  <2> SUFFICES ASSUME pc' = "decide" PROVE MeasuredInv'
    BY <1>1 DEF MeasuredInv, AfterPcs
  <2>1. aborted \/ Rels = {}
    BY <1>1
  <2>2. \A r \in Rels : IsPart(ValidTests, r, covm[r])'
    BY <1>1, <1>6, <1>7 DEF IsPart
  <2>3. aborted' \/ Complete'
    <3> SUFFICES ASSUME Rels = {} PROVE Complete'
      BY <1>1, <2>1
    <3>1. Len(Relations) = 0
      BY <1>4
    <3>2. Total = 0
      BY <1>4, <3>1 DEF Total
    <3>3. QED
      BY <1>1, <1>6, <3>2 DEF Complete, Total, TotalUpTo
  <2>4. Total' = Total
    BY DEF Total, TotalUpTo
  <2>5. QED
    BY <1>1, <1>6, <1>8, <2>2, <2>3, <2>4 DEF MeasuredInv
<1>11. CountingInv' /\ ResultInv'
  BY <1>1 DEF MInv, CountingInv, ResultInv
<1>12. QED
  BY <1>2, <1>9, <1>10, <1>11 DEF MInv

LEMMA KeepRelations ==
    ASSUME NEW n, RelationsInv(n), aborted => aborted',
           UNCHANGED <<allowed, clientTests, covm>>
    PROVE  RelationsInv(n)'
<1>1. /\ ValidTests' = ValidTests
      /\ \A r : NotMeasured(r)' = NotMeasured(r)
      /\ \A s, r, S : Measured(s, r, S)' = Measured(s, r, S)
  BY Unchanged
<1>2. QED
  BY <1>1 DEF RelationsInv, IsPart, IsWhole

\* A functor has visited one more combination.
LEMMA VisitStep ==
    ASSUME OnlyKeptValues, MInv, NEW p \in DOMAIN functors, VisitCombo(p)
    PROVE  MInv'
<1> DEFINE f == functors[p]
           P == NextCombo(f.left)
           g == Visited(f, P)
<1>1. /\ pc = "measure" /\ ~ Ended(f)
      /\ functors' = [functors EXCEPT ![p] = g]
      /\ progress' = [progress EXCEPT !.processed = @ + ComboSize(P)]
      /\ UNCHANGED <<allowed, clientTests, aborted, result, pc, tests, invalid, covm, rel>>
  BY DEF VisitCombo
<1>2. TypesInv' /\ TestsInv'
  <2>1. pc # "filter" /\ pc' # "filter"
    BY <1>1
  <2>2. TestsInv'
    BY <1>1, <2>1, KeepTests DEF MInv
  <2>3. QED
    BY <1>1, <2>2 DEF MInv, TypesInv
<1>3. Filtered /\ aborted \in BOOLEAN
  BY <1>1 DEF MInv, TestsInv, Filtered, TypesInv
<1>4. /\ FunctorsInv /\ RelationsInv(rel)
      /\ progress = [toProcess |-> Total, processed |-> progress.processed]
      /\ progress.processed \in Nat
      /\ progress.processed + Cardinality(TuplesOver(Left)) <= TotalUpTo(rel)
      /\ aborted \/ progress.processed + Cardinality(TuplesOver(Left)) = TotalUpTo(rel)
  BY <1>1 DEF MInv, MeasuringInv, RelationsInv
<1>5. /\ DOMAIN functors = LastParams(rel) /\ rel \in Rels
      /\ \A q \in DOMAIN functors : FunctorInv(q) /\ functors[q].left \in SUBSET CombosOf(q)
  BY <1>4, SeenFacts DEF FunctorsInv, Functor
<1>6. P \in f.left /\ P \in CombosOf(p) /\ P \in SUBSET Params
  <2>1. Combos[rel] \subseteq SUBSET Params /\ IsFiniteSet(Combos[rel])
    BY <1>5, ComboFacts
  <2>2. f.left \subseteq Combos[rel]
    BY <1>5 DEF CombosOf
  <2>3. f.left # {}
    BY <1>1 DEF Ended
  <2>4. IsFiniteSet(f.left) /\ f.left \subseteq SUBSET Params
    BY <2>1, <2>2, FS_Subset
  <2> HIDE DEF f
  <2>5. P \in f.left
    BY <2>3, <2>4, NextComboExists
  <2>6. QED
    BY <1>5, <2>4, <2>5 DEF f
<1>7. /\ g \in Functor(CombosOf(p)) /\ g.left = f.left \ {P} /\ g.stopped = aborted
      /\ Counts(g, SeenBy(p) \cup {P})
  <2>1. /\ SeenBy(p) \subseteq SUBSET Params /\ IsFiniteSet(SeenBy(p))
        /\ Counts(f, SeenBy(p)) /\ f \in Functor(CombosOf(p))
    BY <1>4, SeenFacts DEF SeenSets
  <2>2. P \notin SeenBy(p)
    BY <1>6 DEF SeenBy
  <2> HIDE DEF f, P
  <2>3. QED
    BY <1>3, <1>6, <2>1, <2>2, VisitedCounts
<1> HIDE DEF P, g
<1>8. /\ DOMAIN functors' = DOMAIN functors /\ functors'[p] = g
      /\ \A q \in DOMAIN functors : q # p => functors'[q] = functors[q]
  BY <1>1
<1>9. /\ \A q : CombosOf(q)' = CombosOf(q)
      /\ \A C : Functor(C)' = Functor(C)
      /\ \A h, S : Counts(h, S)' <=> Counts(h, S)
  <2>1. /\ ValidTests' = ValidTests
        /\ \A S : Forbidden(S)' = Forbidden(S)
        /\ \A s, S : LevelsOf(s, S)' = LevelsOf(s, S)
    BY <1>1, Unchanged
  <2>2. NumTests' = NumTests
    BY <1>1 DEF NumTests
  <2>3. \A q : CombosOf(q)' = CombosOf(q)
    BY <1>1 DEF CombosOf
  <2>4. \A C : Functor(C)' = Functor(C)
    BY <2>2 DEF Functor
  <2>5. \A h, S : Counts(h, S)' <=> Counts(h, S)
    BY <2>1, <2>2 DEF Counts, FirstCovered, CoveredBy
  <2>6. QED
    BY <2>3, <2>4, <2>5
<1>10. ASSUME NEW q \in LastParams(rel)
       PROVE  FunctorInv(q)'
  <2>1. CASE q = p
    <3>1. SeenBy(q)' = SeenBy(p) \cup {P}
      <4>1. SeenBy(q)' = CombosOf(p) \ g.left
        BY <1>8, <1>9, <2>1 DEF SeenBy
      <4>2. QED
        BY <1>6, <1>7, <4>1 DEF SeenBy
    <3>2. Counts(functors[q], SeenBy(q))'
      BY <1>7, <1>8, <1>9, <2>1, <3>1 DEF Counts
    <3>3. Functor(CombosOf(q))' = Functor(CombosOf(q))
      BY <1>9 DEF Functor
    <3>4. QED
      BY <1>1, <1>7, <1>8, <2>1, <3>2, <3>3 DEF FunctorInv
  <2>2. CASE q # p
    <3>1. q \in DOMAIN functors /\ functors'[q] = functors[q] /\ FunctorInv(q)
      BY <1>5, <1>8, <2>2
    <3>2. SeenBy(q)' = SeenBy(q)
      BY <1>9, <3>1 DEF SeenBy
    <3>3. Counts(functors[q], SeenBy(q))'
      BY <1>9, <3>1, <3>2 DEF Counts, FunctorInv
    <3>4. Functor(CombosOf(q))' = Functor(CombosOf(q))
      BY <1>9 DEF Functor
    <3>5. QED
      BY <1>1, <3>1, <3>3, <3>4 DEF FunctorInv
  <2>3. QED
    BY <2>1, <2>2
<1>11. FunctorsInv'
  BY <1>1, <1>5, <1>8, <1>10 DEF FunctorsInv, LastParams
<1>12. /\ Left = Left' \cup {P} /\ P \notin Left' /\ Left' \subseteq SUBSET Params
  <2>1. \A q \in DOMAIN functors : functors'[q].left = functors[q].left \ {P}
    <3>1. \A q \in DOMAIN functors : q # p => P \notin functors[q].left
      BY <1>5, <1>6 DEF CombosOf
    <3>2. QED
      BY <1>7, <1>8, <3>1
  <2>2. Left' = Left \ {P}
    BY <1>8, <2>1 DEF Left
  <2>3. P \in Left
    BY <1>6 DEF Left
  <2>4. Left \subseteq SUBSET Params
    BY <1>5, ComboFacts DEF Left, CombosOf
  <2>5. QED
    BY <2>2, <2>3, <2>4
<1>13. /\ Cardinality(TuplesOver(Left)) = Cardinality(TuplesOver(Left)') + ComboSize(P)
       /\ Cardinality(TuplesOver(Left)') \in Nat /\ ComboSize(P) \in Nat
  <2> DEFINE L == Left'
  <2>1. TuplesOver(Left)' = TuplesOver(L)
    BY DEF TuplesOver
  <2>2. Left = L \cup {P} /\ P \notin L /\ L \subseteq SUBSET Params
    BY <1>12
  <2> HIDE DEF L
  <2>3. Cardinality(TuplesOver(L \cup {P}) \cap Tuples) =
            Cardinality(TuplesOver(L) \cap Tuples) + Cardinality(TuplesOver({P}) \cap Tuples)
    BY <1>6, <2>2, CountOneMore
  <2>4. /\ TuplesOver(L \cup {P}) \cap Tuples = TuplesOver(Left)
        /\ TuplesOver(L) \cap Tuples = TuplesOver(L)
        /\ TuplesOver({P}) \cap Tuples = TuplesOf(P)
    BY <1>6, <2>2 DEF TuplesOver, Tuples
  <2>5. Cardinality(TuplesOver(L)) \in Nat
    BY <2>2, TuplesOverFacts
  <2>6. QED
    BY <1>6, <2>1, <2>3, <2>4, <2>5, TuplesOfFacts DEF ComboSize
<1>14. /\ progress' = [toProcess |-> Total, processed |-> progress'.processed]
       /\ progress'.processed \in Nat
       /\ progress'.processed + Cardinality(TuplesOver(Left)') =
              progress.processed + Cardinality(TuplesOver(Left))
  <2>1. progress' = [toProcess |-> Total, processed |-> progress.processed + ComboSize(P)]
    BY <1>1, <1>4
  <2>2. QED
    BY <1>4, <1>13, <2>1
<1>15. MeasuringInv'
  <2>1. RelationsInv(rel)'
    BY <1>1, <1>4, KeepRelations DEF RelationsInv
  <2>2. Total' = Total /\ TotalUpTo(rel)' = TotalUpTo(rel)
    BY <1>1 DEF Total, TotalUpTo
  <2>3. QED
    BY <1>1, <1>4, <1>11, <1>14, <2>1, <2>2 DEF MeasuringInv, RelationsInv
<1>16. CountingInv' /\ MeasuredInv' /\ ResultInv'
  BY <1>1 DEF MInv, CountingInv, MeasuredInv, ResultInv, AfterPcs
<1>17. QED
  BY <1>2, <1>15, <1>16 DEF MInv

\* The relation that is measured gets what its functors have seen.
LEMMA AggregatedRelations ==
    ASSUME Filtered, FunctorsInv, RelationsInv(rel), AggregateFunctors
    PROVE  /\ DOMAIN covm' = Rels
           /\ \A r \in Rels :
                 IF r < rel + 1
                 THEN /\ IsPart(ValidTests, r, covm'[r])
                      /\ ~aborted => IsWhole(ValidTests, r, covm'[r])
                 ELSE covm'[r] = NotMeasured(r)
<1>1. /\ rel \in Rels /\ Rels \subseteq Int
      /\ covm[rel] = [combos  |-> Cardinality(Combos[rel]),
                      toCover |-> NumCombinations(rel),
                      covered |-> <<>>,
                      levels  |-> NoLevels]
  <2>1. rel \in Rels /\ Rels \subseteq Int
    BY Totals DEF FunctorsInv
  <2>2. covm[rel] = NotMeasured(rel)
    BY <2>1 DEF RelationsInv
  <2>3. QED
    BY <2>1, <2>2, NotMeasuredIs
<1>2. /\ DOMAIN covm = Rels
      /\ covm' = [covm EXCEPT ![rel].toCover = @ - SummedInvalid,
                              ![rel].covered = Accumulated(SummedFirst),
                              ![rel].levels = SummedLevels]
  BY DEF RelationsInv, AggregateFunctors, SummedInvalid, SummedFirst, SummedLevels
<1>3. /\ DOMAIN covm' = Rels /\ \A r \in Rels : r # rel => covm'[r] = covm[r]
      /\ covm'[rel] = [combos  |-> Cardinality(Combos[rel]),
                       toCover |-> NumCombinations(rel) - SummedInvalid,
                       covered |-> Accumulated(SummedFirst),
                       levels  |-> SummedLevels]
  <2> DEFINE t == NumCombinations(rel) - SummedInvalid
             a == [covm EXCEPT ![rel].toCover = @ - SummedInvalid]
             b == [a EXCEPT ![rel].covered = Accumulated(SummedFirst)]
             c == [b EXCEPT ![rel].levels = SummedLevels]
  <2>1. covm' = c
    BY <1>2
  <2>2. /\ DOMAIN a = Rels /\ \A r \in Rels : r # rel => a[r] = covm[r]
        /\ a[rel] = [combos |-> Cardinality(Combos[rel]), toCover |-> t,
                     covered |-> <<>>, levels |-> NoLevels]
    BY <1>1, <1>2
  <2> HIDE DEF t, a
  <2>3. /\ DOMAIN b = Rels /\ \A r \in Rels : r # rel => b[r] = covm[r]
        /\ b[rel] = [combos |-> Cardinality(Combos[rel]), toCover |-> t,
                     covered |-> Accumulated(SummedFirst), levels |-> NoLevels]
    BY <1>1, <2>2
  <2> HIDE DEF b
  <2>4. /\ DOMAIN c = Rels /\ \A r \in Rels : r # rel => c[r] = covm[r]
        /\ c[rel] = [combos |-> Cardinality(Combos[rel]), toCover |-> t,
                     covered |-> Accumulated(SummedFirst), levels |-> SummedLevels]
    BY <1>1, <2>3
  <2> HIDE DEF c
  <2>5. QED
    BY <2>1, <2>4 DEF t
<1>4. covm'[rel] = Measured(ValidTests, rel, Seen)
  <2>1. NumCombinations(rel) - SummedInvalid
            = Cardinality(TuplesOver(Combos[rel]) \ Forbidden(Seen))
    BY <1>1, SumsAreCounts, SeenFacts, LeftToCover
  <2>2. Accumulated(SummedFirst)
            = [n \in DOMAIN ValidTests |-> Cardinality(CoveredBy(ValidTests, n, Seen))]
    BY SumsAreCounts, SeenFacts, AccumulatedIsExact
  <2>3. SummedLevels = LevelsOf(ValidTests, Seen)
    BY SumsAreCounts
  <2>4. QED
    BY <1>3, <2>1, <2>2, <2>3 DEF Measured
<1>5. Seen \in SUBSET Combos[rel] /\ (~ aborted => Seen = Combos[rel])
  <2>1. ASSUME ~ aborted
        PROVE  \A p \in DOMAIN functors : functors[p].left = {}
    <3>1. \A p \in DOMAIN functors : Ended(functors[p]) /\ ~ functors[p].stopped
      BY <2>1 DEF AggregateFunctors, FunctorsInv, FunctorInv
    <3>2. QED
      BY <3>1 DEF Ended
  <2>2. QED
    BY <2>1, SeenFacts
<1>6. IsPart(ValidTests, rel, covm'[rel]) /\ (~ aborted => IsWhole(ValidTests, rel, covm'[rel]))
  BY <1>4, <1>5 DEF IsPart, IsWhole
<1>7. ASSUME NEW r \in Rels
      PROVE  IF r < rel + 1
             THEN /\ IsPart(ValidTests, r, covm'[r])
                  /\ ~aborted => IsWhole(ValidTests, r, covm'[r])
             ELSE covm'[r] = NotMeasured(r)
  <2>1. CASE r = rel
    <3>1. r < rel + 1
      BY <1>1, <2>1
    <3>2. QED
      BY <1>6, <2>1, <3>1
  <2>2. CASE r # rel
    <3>1. r < rel + 1 <=> r < rel
      BY <1>1, <2>2
    <3>2. covm'[r] = covm[r]
      BY <1>3, <2>2
    <3>3. QED
      BY <3>1, <3>2 DEF RelationsInv
  <2>3. QED
    BY <2>1, <2>2
<1>8. QED
  BY <1>3, <1>7

\* The next relation is measured, or the measurement is over.
LEMMA AggregateStep ==
    ASSUME OnlyKeptValues, MInv, AggregateFunctors
    PROVE  MInv'
<1>1. /\ pc = "measure"
      /\ \A p \in DOMAIN functors : Ended(functors[p])
      /\ IF rel + 1 \in Rels
         THEN rel' = rel + 1 /\ functors' = NewFunctors(rel + 1) /\ UNCHANGED pc
         ELSE pc' = "decide" /\ functors' = NoFunctors /\ UNCHANGED rel
      /\ UNCHANGED <<allowed, clientTests, aborted, result, tests, invalid, progress, code>>
  BY DEF AggregateFunctors
<1>2. TypesInv' /\ TestsInv'
  <2>1. pc' \in {"measure", "decide"} /\ pc # "filter" /\ pc' # "filter"
    BY <1>1
  <2>2. TestsInv'
    BY <1>1, <2>1, KeepTests DEF MInv
  <2>3. QED
    BY <1>1, <2>1, <2>2 DEF MInv, TypesInv, AfterPcs
<1>3. Filtered /\ aborted \in BOOLEAN
  BY <1>1 DEF MInv, TestsInv, Filtered, TypesInv
<1>4. /\ FunctorsInv /\ RelationsInv(rel)
      /\ progress = [toProcess |-> Total, processed |-> progress.processed]
      /\ progress.processed \in Nat
      /\ progress.processed + Cardinality(TuplesOver(Left)) <= TotalUpTo(rel)
      /\ aborted \/ progress.processed + Cardinality(TuplesOver(Left)) = TotalUpTo(rel)
  BY <1>1 DEF MInv, MeasuringInv
<1>5. rel \in Rels /\ Rels = 1 .. Len(Relations) /\ Len(Relations) \in Nat
      /\ \A n \in 0 .. Len(Relations) : TotalUpTo(n) \in Nat /\ TotalUpTo(n) <= Total
      /\ \A r \in Rels : TotalUpTo(r) = TotalUpTo(r - 1) + NumCombinations(r)
  BY <1>4, Totals DEF FunctorsInv
<1>6. progress.processed <= TotalUpTo(rel) /\ (aborted \/ progress.processed = TotalUpTo(rel))
  <2>1. Left \subseteq SUBSET Params
    <3>1. \A p \in DOMAIN functors : functors[p].left \subseteq Combos[rel]
      BY <1>4, SeenFacts DEF Functor, CombosOf
    <3>2. QED
      BY <1>5, <3>1, ComboFacts DEF Left
  <2>2. Cardinality(TuplesOver(Left)) \in Nat
    BY <2>1, TuplesOverFacts
  <2>3. ~ aborted => Left = {}
    <3>1. ~ aborted => \A p \in DOMAIN functors : functors[p].left = {}
      BY <1>1, <1>4 DEF Ended, FunctorsInv, FunctorInv
    <3>2. QED
      BY <3>1 DEF Left
  <2>4. Left = {} => Cardinality(TuplesOver(Left)) = 0
    BY FS_EmptySet DEF TuplesOver
  <2>5. TotalUpTo(rel) \in Nat
    BY <1>5
  <2>6. QED
    BY <1>4, <2>2, <2>3, <2>4, <2>5
<1> PICK n : n = rel
  OBVIOUS
<1>7. RelationsInv(n + 1)'
  <2>1. /\ DOMAIN covm' = Rels
        /\ \A r \in Rels :
              IF r < rel + 1
              THEN /\ IsPart(ValidTests, r, covm'[r])
                   /\ ~aborted => IsWhole(ValidTests, r, covm'[r])
              ELSE covm'[r] = NotMeasured(r)
    BY <1>3, <1>4, AggregatedRelations
  <2>2. /\ ValidTests' = ValidTests
        /\ \A r : NotMeasured(r)' = NotMeasured(r)
        /\ \A s, r, S : Measured(s, r, S)' = Measured(s, r, S)
    BY <1>1, Unchanged
  <2>3. QED
    BY <1>1, <2>1, <2>2 DEF RelationsInv, IsPart, IsWhole
<1>8. CASE rel + 1 \in Rels
  <2>1. pc' = "measure" /\ rel' = rel + 1 /\ functors' = NewFunctors(rel + 1)
    BY <1>1, <1>8
  <2>2. FunctorsInv' /\ Left' = Combos[rel + 1]
    BY <1>1, <1>3, <1>8, <2>1, NewFunctorsStart
  <2>3. TuplesOver(Left)' = TuplesOver(Combos[rel + 1])
    BY <2>2 DEF TuplesOver
  <2>4. Cardinality(TuplesOver(Left)') = NumCombinations(rel + 1)
        /\ NumCombinations(rel + 1) \in Nat
    BY <1>8, <2>3, CombinationsCounted
  <2>5. TotalUpTo(rel + 1) = TotalUpTo(rel) + NumCombinations(rel + 1)
    <3>1. (rel + 1) - 1 = rel
      BY <1>5
    <3>2. QED
      BY <1>5, <1>8, <3>1
  <2>6. /\ progress'.processed + Cardinality(TuplesOver(Left)') <= TotalUpTo(rel + 1)
        /\ \/ aborted'
           \/ progress'.processed + Cardinality(TuplesOver(Left)') = TotalUpTo(rel + 1)
    <3>1. TotalUpTo(rel) \in Nat /\ progress' = progress /\ aborted' = aborted
      BY <1>1, <1>5
    <3>2. QED
      BY <1>4, <1>6, <2>4, <2>5, <3>1
  <2>7. RelationsInv(rel)'
    BY <1>7, <2>1 DEF RelationsInv
  <2>8. Total' = Total /\ TotalUpTo(rel)' = TotalUpTo(rel + 1)
    BY <2>1 DEF Total, TotalUpTo
  <2>9. MeasuringInv'
    BY <1>1, <1>4, <2>2, <2>6, <2>7, <2>8 DEF MeasuringInv
  <2>10. CountingInv' /\ MeasuredInv' /\ ResultInv'
    BY <1>1, <2>1 DEF MInv, CountingInv, MeasuredInv, ResultInv, AfterPcs
  <2>11. QED
    BY <1>2, <2>9, <2>10 DEF MInv
<1>9. CASE rel + 1 \notin Rels
  <2>1. pc' = "decide" /\ functors' = NoFunctors /\ rel = Len(Relations)
    BY <1>1, <1>5, <1>9
  <2>2. \A r \in Rels : r < rel + 1
    BY <1>5, <2>1
  <2>3. /\ DOMAIN covm' = Rels
        /\ (\A r \in Rels : IsPart(ValidTests, r, covm[r]))'
        /\ aborted' \/ (\A r \in Rels : IsWhole(ValidTests, r, covm[r]))'
    BY <1>1, <1>7, <2>1, <2>2 DEF RelationsInv
  <2>4. Total' = Total /\ TotalUpTo(rel) = Total
    BY <2>1 DEF Total, TotalUpTo
  <2>5. aborted' \/ Complete'
    BY <1>1, <1>6, <2>3, <2>4 DEF Complete
  <2>6. MeasuredInv'
    BY <1>1, <1>4, <1>6, <2>1, <2>3, <2>4, <2>5 DEF MeasuredInv
  <2>7. CountingInv' /\ MeasuringInv' /\ ResultInv'
    BY <1>1, <2>1 DEF MInv, CountingInv, MeasuringInv, ResultInv, AfterPcs
  <2>8. QED
    BY <1>2, <2>6, <2>7 DEF MInv
<1>10. QED
  BY <1>8, <1>9

\* The code says whether the client has asked for an abort: if it has not, all
\* has been measured.
LEMMA DecideStep ==
    ASSUME MInv, DecideCode
    PROVE  MInv'
<1>1. /\ pc = "decide" /\ pc' = "deliver"
      /\ code' = IF aborted THEN "ABORTED" ELSE "COMPLETED"
      /\ UNCHANGED <<allowed, clientTests, aborted, result,
                     tests, invalid, covm, rel, functors, progress>>
  BY DEF DecideCode
<1>2. TypesInv' /\ TestsInv'
  <2>1. TestsInv'
    BY <1>1, KeepTests DEF MInv
  <2>2. QED
    BY <1>1, <2>1 DEF MInv, TypesInv, AfterPcs
<1>3. /\ ValidTests' = ValidTests
      /\ \A r : NotMeasured(r)' = NotMeasured(r)
      /\ \A s, r, S : Measured(s, r, S)' = Measured(s, r, S)
      /\ Total' = Total
  BY <1>1, Unchanged DEF Total, TotalUpTo
<1>4. MeasuredInv'
  <2>1. MeasuredInv /\ aborted \in BOOLEAN
    BY DEF MInv, TypesInv
  <2>2. Complete => Complete'
    BY <1>1, <1>3 DEF Complete, IsWhole
  <2>3. (\A r \in Rels : IsPart(ValidTests, r, covm[r]))'
    BY <1>1, <1>3, <2>1 DEF MeasuredInv, AfterPcs, IsPart
  <2>4. QED
    BY <1>1, <1>3, <2>1, <2>2, <2>3 DEF MeasuredInv, AfterPcs
<1>5. CountingInv' /\ MeasuringInv' /\ ResultInv'
  BY <1>1 DEF MInv, CountingInv, MeasuringInv, ResultInv, AfterPcs
<1>6. QED
  BY <1>2, <1>4, <1>5 DEF MInv

LEMMA DeliverStep ==
    ASSUME MInv, SetCoverageMeasurement
    PROVE  MInv'
<1>1. /\ pc = "deliver" /\ pc' = "done"
      /\ result' = [code |-> code, invalid |-> invalid, relations |-> covm]
      /\ UNCHANGED <<allowed, clientTests, aborted,
                     tests, invalid, covm, rel, functors, progress, code>>
  BY DEF SetCoverageMeasurement
<1>2. TypesInv' /\ TestsInv'
  <2>1. TestsInv'
    BY <1>1, KeepTests DEF MInv
  <2>2. QED
    BY <1>1, <2>1 DEF MInv, TypesInv, AfterPcs
<1>3. /\ ValidTests' = ValidTests
      /\ \A r : NotMeasured(r)' = NotMeasured(r)
      /\ \A s, r, S : Measured(s, r, S)' = Measured(s, r, S)
      /\ Total' = Total
  BY <1>1, Unchanged DEF Total, TotalUpTo
<1>4. MeasuredInv'
  <2>1. Complete => Complete'
    BY <1>1, <1>3 DEF Complete, IsWhole
  <2>2. (\A r \in Rels : IsPart(ValidTests, r, covm[r]))'
    BY <1>1, <1>3 DEF MInv, MeasuredInv, AfterPcs, IsPart
  <2>3. QED
    BY <1>1, <1>3, <2>1, <2>2 DEF MInv, MeasuredInv, AfterPcs
<1>5. CountingInv' /\ MeasuringInv' /\ ResultInv'
  BY <1>1 DEF MInv, CountingInv, MeasuringInv, ResultInv, AfterPcs
<1>6. QED
  BY <1>2, <1>4, <1>5 DEF MInv

\* The client may ask for an abort at any time, and all the threads may rest.
LEMMA OtherStep ==
    ASSUME MInv, Abort \/ UNCHANGED vars
    PROVE  MInv'
<1>1. /\ aborted' \in BOOLEAN /\ (aborted => aborted')
      /\ UNCHANGED <<allowed, clientTests, result,
                     pc, tests, invalid, covm, rel, functors, progress, code>>
  <2>1. aborted \in BOOLEAN
    BY DEF MInv, TypesInv
  <2>2. CASE Abort
    BY <2>1, <2>2 DEF Abort
  <2>3. CASE UNCHANGED vars
    <3>1. UNCHANGED <<allowed, clientTests, result, pc, tests, invalid, covm, rel,
                      functors, progress, code>>
      BY <2>3 DEF vars
    <3>2. aborted' = aborted
      BY <2>3 DEF vars
    <3>3. QED
      BY <2>1, <3>1, <3>2, Zenon
  <2>4. QED
    BY <2>2, <2>3
<1>2. /\ ValidTests' = ValidTests /\ InvalidIndices' = InvalidIndices
      /\ \A r : NotMeasured(r)' = NotMeasured(r)
      /\ \A s, r, S : Measured(s, r, S)' = Measured(s, r, S)
      /\ \A S : Forbidden(S)' = Forbidden(S)
      /\ \A s, S : LevelsOf(s, S)' = LevelsOf(s, S)
      /\ Total' = Total /\ TotalUpTo(rel)' = TotalUpTo(rel)
  BY <1>1, Unchanged DEF Total, TotalUpTo
<1>3. TypesInv' /\ CountingInv' /\ ResultInv'
  BY <1>1, <1>2 DEF MInv, TypesInv, CountingInv, TotalUpTo, ResultInv
<1>4. TestsInv'
  BY <1>1, <1>2 DEF MInv, TestsInv, Internal
<1>5. MeasuringInv'
  <2> SUFFICES ASSUME pc = "measure" PROVE MeasuringInv'
    BY <1>1 DEF MeasuringInv
  <2>1. RelationsInv(rel)'
    <3>1. RelationsInv(rel)
      BY DEF MInv, MeasuringInv
    <3>2. QED
      BY <1>1, <3>1, KeepRelations DEF RelationsInv
  <2>2. FunctorsInv'
    <3>1. FunctorsInv
      BY DEF MInv, MeasuringInv
    <3>2. ASSUME NEW p \in LastParams(rel)
          PROVE  FunctorInv(p)'
      <4>1. FunctorInv(p)
        BY <3>1 DEF FunctorsInv
      <4>2. SeenBy(p)' = SeenBy(p)
        BY <1>1 DEF SeenBy, CombosOf
      <4>3. Functor(CombosOf(p))' = Functor(CombosOf(p))
        BY <1>1 DEF Functor, CombosOf, NumTests
      <4>4. Counts(functors[p], SeenBy(p))'
        BY <1>1, <1>2, <4>1, <4>2 DEF FunctorInv, Counts, FirstCovered, CoveredBy, NumTests
      <4>5. QED
        BY <1>1, <4>1, <4>3, <4>4 DEF FunctorInv
    <3>3. QED
      BY <1>1, <3>1, <3>2 DEF FunctorsInv, LastParams
  <2>3. TuplesOver(Left)' = TuplesOver(Left)
    BY <1>1 DEF TuplesOver, Left
  <2>4. QED
    BY <1>1, <1>2, <2>1, <2>2, <2>3 DEF MInv, MeasuringInv
<1>6. MeasuredInv'
  <2>1. Complete => Complete'
    BY <1>1, <1>2 DEF Complete, IsWhole
  <2>2. pc \in AfterPcs => (\A r \in Rels : IsPart(ValidTests, r, covm[r]))'
    BY <1>1, <1>2 DEF MInv, MeasuredInv, IsPart
  <2>3. QED
    BY <1>1, <1>2, <2>1, <2>2 DEF MInv, MeasuredInv
<1>7. QED
  BY <1>3, <1>4, <1>5, <1>6 DEF MInv

LEMMA MeasuringStep ==
    ASSUME OnlyKeptValues, MInv, [Next]_vars
    PROVE  MInv'
<1>1. CASE FilterTests
  BY <1>1, FilterStep
<1>2. CASE CountCombinations
  BY <1>2, CountStep
<1>3. CASE StartMeasuring
  BY <1>3, StartStep
<1>4. ASSUME NEW p \in DOMAIN functors, VisitCombo(p)
      PROVE  MInv'
  BY <1>4, VisitStep
<1>5. CASE AggregateFunctors
  BY <1>5, AggregateStep
<1>6. CASE DecideCode
  BY <1>6, DecideStep
<1>7. CASE SetCoverageMeasurement
  BY <1>7, DeliverStep
<1>8. CASE Abort \/ UNCHANGED vars
  BY <1>8, OtherStep
<1>9. QED
  BY <1>1, <1>2, <1>3, <1>4, <1>5, <1>6, <1>7, <1>8 DEF Next, Work

\* The inductive invariant: whenever one looks, the tests, the counters and the
\* measurements are exactly what the job's place in its work says.
THEOREM Measuring ==
    ASSUME OnlyKeptValues
    PROVE  Spec => []MInv
<1>1. Init => MInv
  BY InitMeasuring
<1>2. MInv /\ [Next]_vars => MInv'
  BY MeasuringStep
<1>3. QED
  BY <1>1, <1>2, PTL DEF Spec

\* MeasuredProgress: the client never sees more processed than there is, and has
\* seen all of it processed when the result is that of a completed measurement.
THEOREM ProgressIsMeasured ==
    ASSUME OnlyKeptValues
    PROVE  Spec => []MeasuredProgress
<1>1. MInv => MeasuredProgress
  <2> SUFFICES ASSUME MInv PROVE MeasuredProgress
    OBVIOUS
  <2>1. CASE pc = "measure"
    <3>1. FunctorsInv /\ progress.toProcess = Total /\ progress.processed \in Nat
          /\ progress.processed + Cardinality(TuplesOver(Left)) <= TotalUpTo(rel)
      BY <2>1 DEF MInv, MeasuringInv
    <3>2. rel \in Rels /\ TotalUpTo(rel) \in Nat /\ TotalUpTo(rel) <= Total /\ Total \in Nat
      <4>1. rel \in 0 .. Len(Relations) /\ Len(Relations) \in 0 .. Len(Relations)
        BY <3>1, Totals DEF FunctorsInv
      <4>2. QED
        BY <3>1, <4>1, Totals DEF FunctorsInv, Total
    <3>3. Cardinality(TuplesOver(Left)) \in Nat
      <4>1. \A p \in DOMAIN functors : functors[p].left \subseteq Combos[rel]
        BY <3>1, SeenFacts DEF Functor, CombosOf
      <4>2. Left \subseteq SUBSET Params
        BY <3>2, <4>1, ComboFacts DEF Left
      <4>3. QED
        BY <4>2, TuplesOverFacts
    <3>4. progress.processed <= progress.toProcess
      BY <3>1, <3>2, <3>3
    <3>5. result.code # "COMPLETED"
      BY <2>1 DEF MInv, ResultInv, Pending
    <3>6. QED
      BY <3>4, <3>5 DEF MeasuredProgress
  <2>2. CASE pc \in AfterPcs
    <3>1. progress.toProcess = Total /\ progress.processed <= Total
      BY <2>2 DEF MInv, MeasuredInv
    <3>2. result.code = "COMPLETED" => progress.processed = Total
      <4>1. CASE pc = "done"
        <5>1. result.code = code
          BY <4>1 DEF MInv, ResultInv
        <5>2. QED
          BY <2>2, <4>1, <5>1 DEF MInv, MeasuredInv, Complete
      <4>2. CASE pc # "done"
        BY <4>2 DEF MInv, ResultInv, Pending
      <4>3. QED
        BY <4>1, <4>2
    <3>3. QED
      BY <3>1, <3>2 DEF MeasuredProgress
  <2>3. CASE pc \in {"filter", "count"}
    BY <2>3 DEF MInv, ResultInv, Pending, MeasuredProgress
  <2>4. QED
    BY <2>1, <2>2, <2>3 DEF MInv, TypesInv
<1>2. QED
  BY <1>1, Measuring, PTL

\* FunctorCountsExact: whenever one looks, the counters of a functor are exactly
\* those of the combinations it has visited.
THEOREM FunctorsCount ==
    ASSUME OnlyKeptValues
    PROVE  Spec => []FunctorCountsExact
<1>1. MInv => FunctorCountsExact
  <2> SUFFICES ASSUME MInv, NEW p \in DOMAIN functors
               PROVE  LET f == functors[p]
                          seen == {P \in Combos[rel] : Max(P) = p} \ f.left
                      IN /\ f.invalid = Cardinality(Forbidden(seen))
                         /\ f.levels = LevelsOf(ValidTests, seen)
                         /\ Accumulated(f.covered) =
                                [n \in DOMAIN ValidTests |->
                                    Cardinality(CoveredBy(ValidTests, n, seen))]
    BY DEF FunctorCountsExact
  <2>1. pc = "measure"
    BY DEF MInv, ResultInv, NoFunctors
  <2>2. FunctorsInv /\ Filtered
    BY <2>1 DEF MInv, MeasuringInv, TestsInv, Filtered
  <2>3. SeenBy(p) = {P \in Combos[rel] : Max(P) = p} \ functors[p].left
    BY DEF SeenBy, CombosOf
  <2>4. /\ Counts(functors[p], SeenBy(p)) /\ SeenBy(p) \subseteq SUBSET Params
        /\ functors[p] \in Functor(CombosOf(p))
    BY <2>2, SeenFacts DEF SeenSets
  <2>5. FirstCounts(functors[p].covered, SeenBy(p))
    BY <2>4 DEF FirstCounts, Counts, Functor
  <2>6. Accumulated(functors[p].covered) =
            [n \in DOMAIN ValidTests |-> Cardinality(CoveredBy(ValidTests, n, SeenBy(p)))]
    BY <2>2, <2>4, <2>5, AccumulatedIsExact
  <2>7. QED
    BY <2>3, <2>4, <2>6 DEF Counts
<1>2. QED
  BY <1>1, Measuring, PTL

\* The promise is stated in terms of the job's own variables.
LEMMA PromiseIsOwn ==
    /\ Job!JobInit <=> JobInit
    /\ Job!RequestAbort <=> RequestAbort
    /\ Job!Deliver <=> Deliver
    /\ Job!measurementVars = measurementVars
<1> USE DEF Job!Params, Params, Job!Dom, Dom, Job!DontCare, DontCare,
            Job!ClientValue, ClientValue
<1>1. \A S : Job!Cardinality(S) = Cardinality(S)
  BY DEF Job!Cardinality, Cardinality
<1>2. Job!InvalidIndices = InvalidIndices
  BY DEF Job!InvalidIndices, Job!Admissible, InvalidIndices, Admissible
<1>3. ASSUME NEW s, NEW I PROVE Job!AtPositions(s, I) = AtPositions(s, I)
  BY DEF Job!AtPositions, AtPositions, Job!Cardinality, Cardinality
<1>4. Job!ValidTests = ValidTests
  BY <1>2, <1>3 DEF Job!ValidTests, ValidTests
<1>5. Job!Rels = Rels /\ Job!Combos = Combos
  <2>1. Job!Rels = Rels /\ \A r : Job!RelParams(r) = RelParams(r)
    BY DEF Job!Rels, Rels, Job!RelParams, RelParams, Job!RelLen, RelLen
  <2>2. \A n, S : Job!kSubset(n, S) = kSubset(n, S)
    BY DEF Job!kSubset, kSubset, Job!Cardinality, Cardinality
  <2>3. QED
    BY <2>1, <2>2 DEF Job!Combos, Combos
<1>6. \A P : Job!TuplesOf(P) = TuplesOf(P)
  BY DEF Job!TuplesOf, TuplesOf, Job!AllValues, AllValues
<1>7. ASSUME NEW S PROVE Job!TuplesOver(S) = TuplesOver(S)
  BY <1>6 DEF Job!TuplesOver, TuplesOver
<1>8. ASSUME NEW S PROVE Job!Forbidden(S) = Forbidden(S)
  BY <1>7 DEF Job!Forbidden, Forbidden, Job!TupleAllowed, TupleAllowed, Job!Covers, Covers
<1>9. ASSUME NEW s, NEW n, NEW S PROVE Job!CoveredBy(s, n, S) = CoveredBy(s, n, S)
  BY <1>7 DEF Job!CoveredBy, CoveredBy, Job!CoversTuple, CoversTuple
<1>10. ASSUME NEW s, NEW S PROVE Job!LevelsOf(s, S) = LevelsOf(s, S)
  <2>1. ASSUME NEW P PROVE Job!Settled(s, P) = Settled(s, P)
    BY <1>8, <1>9 DEF Job!Settled, Settled
  <2> DEFINE n == NUM_DIFFERENTIATED_COVERAGE_LEVELS
             reach(P, l) == (n - 1) * Cardinality(Settled(s, {P})) >= l * Cardinality(TuplesOf(P))
             jobReach(P, l) == (n - 1) * Job!Cardinality(Job!Settled(s, {P}))
                                   >= l * Job!Cardinality(Job!TuplesOf(P))
  <2>2. ASSUME NEW l PROVE {P \in S : jobReach(P, l)} = {P \in S : reach(P, l)}
    BY <1>1, <1>6, <2>1
  <2>3. Job!NUM_DIFFERENTIATED_COVERAGE_LEVELS = n
    BY DEF Job!NUM_DIFFERENTIATED_COVERAGE_LEVELS, NUM_DIFFERENTIATED_COVERAGE_LEVELS
  <2>4. LevelsOf(s, S) = [l \in 0 .. n - 1 |-> Cardinality({P \in S : reach(P, l)})]
    BY DEF LevelsOf
  <2>5. Job!LevelsOf(s, S) = [l \in 0 .. n - 1 |-> Job!Cardinality({P \in S : jobReach(P, l)})]
    BY <2>3 DEF Job!LevelsOf
  <2> HIDE DEF n, reach, jobReach
  <2>6. QED
    BY <1>1, <2>2, <2>4, <2>5
<1>11. ASSUME NEW s, NEW r, NEW S PROVE Job!Measured(s, r, S) = Measured(s, r, S)
  BY <1>1, <1>5, <1>7, <1>8, <1>9, <1>10 DEF Job!Measured, Measured
<1>12. QED
  BY <1>2, <1>4, <1>5, <1>11 DEF Job!JobInit, Job!Pending, Job!RequestAbort, Job!Deliver,
     Job!IsWhole, Job!IsPart, Job!NotMeasured, Job!measurementVars,
     JobInit, Pending, RequestAbort, Deliver, IsWhole, IsPart, NotMeasured,
     measurementVars

\* Each step of the job is one that its promise allows, or one the client does not
\* see.
LEMMA MeasurementPromised ==
    ASSUME MInv, [Next]_vars
    PROVE  [RequestAbort \/ Deliver]_measurementVars
<1>1. CASE SetCoverageMeasurement
  <2>1. /\ pc = "deliver" /\ result = Pending
        /\ result' = [code |-> code, invalid |-> invalid, relations |-> covm]
        /\ UNCHANGED <<allowed, clientTests, aborted>>
    BY <1>1 DEF SetCoverageMeasurement, MInv, ResultInv
  <2>2. result'.code = code /\ result'.invalid = invalid /\ result'.relations = covm
    BY <2>1
  <2>3. invalid = InvalidIndices /\ DOMAIN covm = Rels
    BY <2>1 DEF MInv, TestsInv, MeasuredInv, AfterPcs
  <2>4. \/ code = "COMPLETED" /\ \A r \in Rels : IsWhole(ValidTests, r, covm[r])
        \/ aborted /\ code = "ABORTED" /\ \A r \in Rels : IsPart(ValidTests, r, covm[r])
    BY <2>1 DEF MInv, MeasuredInv, Complete, AfterPcs
  <2>5. Deliver
    BY <2>1, <2>2, <2>3, <2>4 DEF Deliver
  <2>6. QED
    BY <2>5
<1>2. CASE Abort
  BY <1>2 DEF Abort, RequestAbort
<1>3. CASE ~ SetCoverageMeasurement /\ ~ Abort
  BY <1>3 DEF Next, Work, FilterTests, CountCombinations, StartMeasuring, VisitCombo,
              AggregateFunctors, DecideCode, vars, measurementVars
<1>4. QED
  BY <1>1, <1>2, <1>3

\* The safety part of ImplementsMeasurement: a measurement delivers one result, and
\* it is exactly what was promised.
THEOREM MeasurementKeepsPromise ==
    ASSUME OnlyKeptValues
    PROVE  Spec => Job!JobSafety
<1>1. Init => JobInit
  BY DEF Init
<1>2. MInv /\ [Next]_vars => [RequestAbort \/ Deliver]_measurementVars
  BY MeasurementPromised
<1>3. Init => Job!JobInit
  BY <1>1, PromiseIsOwn
<1>4. MInv /\ [Next]_vars => [Job!RequestAbort \/ Job!Deliver]_Job!measurementVars
  BY <1>2, PromiseIsOwn DEF Job!measurementVars, measurementVars
<1>5. QED
  BY <1>3, <1>4, Measuring, PTL DEF Spec, Job!JobSafety
================================================================================

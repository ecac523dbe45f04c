------------------------------- MODULE IpogProofs -------------------------------
(***************************************************************************)
(* For every model, every set of constraints and every set of seeded       *)
(* tests: the variables of an IPOG job keep their types, every test it has *)
(* can at any time be completed to one that satisfies the constraints, the *)
(* tests it delivers satisfy them if don't care values are replaced, and   *)
(* no tuple is marked valid that is not allowed.                           *)
(*                                                                         *)
(* A job that completes delivers a covering array.  On the way to it:      *)
(* values are never changed, the marks of the coverage maps are sound, the *)
(* number of missing combinations is exact, and the parameters reported as *)
(* processed have their tuples covered.  During the vertical extension     *)
(* every test is in exactly one of the lists, once, and in the right one.  *)
(* And the counters of the handle are exact for the models for which the   *)
(* code counts no combination twice.                                       *)
(***************************************************************************)
EXTENDS IpogProperties, CombinatorialModelProofs, SequenceTheorems

-------------------------------------------------------------------------------
(* The inductive invariant of types and tests *)

BodyPcs == HorizontalPcs \cup VerticalPcs \cup {"advance"}

\* The current parameter exists while it is worked on, and the next parameter
\* of every relation left does.
CursorInv ==
    /\ pc \in {"init", "filter", "prefix"} => cur = 1
    /\ pc = "countPrefix" => cur <= FirstParamIdx
    /\ pc \in BodyPcs => cur <= NumUsed
    /\ \A r \in live : idx[r] < RelLen(r)
    /\ pc \in VerticalPcs => vx.pending \subseteq live

\* The indices of tests that are kept are indices of tests.
IndicesInv ==
    /\ pc \notin {"init", "filter"} => numSeeds <= Len(tests)
    /\ pc \in HorizontalPcs \cup VerticalPcs =>
           /\ \A v \in AllValues : \A k \in DOMAIN rows[v] : rows[v][k] \in DOMAIN tests
           /\ \A k \in DOMAIN dcRows : dcRows[k] \in DOMAIN tests
    /\ pc \in VerticalPcs => vx.modified \subseteq DOMAIN tests

\* What the constraint handler said of a test still holds when the horizontal
\* extension gets to the test, and the selected value can be set.
HorizontalInv ==
    /\ pc \in {"select", "commit"} =>
           /\ hx.ti \in DOMAIN tests
           /\ Len(hx.validValues) = Len(tests)
           /\ \A i \in hx.ti .. Len(tests) :
                  hx.validValues[i] = ValidValues(tests[i], cur)
    /\ pc = "commit" /\ hx.selected # -1 =>
           /\ hx.selected \in Dom(cur)
           /\ Extendable(allowed, Assign(tests[hx.ti], cur, hx.selected))

\* The pairs not marked covered are pairs of the coverage maps.
MapsInv == pc \in HorizontalPcs \cup VerticalPcs => uncovered \subseteq MapTuples

IInv == /\ TypeOK /\ CursorInv /\ IndicesInv /\ HorizontalInv /\ MapsInv
        /\ TestsExtendable /\ ValidMarksSound

-------------------------------------------------------------------------------
(* Lemmas about the operators *)

\* The prefix is no longer than the parameter index map.
LEMMA FirstParamIdxType == FirstParamIdx \in 0 .. NumUsed
<1> DEFINE S == {0} \cup {n \in 1 .. NumUsed :
                      /\ \E r \in Rels : n <= Relations[r].strength
                      /\ \E r \in Rels : SharesPrefix(r, n)}
<1>1. S \in SUBSET (0 .. NumUsed) /\ S # {}
  BY UsedFacts
<1>2. Max(S) \in S
  BY <1>1, UsedFacts, BoundedMax
<1>3. QED
  BY <1>1, <1>2 DEF FirstParamIdx

\* The tuples of the coverage maps are tuples.
LEMMA MapTuplesType ==
    ASSUME live \subseteq Rels, idx \in [Rels -> Nat],
           \A r \in live : idx[r] < RelLen(r), cur \in 1 .. NumUsed
    PROVE  /\ MapTuples \subseteq Rels \X Tuples
           /\ \A r \in live : MapCombos(r) \subseteq SUBSET Params
<1>1. ASSUME NEW r \in live
      PROVE  FirstParams(r, idx[r]) \subseteq Params
  BY <1>1, UsedFacts DEF FirstParams
<1>2. cur \in Params
  BY UsedFacts
<1>3. ASSUME NEW r \in live, NEW S \in MapCombos(r)
      PROVE  S \in SUBSET Params
  BY <1>1, <1>2 DEF MapCombos, kSubset
<1>4. \A r \in live : \A S \in MapCombos(r) : TuplesOf(S) \subseteq Tuples
  BY <1>3 DEF Tuples
<1>5. Participants \subseteq live
  BY DEF Participants
<1>6. QED
  BY <1>3, <1>4, <1>5 DEF MapTuples

\* They have a value of the current parameter.
LEMMA MapTuplesCurrent ==
    ASSUME cur \in Params, NEW ru \in MapTuples
    PROVE  cur \in DOMAIN ru[2] /\ ru[2][cur] \in Dom(cur)
<1>1. PICK r \in Participants : \E S \in MapCombos(r) : ru[2] \in TuplesOf(S)
  BY DEF MapTuples
<1>2. PICK S \in MapCombos(r) : ru[2] \in TuplesOf(S)
  BY <1>1
<1>3. cur \in S
  BY DEF MapCombos
<1>4. QED
  BY <1>2, <1>3 DEF TuplesOf

\* The valid values of a parameter are values, and its own if the test has one.
LEMMA ValidValuesType ==
    ASSUME NEW t \in PartialTests, NEW p \in Params
    PROVE  /\ ValidValues(t, p) \in SUBSET AllValues
           /\ ValidValues(t, p) \in SUBSET Dom(p)
BY TestFacts, DomFacts DEF ValidValues

\* A valid value of a completable test can be set, also in place of the value
\* the test has, if it has one.
LEMMA ValidValueExtendable ==
    ASSUME NEW t \in PartialTests, NEW p \in Params, NEW v \in ValidValues(t, p),
           Extendable(allowed, t), allowed \subseteq FullTests
    PROVE  Extendable(allowed, Assign(t, p, v))
<1>1. CASE ~Constrained(allowed, p)
  <2>1. PICK a \in allowed : Fits(t, a)
    BY DEF Extendable
  <2>2. v \in Dom(p)
    BY ValidValuesType
  <2>3. Assign(a, p, v) \in allowed
    BY <1>1, <2>2 DEF Constrained
  <2>4. Fits(Assign(t, p, v), Assign(a, p, v))
    BY <2>1, TestFacts, FullTestFacts DEF Fits, Assign
  <2>5. QED
    BY <2>3, <2>4 DEF Extendable
<1>2. CASE Constrained(allowed, p) /\ t[p] # DontCare
  <2>1. v = t[p]
    BY <1>2 DEF ValidValues
  <2>2. Assign(t, p, v) = t
    BY <2>1, TestFacts DEF Assign
  <2>3. QED
    BY <2>2
<1>3. CASE Constrained(allowed, p) /\ t[p] = DontCare
  BY <1>3 DEF ValidValues
<1>4. QED
  BY <1>1, <1>2, <1>3

\* The completion of a completable test is allowed.
LEMMA CompletionAllowed ==
    ASSUME NEW t, Extendable(allowed, t)
    PROVE  Completion(t) \in allowed
BY DEF Completion, Extendable

\* One test of a sequence can be replaced.
LEMMA SetTest ==
    ASSUME NEW s \in Seq(PartialTests), NEW i \in DOMAIN s, NEW t \in PartialTests
    PROVE  /\ [s EXCEPT ![i] = t] \in Seq(PartialTests)
           /\ Len([s EXCEPT ![i] = t]) = Len(s)
           /\ \A j \in DOMAIN s : [s EXCEPT ![i] = t][j] = IF j = i THEN t ELSE s[j]
BY ExceptSeq

-------------------------------------------------------------------------------
(* Type correctness *)

\* Sets of tests' indices, of map tuples and of combinations can be counted.
LEMMA Counts ==
    /\ \A T \in SUBSET (Rels \X Tuples) : Cardinality(T) \in Nat
    /\ Cardinality(TargetTuples) \in Nat
    /\ \A n \in Nat : \A I \in SUBSET (1 .. n) : Cardinality(I) \in Nat
<1>1. \A T \in SUBSET (Rels \X Tuples) : Cardinality(T) \in Nat
  BY TaggedFinite
<1>2. Cardinality(TargetTuples) \in Nat
  BY <1>1, TargetTuplesType
<1>3. ASSUME NEW n \in Nat, NEW I \in SUBSET (1 .. n)
      PROVE  Cardinality(I) \in Nat
  <2>1. IsFiniteSet(1 .. n)
    BY FS_Interval
  <2>2. IsFiniteSet(I)
    BY <2>1, FS_Subset
  <2>3. QED
    BY <2>2, FS_CardinalityType
<1>4. QED
  BY <1>1, <1>2, <1>3

\* The initial values.
LEMMA InitIInv == Init => IInv
<1> SUFFICES ASSUME Init PROVE IInv
  OBVIOUS
<1>1. tests \in Seq(PartialTests) /\ allowed \in ConstraintSets
  BY InputAssumption DEF Init
<1>2. NoRows \in [AllValues -> Seq(Nat)]
  BY DEF NoRows
<1>3. NoHorizontal \in HorizontalLocals
  BY DEF NoHorizontal, HorizontalLocals
<1>4. NoVertical \in VerticalLocals
  BY DEF NoVertical, VerticalLocals
<1>5. handle \in Counters
  BY DEF Init, Counters
<1>6. idx \in [Rels -> Nat] /\ live = Rels /\ cur \in 1 .. (NumUsed + 1)
  BY UsedFacts DEF Init
<1>7. result \in [code : {"PENDING", "ABORTED", "COMPLETED"}, tests : TestSeqs]
  BY DEF Init, Pending, TestSeqs
<1>8. pc \in Pcs
  BY DEF Init, Pcs
<1>9. TypeOK
  <2>1. numSeeds \in Nat /\ missing \in Int /\ dcRows \in Seq(Nat)
    BY DEF Init
  <2>2. uncovered \subseteq Rels \X Tuples /\ valid \subseteq Rels \X Tuples
    BY DEF Init
  <2>3. aborted \in BOOLEAN /\ rows \in [AllValues -> Seq(Nat)]
    BY <1>2 DEF Init
  <2>4. hx \in HorizontalLocals /\ vx \in VerticalLocals /\ live \subseteq Rels
    BY <1>3, <1>4, <1>6 DEF Init
  <2>5. QED
    BY <1>1, <1>5, <1>6, <1>7, <1>8, <2>1, <2>2, <2>3, <2>4, Zenon DEF TypeOK, TestSeqs
<1>10. CursorInv
  BY UsedFacts DEF Init, CursorInv, BodyPcs, HorizontalPcs, VerticalPcs, RelationPcs
<1>11. IndicesInv
  BY DEF Init, IndicesInv, HorizontalPcs, VerticalPcs, RelationPcs
<1>12. HorizontalInv
  BY DEF Init, HorizontalInv
<1>13. TestsExtendable
  BY DEF Init, TestsExtendable
<1>14. ValidMarksSound
  BY DEF Init, ValidMarksSound
<1>15. MapsInv
  BY DEF Init, MapsInv, HorizontalPcs, VerticalPcs, RelationPcs
<1>16. QED
  BY <1>9, <1>10, <1>11, <1>12, <1>13, <1>14, <1>15 DEF IInv

\* Where the program counter goes, and how it gets into each phase.
LEMMA PcStep ==
    ASSUME pc \in Pcs, [Next]_vars
    PROVE  /\ pc' \in Pcs
           /\ pc' \notin {"init", "filter"} =>
                  pc \notin {"init", "filter"} \/ CountCombinations
           /\ pc' \in HorizontalPcs \cup VerticalPcs =>
                  pc \in HorizontalPcs \cup VerticalPcs \/ BeginParameter
           /\ pc' \in VerticalPcs => pc \in VerticalPcs \/ FinishHorizontal
           /\ pc' \in BodyPcs => pc \in BodyPcs \/ pc = "param"
<1> USE DEF Pcs, HorizontalPcs, VerticalPcs, RelationPcs, BodyPcs
<1>1. CASE Abort
  BY <1>1 DEF Abort
<1>2. CASE EnterConstruction
  BY <1>2 DEF EnterConstruction
<1>3. CASE EraseInvalidSeed
  BY <1>3 DEF EraseInvalidSeed
<1>4. CASE CountCombinations
  BY <1>4 DEF CountCombinations
<1>5. CASE CreatePrefixTest
  BY <1>5 DEF CreatePrefixTest
<1>6. CASE PrefixDone
  BY <1>6 DEF PrefixDone
<1>7. CASE CountPrefixParameter
  BY <1>7 DEF CountPrefixParameter
<1>8. CASE LeaveLoop
  BY <1>8 DEF LeaveLoop
<1>9. CASE SingleValuedParameter
  BY <1>9 DEF SingleValuedParameter
<1>10. CASE BeginParameter
  BY <1>10 DEF BeginParameter
<1>11. CASE SelectSeededValue
  BY <1>11 DEF SelectSeededValue, Pick
<1>12. CASE SelectBestValue
  BY <1>12 DEF SelectBestValue, Pick
<1>13. CASE SelectNoValue
  BY <1>13 DEF SelectNoValue
<1>14. CASE CommitValue
  BY <1>14 DEF CommitValue, AfterCommit
<1>15. CASE CommitNoValue
  BY <1>15 DEF CommitNoValue, AfterCommit
<1>16. CASE FinishHorizontal
  BY <1>16 DEF FinishHorizontal
<1>17. CASE StartRelation
  BY <1>17 DEF StartRelation
<1>18. CASE NextCombo
  BY <1>18 DEF NextCombo
<1>19. CASE RejectTuple
  BY <1>19 DEF RejectTuple, AfterTuple
<1>20. CASE InjectIntoMatchingTest
  BY <1>20 DEF InjectIntoMatchingTest, TakeTuple, AfterTuple
<1>21. CASE InjectIntoDontCareTest
  BY <1>21 DEF InjectIntoDontCareTest, TakeTuple, AfterTuple
<1>22. CASE AddTest
  BY <1>22 DEF AddTest, TakeTuple, AfterTuple
<1>23. CASE EndCombo
  BY <1>23 DEF EndCombo
<1>24. CASE EndRelation
  BY <1>24 DEF EndRelation
<1>25. CASE FinishVertical
  BY <1>25 DEF FinishVertical
<1>26. CASE AdvanceRelations
  BY <1>26 DEF AdvanceRelations
<1>27. CASE ReplaceDontCareValues
  BY <1>27 DEF ReplaceDontCareValues
<1>28. CASE Publish
  BY <1>28 DEF Publish
<1>29. CASE UNCHANGED vars
  BY <1>29 DEF vars
<1>30. QED
  BY <1>1, <1>2, <1>3, <1>4, <1>5, <1>6, <1>7, <1>8, <1>9, <1>10, <1>11, <1>12, <1>13, <1>14, <1>15, <1>16, <1>17, <1>18, <1>19, <1>20, <1>21, <1>22, <1>23, <1>24, <1>25, <1>26, <1>27, <1>28, <1>29
     DEF Next, Worker, Horizontal, Vertical, Terminated

\* A relation left whose next parameter is the current one has coverage map
\* tuples while there is a current parameter.
LEMMA MapTuplesNow ==
    ASSUME IInv, cur <= NumUsed
    PROVE  /\ cur \in Params
           /\ MapTuples \subseteq Rels \X Tuples
           /\ \A r \in live : MapCombos(r) \subseteq SUBSET Params
<1>1. /\ idx \in [Rels -> Nat] /\ live \subseteq Rels /\ \A r \in live : idx[r] < RelLen(r)
      /\ cur \in 1 .. NumUsed
  BY UsedFacts DEF IInv, TypeOK, CursorInv
<1>2. QED
  BY <1>1, MapTuplesType, UsedFacts

\* The next tuple of the vertical extension has a value of the current parameter.
LEMMA NextTupleFacts ==
    ASSUME IInv, pc = "tuple", NEW u \in Tuples, IsNextTuple(u)
    PROVE  <<vx.rel, u>> \in uncovered /\ u[cur] \in Dom(cur) /\ u[cur] \in AllValues
<1>1. pc \in HorizontalPcs \cup VerticalPcs /\ pc \in BodyPcs
  BY DEF VerticalPcs, RelationPcs, BodyPcs
<1>2. uncovered \subseteq MapTuples /\ cur <= NumUsed
  BY <1>1 DEF IInv, MapsInv, CursorInv
<1>3. cur \in Params
  BY <1>2, MapTuplesNow
<1>4. QED
  BY <1>2, <1>3, MapTuplesCurrent, DomFacts DEF IsNextTuple

\* Where the vertical extension injects a tuple.
LEMMA InjectionStep ==
    ASSUME IInv, InjectIntoMatchingTest \/ InjectIntoDontCareTest
    PROVE  \E u \in Tuples, i \in DOMAIN tests :
              /\ <<vx.rel, u>> \in uncovered
              /\ u[cur] \in Dom(cur)
              /\ Accepts(i, u)
              /\ tests' = [tests EXCEPT ![i] = Inject(@, u)]
              /\ vx'.modified = vx.modified \cup {i}
              /\ rows' \in {rows, [rows EXCEPT ![u[cur]] = Append(@, i)]}
              /\ dcRows' = dcRows \/ \E k \in DOMAIN dcRows : dcRows' = RemoveAtPos(dcRows, k)
<1>1. /\ pc = "tuple" /\ pc \in VerticalPcs /\ pc \in BodyPcs
      /\ vx \in VerticalLocals
  BY DEF InjectIntoMatchingTest, InjectIntoDontCareTest, VerticalPcs, RelationPcs, BodyPcs,
         IInv, TypeOK
<1>3. ASSUME NEW u \in Tuples, IsNextTuple(u)
      PROVE  <<vx.rel, u>> \in uncovered /\ u[cur] \in Dom(cur) /\ u[cur] \in AllValues
  BY <1>1, <1>3, NextTupleFacts
<1>4. CASE InjectIntoMatchingTest
  <2>1. rows' = rows /\ dcRows' = dcRows
    BY <1>4 DEF InjectIntoMatchingTest, partVars
  <2>2. PICK u \in Tuples :
            /\ IsNextTuple(u)
            /\ \E k \in DOMAIN rows[u[cur]] :
                  /\ IsFirstAccepting(rows[u[cur]], k, u)
                  /\ tests' = [tests EXCEPT ![rows[u[cur]][k]] = Inject(@, u)]
                  /\ TakeTuple(u, {rows[u[cur]][k]})
    BY <1>4 DEF InjectIntoMatchingTest
  <2>3. PICK k \in DOMAIN rows[u[cur]] :
            /\ Accepts(rows[u[cur]][k], u)
            /\ tests' = [tests EXCEPT ![rows[u[cur]][k]] = Inject(@, u)]
            /\ TakeTuple(u, {rows[u[cur]][k]})
    BY <2>2 DEF IsFirstAccepting
  <2>4. rows[u[cur]][k] \in DOMAIN tests
    BY <1>1, <1>3, <2>2 DEF IInv, IndicesInv
  <2>5. vx'.modified = vx.modified \cup {rows[u[cur]][k]}
    BY <1>1, <2>3 DEF TakeTuple, VerticalLocals
  <2>6. QED
    BY <1>3, <2>1, <2>2, <2>3, <2>4, <2>5
<1>5. CASE InjectIntoDontCareTest
  <2>1. PICK u \in Tuples :
            /\ IsNextTuple(u)
            /\ \E k \in DOMAIN dcRows :
                  /\ IsFirstAccepting(dcRows, k, u)
                  /\ tests' = [tests EXCEPT ![dcRows[k]] = Inject(@, u)]
                  /\ dcRows' = RemoveNode(dcRows, k)
                  /\ rows' = [rows EXCEPT ![u[cur]] = Append(@, dcRows[k])]
                  /\ TakeTuple(u, {dcRows[k]})
    BY <1>5 DEF InjectIntoDontCareTest
  <2>2. PICK k \in DOMAIN dcRows :
            /\ Accepts(dcRows[k], u)
            /\ tests' = [tests EXCEPT ![dcRows[k]] = Inject(@, u)]
            /\ dcRows' = RemoveAtPos(dcRows, k)
            /\ rows' = [rows EXCEPT ![u[cur]] = Append(@, dcRows[k])]
            /\ TakeTuple(u, {dcRows[k]})
    BY <2>1 DEF IsFirstAccepting, RemoveNode
  <2>3. dcRows[k] \in DOMAIN tests
    BY <1>1 DEF IInv, IndicesInv
  <2>4. vx'.modified = vx.modified \cup {dcRows[k]}
    BY <1>1, <2>2 DEF TakeTuple, VerticalLocals
  <2>5. QED
    BY <1>3, <2>1, <2>2, <2>3, <2>4
<1>6. QED
  BY <1>4, <1>5

\* The test set stays a sequence of tests.
LEMMA TestsStep == IInv /\ [Next]_vars => tests' \in TestSeqs
<1> SUFFICES ASSUME IInv, [Next]_vars PROVE tests' \in Seq(PartialTests)
  BY DEF TestSeqs
<1>1. /\ tests \in Seq(PartialTests)
      /\ \A i \in DOMAIN tests : tests[i] \in PartialTests
  BY DEF IInv, TypeOK, TestSeqs
<1>2. pc \in BodyPcs => cur \in Params
  BY MapTuplesNow DEF IInv, CursorInv
<1>3. CASE EraseInvalidSeed
  BY <1>1, <1>3, RemoveAtPosFacts DEF EraseInvalidSeed
<1>4. CASE CreatePrefixTest
  <2>1. PICK u \in TuplesOf(1 .. FirstParamIdx) : tests' = Append(tests, Inject(Unassigned, u))
    BY <1>4 DEF CreatePrefixTest, PrefixCombosLeft
  <2>2. u \in Tuples
    <3>1. 1 .. FirstParamIdx \in SUBSET Params
      BY FirstParamIdxType, UsedFacts
    <3>2. QED
      BY <3>1 DEF Tuples
  <2>3. Unassigned \in PartialTests
    BY DEF Unassigned, PartialTests
  <2>4. QED
    BY <1>1, <2>1, <2>2, <2>3, TestTypes
<1>5. CASE SingleValuedParameter
  <2>1. cur \in Params
    BY <1>5, UsedFacts DEF IInv, TypeOK, SingleValuedParameter
  <2>2. \A i \in DOMAIN tests : Assign(tests[i], cur, 0) \in PartialTests
    BY <1>1, <2>1, DomFacts, TestTypes
  <2>3. QED
    BY <1>1, <1>5, <2>2 DEF SingleValuedParameter
<1>6. CASE CommitValue
  <2>1. cur \in Params /\ hx.ti \in DOMAIN tests /\ hx.selected \in Dom(cur)
    BY <1>2, <1>6 DEF IInv, HorizontalInv, CommitValue, BodyPcs, HorizontalPcs
  <2>2. Assign(tests[hx.ti], cur, hx.selected) \in PartialTests
    BY <1>1, <2>1, TestTypes
  <2>3. QED
    BY <1>1, <1>6, <2>1, <2>2, SetTest DEF CommitValue
<1>7. CASE InjectIntoMatchingTest \/ InjectIntoDontCareTest
  <2>1. PICK u \in Tuples, i \in DOMAIN tests : tests' = [tests EXCEPT ![i] = Inject(@, u)]
    BY <1>7, InjectionStep
  <2>2. Inject(tests[i], u) \in PartialTests
    BY <1>1, TestTypes
  <2>3. QED
    BY <1>1, <2>1, <2>2, SetTest
<1>8. CASE AddTest
  <2>1. PICK u \in Tuples : tests' = Append(tests, Inject(Unassigned, u))
    BY <1>8 DEF AddTest
  <2>2. Unassigned \in PartialTests
    BY DEF Unassigned, PartialTests
  <2>3. QED
    BY <1>1, <2>1, <2>2, TestTypes
<1>9. CASE ReplaceDontCareValues
  <2>1. \A i \in DOMAIN tests : Completion(tests[i]) \in PartialTests
    <3>1. TAKE i \in DOMAIN tests
    <3>2. Extendable(allowed, tests[i])
      BY <1>9 DEF IInv, TestsExtendable, ReplaceDontCareValues
    <3>3. Completion(tests[i]) \in allowed
      BY <3>2, CompletionAllowed
    <3>4. QED
      BY <3>3, InputAssumption, FullTestFacts DEF IInv, TypeOK
  <2>2. QED
    BY <1>1, <1>9, <2>1 DEF ReplaceDontCareValues
<1>10. CASE UNCHANGED tests
  BY <1>1, <1>10
<1>11. QED
  <2>1. \/ UNCHANGED tests \/ EraseInvalidSeed \/ CreatePrefixTest \/ SingleValuedParameter
        \/ CommitValue \/ InjectIntoMatchingTest \/ InjectIntoDontCareTest \/ AddTest
        \/ ReplaceDontCareValues
    BY Zenon DEF Next, vars, Worker, Horizontal, Vertical, Terminated, Abort, EnterConstruction,
       CountCombinations, PrefixDone, CountPrefixParameter, LeaveLoop, BeginParameter,
       SelectSeededValue, SelectBestValue, SelectNoValue, CommitNoValue, FinishHorizontal,
       StartRelation, NextCombo, RejectTuple, EndCombo, EndRelation, FinishVertical,
       AdvanceRelations, Publish
  <2>2. QED
    BY <2>1, <1>3, <1>4, <1>5, <1>6, <1>7, <1>8, <1>9, <1>10

\* The combinations of the first parameters of relations are tuples.
LEMMA FirstParamsTuples ==
    ASSUME IInv, NEW r \in live
    PROVE  \A n \in 0 .. RelLen(r) : TuplesOf(FirstParams(r, n)) \subseteq Tuples
<1>1. r \in Rels
  BY DEF IInv, TypeOK
<1>2. ASSUME NEW n \in 0 .. RelLen(r)
      PROVE  FirstParams(r, n) \in SUBSET Params
  BY <1>1, <1>2, UsedFacts DEF FirstParams
<1>3. QED
  BY <1>2 DEF Tuples

\* The relations that have the current parameter next advance, and those left
\* have a parameter left.
LEMMA AdvanceFacts ==
    ASSUME IInv
    PROVE  /\ Advanced \in [Rels -> Nat]
           /\ \A r \in live : Advanced[r] \in 0 .. RelLen(r)
           /\ LiveAfter \subseteq live
           /\ \A r \in LiveAfter : Advanced[r] < RelLen(r)
<1>1. idx \in [Rels -> Nat] /\ live \subseteq Rels /\ \A r \in live : idx[r] < RelLen(r)
  BY DEF IInv, TypeOK, CursorInv
<1>2. \A r \in Rels : Advanced[r] \in Nat /\ Advanced[r] \in {idx[r], idx[r] + 1}
  BY <1>1 DEF Advanced
<1>3. \A r \in live : RelLen(r) \in Nat
  BY <1>1, UsedFacts
<1>4. QED
  BY <1>1, <1>2, <1>3 DEF Advanced, LiveAfter

\* The variables of the main loop keep their types, and relations left have a
\* parameter left.
LEMMA LoopStep ==
    ASSUME IInv, [Next]_vars
    PROVE  /\ numSeeds' \in Nat
           /\ cur' \in 1 .. (NumUsed + 1)
           /\ idx' \in [Rels -> Nat]
           /\ live' \subseteq Rels
           /\ \A r \in live' : idx'[r] < RelLen(r)
<1>1. /\ numSeeds \in Nat /\ cur \in 1 .. (NumUsed + 1) /\ idx \in [Rels -> Nat]
      /\ live \subseteq Rels /\ \A r \in live : idx[r] < RelLen(r)
      /\ tests \in Seq(PartialTests)
  BY DEF IInv, TypeOK, CursorInv, TestSeqs
<1>2. CASE CountCombinations
  BY <1>1, <1>2 DEF CountCombinations
<1>3. CASE CountPrefixParameter
  <2>1. cur <= FirstParamIdx
    BY <1>3 DEF IInv, CursorInv, CountPrefixParameter
  <2>2. cur' \in 1 .. (NumUsed + 1)
    BY <1>1, <1>3, <2>1, FirstParamIdxType, UsedFacts DEF CountPrefixParameter
  <2>3. QED
    BY <1>1, <1>3, <2>2, AdvanceFacts DEF CountPrefixParameter
<1>4. CASE AdvanceRelations
  <2>1. cur <= NumUsed
    BY <1>4 DEF IInv, CursorInv, BodyPcs, AdvanceRelations
  <2>2. cur' \in 1 .. (NumUsed + 1)
    BY <1>1, <1>4, <2>1, UsedFacts DEF AdvanceRelations
  <2>3. QED
    BY <1>1, <1>4, <2>2, AdvanceFacts DEF AdvanceRelations
<1>5. CASE UNCHANGED loopVars
  BY <1>1, <1>5 DEF loopVars
<1>6. QED
  <2>1. UNCHANGED loopVars \/ CountCombinations \/ CountPrefixParameter \/ AdvanceRelations
    BY Zenon DEF Next, vars, Worker, Horizontal, Vertical, Terminated, Abort, EnterConstruction,
       EraseInvalidSeed, CreatePrefixTest, PrefixDone, LeaveLoop, SingleValuedParameter, BeginParameter,
       SelectSeededValue, SelectBestValue, SelectNoValue, CommitValue, CommitNoValue, FinishHorizontal,
       StartRelation, NextCombo, RejectTuple, InjectIntoMatchingTest, InjectIntoDontCareTest, AddTest,
       EndCombo, EndRelation, FinishVertical, ReplaceDontCareValues, Publish, loopVars
  <2>2. QED
    BY <2>1, <1>2, <1>3, <1>4, <1>5

\* The marks of the coverage maps and the number of missing combinations keep
\* their types.
LEMMA MapsStep ==
    ASSUME IInv, [Next]_vars
    PROVE  /\ uncovered' \subseteq Rels \X Tuples
           /\ valid' \subseteq Rels \X Tuples
           /\ missing' \in Int
<1>1. /\ uncovered \subseteq Rels \X Tuples /\ valid \subseteq Rels \X Tuples /\ missing \in Int
      /\ vx \in VerticalLocals /\ hx \in HorizontalLocals
  BY DEF IInv, TypeOK
<1>2. pc \in BodyPcs => cur <= NumUsed
  BY DEF IInv, CursorInv
<1>3. CASE BeginParameter
  <2>1. MapTuples \subseteq Rels \X Tuples
    BY <1>3, MapTuplesNow DEF BeginParameter
  <2>2. CoveredBy(MapTuples, 1 .. numSeeds) \subseteq MapTuples
    BY DEF CoveredBy
  <2>3. Cardinality(MapTuples) \in Nat /\ Cardinality(CoveredBy(MapTuples, 1 .. numSeeds)) \in Nat
    BY <2>1, <2>2, Counts
  <2>4. QED
    BY <1>3, <2>1, <2>2, <2>3 DEF BeginParameter
<1>4. CASE CommitValue
  <2>1. MapTuples \subseteq Rels \X Tuples
    BY <1>2, <1>4, MapTuplesNow DEF CommitValue, BodyPcs, HorizontalPcs
  <2>2. uncovered' \subseteq uncovered /\ valid' \subseteq valid \cup MapTuples /\ missing' = missing
    BY <1>4, Zenon DEF CommitValue
  <2>3. QED
    BY <1>1, <2>1, <2>2
<1>5. CASE NextCombo
  <2>1. MapTuples \subseteq Rels \X Tuples
    BY <1>2, <1>5, MapTuplesNow DEF NextCombo, BodyPcs, VerticalPcs, RelationPcs
  <2>2. CoveredBy(MapTuples, vx.modified) \subseteq MapTuples
    BY DEF CoveredBy
  <2>3. uncovered' \subseteq uncovered /\ valid' \subseteq valid \cup MapTuples /\ missing' = missing
    BY <1>5, <2>2, Zenon DEF NextCombo
  <2>4. QED
    BY <1>1, <2>1, <2>3
<1>6. CASE FinishHorizontal
  BY <1>1, <1>6 DEF FinishHorizontal, HorizontalLocals
<1>7. CASE FinishVertical
  BY <1>1, <1>7 DEF FinishVertical, VerticalLocals
<1>8. CASE AdvanceRelations
  BY <1>8 DEF AdvanceRelations
<1>9. CASE RejectTuple \/ InjectIntoMatchingTest \/ InjectIntoDontCareTest \/ AddTest
  <2>1. uncovered' \subseteq uncovered /\ valid' = valid /\ missing' = missing
    BY <1>9, Zenon DEF RejectTuple, InjectIntoMatchingTest, InjectIntoDontCareTest, AddTest, TakeTuple
  <2>2. QED
    BY <1>1, <2>1
<1>10. CASE UNCHANGED mapVars
  BY <1>1, <1>10 DEF mapVars
<1>11. QED
  <2>1. \/ UNCHANGED mapVars \/ BeginParameter \/ CommitValue \/ NextCombo \/ FinishHorizontal
        \/ FinishVertical \/ AdvanceRelations \/ RejectTuple \/ InjectIntoMatchingTest
        \/ InjectIntoDontCareTest \/ AddTest
    BY Zenon DEF Next, vars, Worker, Horizontal, Vertical, Terminated, Abort, EnterConstruction,
       EraseInvalidSeed, CreatePrefixTest, PrefixDone, LeaveLoop, SingleValuedParameter,
       SelectSeededValue, SelectBestValue, SelectNoValue, CommitNoValue, StartRelation,
       EndCombo, EndRelation, ReplaceDontCareValues, Publish, CountCombinations,
       CountPrefixParameter, mapVars
  <2>2. QED
    BY <2>1, <1>3, <1>4, <1>5, <1>6, <1>7, <1>8, <1>9, <1>10

\* The records that hold the locals of the horizontal extension, with a value
\* selected, and after a test.
LEMMA SelectedRecord ==
    ASSUME NEW h \in HorizontalLocals, NEW v \in Nat \cup {-1}, NEW l \in Int,
           NEW options \in [AllValues -> Int]
    PROVE  [h EXCEPT !.selected = v, !.lastPicked = l, !.options = options]
               \in HorizontalLocals
<1> DEFINE Lists == Seq(SUBSET AllValues)
           Functions == [AllValues -> Int]
           Selections == Nat \cup {-1}
<1>1. HorizontalLocals = [ti : Nat, selected : Selections, gained : Nat, gainedFull : Nat,
                          validValues : Lists, lastPicked : Int, options : Functions]
  BY DEF HorizontalLocals
<1>2. options \in Functions /\ v \in Selections
  OBVIOUS
<1> HIDE DEF Lists, Functions, Selections
<1>3. QED
  BY <1>1, <1>2

LEMMA CommittedRecord ==
    ASSUME NEW h \in HorizontalLocals, NEW n \in Nat, NEW m \in Nat
    PROVE  [h EXCEPT !.ti = @ + 1, !.gained = n, !.gainedFull = @ + m] \in HorizontalLocals
<1> DEFINE Lists == Seq(SUBSET AllValues)
           Functions == [AllValues -> Int]
           Selections == Nat \cup {-1}
           i == h.ti + 1
           g == h.gainedFull + m
<1>1. HorizontalLocals = [ti : Nat, selected : Selections, gained : Nat, gainedFull : Nat,
                          validValues : Lists, lastPicked : Int, options : Functions]
  BY DEF HorizontalLocals
<1>2. i \in Nat /\ g \in Nat
  BY DEF HorizontalLocals
<1> HIDE DEF Lists, Functions, Selections, i, g
<1>3. [h EXCEPT !.ti = i, !.gained = n, !.gainedFull = g] \in HorizontalLocals
  BY <1>1, <1>2
<1>4. QED
  BY <1>3 DEF i, g

LEMMA PassedRecord ==
    ASSUME NEW h \in HorizontalLocals
    PROVE  [h EXCEPT !.ti = @ + 1] \in HorizontalLocals
<1> DEFINE Lists == Seq(SUBSET AllValues)
           i == h.ti + 1
<1>1. HorizontalLocals = [ti : Nat, selected : Nat \cup {-1}, gained : Nat, gainedFull : Nat,
                          validValues : Lists, lastPicked : Int, options : [AllValues -> Int]]
  BY DEF HorizontalLocals
<1>2. i \in Nat
  BY DEF HorizontalLocals
<1> HIDE DEF Lists, i
<1>3. [h EXCEPT !.ti = i] \in HorizontalLocals
  BY <1>1, <1>2
<1>4. QED
  BY <1>3 DEF i

\* A picked value.
LEMMA PickStep ==
    ASSUME IInv, NEW v \in AllValues, v \in Nat, Pick(v)
    PROVE  hx' \in HorizontalLocals /\ hx'.selected = v
<1>1. hx \in HorizontalLocals
  BY DEF IInv, TypeOK
<1> DEFINE options == [hx.options EXCEPT ![v] = @ - 1]
<1>2. options \in [AllValues -> Int]
  BY <1>1 DEF HorizontalLocals
<1>3. hx' = [hx EXCEPT !.selected = v, !.lastPicked = v, !.options = options]
  BY <1>1, Zenon DEF Pick
<1>4. hx'.selected = v
  BY <1>1 , <1>3 DEF HorizontalLocals
<1>5. hx' \in HorizontalLocals
  <2> HIDE DEF options
  <2>1. v \in Nat \cup {-1} /\ v \in Int
    OBVIOUS
  <2> QED
    BY <1>1, <1>2, <1>3, <2>1, SelectedRecord
<1>6. QED
  BY <1>4, <1>5

\* What the constraint handler says of all tests.
LEMMA OptionsType ==
    ASSUME tests \in Seq(PartialTests), cur \in Params
    PROVE  /\ [i \in DOMAIN tests |-> ValidValues(tests[i], cur)] \in Seq(SUBSET AllValues)
           /\ \A S \in SUBSET DOMAIN tests : Cardinality(S) \in Nat
<1>1. \A i \in DOMAIN tests : ValidValues(tests[i], cur) \in SUBSET AllValues
  <2>1. \A i \in DOMAIN tests : tests[i] \in PartialTests
    OBVIOUS
  <2>2. QED
    BY <2>1, ValidValuesType
<1>2. Len(tests) \in Nat /\ DOMAIN tests = 1 .. Len(tests)
  OBVIOUS
<1>3. \A S \in SUBSET DOMAIN tests : Cardinality(S) \in Nat
  BY <1>2, Counts
<1>4. [i \in DOMAIN tests |-> ValidValues(tests[i], cur)] \in Seq(SUBSET AllValues)
  <2> DEFINE f == [i \in 1 .. Len(tests) |-> ValidValues(tests[i], cur)]
  <2>1. f \in [1 .. Len(tests) -> SUBSET AllValues]
    BY <1>1, <1>2
  <2>2. f \in Seq(SUBSET AllValues)
    BY <1>2, <2>1
  <2>3. QED
    BY <1>2, <2>2
<1>5. QED
  BY <1>3, <1>4

\* The locals of the horizontal extension keep their types.
LEMMA HorizontalStep ==
    ASSUME IInv, [Next]_vars
    PROVE  hx' \in HorizontalLocals
<1>1. /\ uncovered \subseteq Rels \X Tuples /\ hx \in HorizontalLocals
      /\ tests \in Seq(PartialTests) /\ \A i \in DOMAIN tests : tests[i] \in PartialTests
  BY DEF IInv, TypeOK, TestSeqs
<1>2. pc \in BodyPcs => cur \in Params
  BY MapTuplesNow DEF IInv, CursorInv
<1>3. CASE BeginParameter
  <2>1. cur \in Params
    BY <1>3, UsedFacts DEF IInv, TypeOK, BeginParameter
  <2> DEFINE valids == [i \in DOMAIN tests |-> ValidValues(tests[i], cur)]
  <2>2. valids \in Seq(SUBSET AllValues)
    BY <1>1, <2>1, OptionsType
  <2>6. \A v \in AllValues : {i \in DOMAIN tests : v \in valids[i]} \in SUBSET DOMAIN tests
    OBVIOUS
  <2> DEFINE options == [v \in AllValues |-> Cardinality({i \in DOMAIN tests : v \in valids[i]})]
  <2>3. options \in [AllValues -> Int]
    <3>1. \A v \in AllValues : Cardinality({i \in DOMAIN tests : v \in valids[i]}) \in Nat
      <4> HIDE DEF valids
      <4> QED
        BY <1>1, <2>1, <2>6, OptionsType
    <3> HIDE DEF valids
    <3>2. QED
      BY <3>1
  <2>4. hx' = [NoHorizontal EXCEPT !.ti = 1, !.validValues = valids, !.options = options]
    BY <1>3 DEF BeginParameter
  <2>5. hx' = [ti |-> 1, selected |-> 0, gained |-> 0, gainedFull |-> 0,
               validValues |-> valids, lastPicked |-> 0, options |-> options]
    <3> HIDE DEF valids, options
    <3> QED
      BY <2>4 DEF NoHorizontal
  <2>7. QED
    <3> DEFINE Lists == Seq(SUBSET AllValues)
               Functions == [AllValues -> Int]
    <3>1. HorizontalLocals =
              [ti : Nat, selected : Nat \cup {-1}, gained : Nat, gainedFull : Nat,
               validValues : Lists, lastPicked : Int, options : Functions]
      BY DEF HorizontalLocals
    <3>2. valids \in Lists /\ options \in Functions
      BY <2>2, <2>3
    <3> HIDE DEF valids, options, Lists, Functions
    <3> QED
      BY <2>4, <2>5, <3>1, <3>2
<1>4. CASE SelectSeededValue
  <2>1. pc = "select" /\ tests[hx.ti][cur] # DontCare /\ Pick(tests[hx.ti][cur])
    BY <1>4 DEF SelectSeededValue
  <2>2. hx.ti \in DOMAIN tests /\ cur \in Params
    BY <1>2, <2>1 DEF IInv, HorizontalInv, BodyPcs, HorizontalPcs
  <2>3. tests[hx.ti][cur] \in Dom(cur)
    BY <1>1, <2>1, <2>2, TestFacts
  <2>4. QED
    BY <2>1, <2>2, <2>3, DomFacts, PickStep
<1>5. CASE SelectBestValue
  <2>1. PICK v \in Dom(cur) : Pick(v)
    BY <1>5 DEF SelectBestValue
  <2>2. cur \in Params
    BY <1>2, <1>5 DEF SelectBestValue, BodyPcs, HorizontalPcs
  <2>3. QED
    BY <2>1, <2>2, DomFacts, PickStep
<1>6. CASE SelectNoValue
  <2>1. cur \in Params
    BY <1>2, <1>6 DEF SelectNoValue, BodyPcs, HorizontalPcs
  <2>2. LastPicked \in Int
    BY <1>1, <2>1, ParamsFacts DEF LastPicked, HorizontalLocals
  <2>3. QED
    BY <1>1, <1>6, <2>2 DEF SelectNoValue, HorizontalLocals
<1>7. CASE CommitValue
  <2> DEFINE newly == {ru \in uncovered :
                          Covers(Assign(tests[hx.ti], cur, hx.selected), ru[2])}
  <2>1. newly \subseteq Rels \X Tuples /\ FullPairs(newly) \subseteq Rels \X Tuples
    BY <1>1 DEF FullPairs
  <2>2. Cardinality(newly) \in Nat /\ Cardinality(FullPairs(newly)) \in Nat
    BY <2>1, Counts
  <2>3. hx' = [hx EXCEPT !.ti = @ + 1, !.gained = hx.gained + Cardinality(newly),
                         !.gainedFull = @ + Cardinality(FullPairs(newly))]
    BY <1>7, Zenon DEF CommitValue
  <2>4. QED
    <3> HIDE DEF newly
    <3>1. hx.gained + Cardinality(newly) \in Nat
      BY <1>1, <2>2 DEF HorizontalLocals
    <3> QED
      BY <1>1, <2>2, <2>3, <3>1, CommittedRecord
<1>8. CASE CommitNoValue
  <2>1. hx' = [hx EXCEPT !.ti = @ + 1]
    BY <1>8 DEF CommitNoValue
  <2>2. QED
    BY <1>1, <2>1, PassedRecord
<1>9. CASE FinishHorizontal
  BY <1>9 DEF FinishHorizontal, NoHorizontal, HorizontalLocals
<1>10. CASE UNCHANGED hx
  BY <1>1, <1>10
<1>11. QED
  <2>1. \/ UNCHANGED hx \/ BeginParameter \/ SelectSeededValue \/ SelectBestValue
        \/ SelectNoValue \/ CommitValue \/ CommitNoValue \/ FinishHorizontal
    BY Zenon DEF Next, vars, Worker, Horizontal, Vertical, Terminated, Abort, EnterConstruction,
       EraseInvalidSeed, CreatePrefixTest, PrefixDone, LeaveLoop, SingleValuedParameter,
       StartRelation, NextCombo, RejectTuple, InjectIntoMatchingTest, InjectIntoDontCareTest,
       AddTest, FinishVertical, EndCombo, EndRelation, ReplaceDontCareValues, Publish,
       CountCombinations, CountPrefixParameter, AdvanceRelations
  <2>2. QED
    BY <2>1, <1>3, <1>4, <1>5, <1>6, <1>7, <1>8, <1>9, <1>10

\* A test put into the list of a value.
LEMMA AppendRow ==
    ASSUME NEW R \in [AllValues -> Seq(Nat)], NEW v \in AllValues, NEW i \in Nat,
           NEW S \in [AllValues -> Seq(Nat)], S = [R EXCEPT ![v] = Append(@, i)]
    PROVE  \A w \in AllValues : \A k \in DOMAIN S[w] :
              S[w][k] = i \/ (k \in DOMAIN R[w] /\ S[w][k] = R[w][k])
<1> TAKE w \in AllValues
<1>1. R[w] \in Seq(Nat)
  OBVIOUS
<1>2. CASE w = v
  <2>1. S[w] = Append(R[w], i)
    BY <1>2
  <2>2. QED
    BY <1>1, <2>1
<1>3. CASE w # v
  BY <1>3
<1>4. QED
  BY <1>2, <1>3

LEMMA AppendRowType ==
    ASSUME NEW R \in [AllValues -> Seq(Nat)], NEW v \in AllValues, NEW i \in Nat
    PROVE  [R EXCEPT ![v] = Append(@, i)] \in [AllValues -> Seq(Nat)]
<1>1. Append(R[v], i) \in Seq(Nat)
  OBVIOUS
<1>2. QED
  BY <1>1

\* How the lists of tests change.
LEMMA PartsChange ==
    ASSUME IInv, [Next]_vars
    PROVE  \/ rows' = NoRows /\ dcRows' = <<>>
           \/ rows' = rows /\ dcRows' = dcRows
           \/ \E i \in Nat, v \in AllValues :
                 /\ i \in DOMAIN tests \/ (i = Len(tests) + 1 /\ AddTest)
                 /\ rows' \in {rows, [rows EXCEPT ![v] = Append(@, i)]}
                 /\ \/ dcRows' \in {dcRows, Append(dcRows, i)}
                    \/ \E k \in DOMAIN dcRows : dcRows' = RemoveAtPos(dcRows, k)
<1>1. tests \in Seq(PartialTests) /\ DOMAIN tests \subseteq Nat
  BY DEF IInv, TypeOK, TestSeqs
<1>2. pc \in {"select", "commit"} => cur \in Params /\ hx.ti \in DOMAIN tests
  <2>1. pc \in {"select", "commit"} => pc \in BodyPcs
    BY DEF BodyPcs, HorizontalPcs
  <2>2. QED
    BY <2>1, MapTuplesNow DEF IInv, HorizontalInv, CursorInv
<1>3. CASE CommitValue
  <2>1. pc = "commit" /\ hx.selected # -1 /\ dcRows' = dcRows
        /\ rows' = [rows EXCEPT ![hx.selected] = Append(@, hx.ti)]
    BY <1>3 DEF CommitValue
  <2>2. hx.selected \in AllValues
    BY <1>2, <2>1, DomFacts DEF IInv, HorizontalInv
  <2>3. QED
    BY <1>1, <1>2, <2>1, <2>2
<1>4. CASE CommitNoValue
  <2>1. 0 \in AllValues
    BY <1>2, <1>4, DomFacts DEF CommitNoValue
  <2>2. QED
    BY <1>1, <1>2, <1>4, <2>1 DEF CommitNoValue
<1>5. CASE InjectIntoMatchingTest \/ InjectIntoDontCareTest
  <2>1. pc = "tuple" /\ pc \in BodyPcs
    BY <1>5 DEF InjectIntoMatchingTest, InjectIntoDontCareTest, BodyPcs, VerticalPcs, RelationPcs
  <2>2. cur \in Params
    BY <2>1, MapTuplesNow DEF IInv, CursorInv
  <2>3. PICK u \in Tuples, i \in DOMAIN tests :
            /\ u[cur] \in Dom(cur)
            /\ rows' \in {rows, [rows EXCEPT ![u[cur]] = Append(@, i)]}
            /\ dcRows' = dcRows \/ \E k \in DOMAIN dcRows : dcRows' = RemoveAtPos(dcRows, k)
    BY <1>5, InjectionStep
  <2>4. QED
    BY <1>1, <2>2, <2>3, DomFacts
<1>6. CASE AddTest
  <2>1. PICK u \in Tuples : IsNextTuple(u) /\ rows' = [rows EXCEPT ![u[cur]] = Append(@, Len(tests) + 1)]
    BY <1>6 DEF AddTest
  <2>2. u[cur] \in AllValues
    BY <1>6, <2>1, NextTupleFacts DEF AddTest
  <2>3. dcRows' = dcRows /\ Len(tests) + 1 \in Nat
    BY <1>1, <1>6 DEF AddTest
  <2>4. QED
    BY <1>6, <2>1, <2>2, <2>3
<1>7. CASE BeginParameter \/ AdvanceRelations
  BY <1>7 DEF BeginParameter, AdvanceRelations
<1>8. CASE UNCHANGED partVars
  BY <1>8 DEF partVars
<1>9. QED
  <2>1. \/ UNCHANGED partVars \/ BeginParameter \/ AdvanceRelations \/ CommitValue
        \/ CommitNoValue \/ InjectIntoMatchingTest \/ InjectIntoDontCareTest \/ AddTest
    BY Zenon DEF Next, vars, Worker, Horizontal, Vertical, Terminated, Abort, EnterConstruction,
       EraseInvalidSeed, CreatePrefixTest, PrefixDone, LeaveLoop, SingleValuedParameter,
       SelectSeededValue, SelectBestValue, SelectNoValue, FinishHorizontal,
       StartRelation, NextCombo, RejectTuple, FinishVertical, EndCombo, EndRelation,
       ReplaceDontCareValues, Publish, CountCombinations, CountPrefixParameter, partVars
  <2>2. QED
    BY <2>1, <1>3, <1>4, <1>5, <1>6, <1>7, <1>8

\* The lists keep their types.
LEMMA PartsStep ==
    ASSUME IInv, [Next]_vars
    PROVE  rows' \in [AllValues -> Seq(Nat)] /\ dcRows' \in Seq(Nat)
<1>1. rows \in [AllValues -> Seq(Nat)] /\ dcRows \in Seq(Nat)
  BY DEF IInv, TypeOK
<1>2. NoRows \in [AllValues -> Seq(Nat)] /\ <<>> \in Seq(Nat)
  BY DEF NoRows
<1>3. ASSUME NEW i \in Nat, NEW v \in AllValues
      PROVE  [rows EXCEPT ![v] = Append(@, i)] \in [AllValues -> Seq(Nat)]
  BY <1>1, AppendRowType
<1>4. ASSUME NEW i \in Nat
      PROVE  Append(dcRows, i) \in Seq(Nat)
  BY <1>1
<1>5. ASSUME NEW k \in DOMAIN dcRows
      PROVE  RemoveAtPos(dcRows, k) \in Seq(Nat)
  BY <1>1, RemoveAtPosFacts
<1>6. rows' \in [AllValues -> Seq(Nat)]
  <2>1. \/ rows' = NoRows \/ rows' = rows
        \/ \E i \in Nat, v \in AllValues : rows' = [rows EXCEPT ![v] = Append(@, i)]
    BY PartsChange
  <2>2. ASSUME NEW i \in Nat, NEW v \in AllValues, rows' = [rows EXCEPT ![v] = Append(@, i)]
        PROVE  rows' \in [AllValues -> Seq(Nat)]
    BY <1>3, <2>2, Zenon
  <2>3. rows' = NoRows \/ rows' = rows => rows' \in [AllValues -> Seq(Nat)]
    BY <1>1, <1>2, Zenon
  <2>4. QED
    BY <2>1, <2>2, <2>3, Zenon
<1>7. dcRows' \in Seq(Nat)
  BY <1>1, <1>2, <1>4, <1>5, PartsChange
<1>8. QED
  BY <1>6, <1>7

\* The records that hold the locals of the vertical extension.
LEMMA ComboRecord ==
    ASSUME NEW h \in VerticalLocals, NEW C \in SUBSET (SUBSET Params), NEW S \in SUBSET Params,
           NEW n \in Nat
    PROVE  [h EXCEPT !.combos = C, !.combo = S, !.checked = @ + n, !.newly = @ + n]
               \in VerticalLocals
<1> DEFINE i == h.checked + n
           j == h.newly + n
<1>1. i \in Nat /\ j \in Nat
  BY DEF VerticalLocals
<1> HIDE DEF i, j
<1>2. [h EXCEPT !.combos = C, !.combo = S, !.checked = i, !.newly = j] \in VerticalLocals
  BY <1>1 DEF VerticalLocals
<1>3. QED
  BY <1>2 DEF i, j

LEMMA CheckedRecord ==
    ASSUME NEW h \in VerticalLocals
    PROVE  [h EXCEPT !.checked = @ + 1] \in VerticalLocals
<1> DEFINE i == h.checked + 1
<1>1. i \in Nat
  BY DEF VerticalLocals
<1> HIDE DEF i
<1>2. [h EXCEPT !.checked = i] \in VerticalLocals
  BY <1>1 DEF VerticalLocals
<1>3. QED
  BY <1>2 DEF i

LEMMA TakenRecord ==
    ASSUME NEW h \in VerticalLocals, NEW M \in SUBSET Nat
    PROVE  [h EXCEPT !.checked = @ + 1, !.newly = @ + 1, !.modified = @ \cup M]
               \in VerticalLocals
<1> DEFINE i == h.checked + 1
           j == h.newly + 1
           N == h.modified \cup M
<1>1. i \in Nat /\ j \in Nat
  BY DEF VerticalLocals
<1>4. N \in SUBSET Nat
  BY DEF VerticalLocals
<1> HIDE DEF i, j, N
<1>2. [h EXCEPT !.checked = i, !.newly = j, !.modified = N] \in VerticalLocals
  BY <1>1, <1>4 DEF VerticalLocals
<1>3. QED
  BY <1>2 DEF i, j, N

LEMMA TotalsRecord ==
    ASSUME NEW h \in VerticalLocals, NEW n \in Nat, NEW m \in Nat
    PROVE  [h EXCEPT !.total = @ + h.checked, !.totalFull = @ + n, !.newlyFull = @ + m]
               \in VerticalLocals
<1> DEFINE i == h.total + h.checked
           j == h.totalFull + n
           k == h.newlyFull + m
<1>1. i \in Nat /\ j \in Nat /\ k \in Nat
  BY DEF VerticalLocals
<1> HIDE DEF i, j, k
<1>2. [h EXCEPT !.total = i, !.totalFull = j, !.newlyFull = k] \in VerticalLocals
  BY <1>1 DEF VerticalLocals
<1>3. QED
  BY <1>2 DEF i, j, k

\* The record that holds the counters.
LEMMA CountersRecord ==
    ASSUME NEW h \in Counters, NEW n \in Nat, NEW m \in Nat
    PROVE  [h EXCEPT !.processed = @ + n, !.covered = @ + m] \in Counters
<1> DEFINE i == h.processed + n
           j == h.covered + m
<1>1. i \in Nat /\ j \in Nat
  BY DEF Counters
<1> HIDE DEF i, j
<1>2. [h EXCEPT !.processed = i, !.covered = j] \in Counters
  BY <1>1 DEF Counters
<1>3. QED
  BY <1>2 DEF i, j

LEMMA SizeRecord ==
    ASSUME NEW h \in Counters, NEW n \in Nat, NEW m \in Nat, NEW s \in Nat
    PROVE  [h EXCEPT !.processed = @ + n, !.covered = @ + m, !.size = s] \in Counters
<1> DEFINE i == h.processed + n
           j == h.covered + m
<1>1. i \in Nat /\ j \in Nat
  BY DEF Counters
<1> HIDE DEF i, j
<1>2. [h EXCEPT !.processed = i, !.covered = j, !.size = s] \in Counters
  BY <1>1 DEF Counters
<1>3. QED
  BY <1>2 DEF i, j

\* The locals of the vertical extension keep their types.
LEMMA VerticalStep ==
    ASSUME IInv, [Next]_vars
    PROVE  vx' \in VerticalLocals
<1>1. /\ uncovered \subseteq Rels \X Tuples /\ vx \in VerticalLocals /\ live \subseteq Rels
      /\ tests \in Seq(PartialTests)
  BY DEF IInv, TypeOK, TestSeqs
<1>2. pc \in VerticalPcs => cur <= NumUsed
  BY DEF IInv, CursorInv, BodyPcs
<1>3. NoVertical \in VerticalLocals
  BY DEF NoVertical, VerticalLocals
<1>4. CASE FinishHorizontal
  <2>1. Participants \in SUBSET Rels
    BY <1>1 DEF Participants
  <2>2. vx' = NoVertical \/ vx' = [NoVertical EXCEPT !.pending = Participants]
    BY <1>4 DEF FinishHorizontal
  <2>3. QED
    BY <1>3, <2>1, <2>2 DEF VerticalLocals
<1>5. CASE StartRelation
  <2>1. PICK r \in vx.pending :
            vx' = [vx EXCEPT !.pending = @ \ {r}, !.rel = r,
                             !.combos = MapCombos(r), !.checked = 0, !.newly = 0]
    BY <1>5, Zenon DEF StartRelation
  <2>2. pc \in VerticalPcs
    BY <1>5 DEF StartRelation, VerticalPcs
  <2>3. r \in live
    BY <2>2 DEF IInv, CursorInv
  <2>4. MapCombos(r) \in SUBSET (SUBSET Params)
    BY <1>2, <2>2, <2>3, MapTuplesNow
  <2>5. vx.pending \ {r} \in SUBSET Rels /\ r \in Rels \cup {0}
    BY <1>1, <2>3 DEF VerticalLocals
  <2>6. QED
    BY <1>1, <2>1, <2>4, <2>5 DEF VerticalLocals
<1>6. CASE NextCombo
  <2>1. PICK S \in vx.combos :
            LET n == Cardinality(CoveredBy(UncoveredOf(S), vx.modified))
            IN vx' = [vx EXCEPT !.combos = @ \ {S}, !.combo = S,
                                !.checked = @ + n, !.newly = @ + n]
    BY <1>6, Zenon DEF NextCombo
  <2> DEFINE n == Cardinality(CoveredBy(UncoveredOf(S), vx.modified))
  <2>2. CoveredBy(UncoveredOf(S), vx.modified) \in SUBSET (Rels \X Tuples)
    BY <1>1 DEF CoveredBy, UncoveredOf
  <2>3. n \in Nat
    BY <2>2, Counts
  <2>4. vx' = [vx EXCEPT !.combos = @ \ {S}, !.combo = S, !.checked = @ + n, !.newly = @ + n]
    BY <2>1
  <2>5. QED
    <3>1. vx.combos \ {S} \in SUBSET (SUBSET Params) /\ S \in SUBSET Params
      BY <1>1 DEF VerticalLocals
    <3> HIDE DEF n
    <3> QED
      BY <1>1, <2>3, <2>4, <3>1, ComboRecord
<1>7. CASE RejectTuple
  BY <1>1, <1>7, CheckedRecord DEF RejectTuple
<1>8. CASE InjectIntoMatchingTest \/ InjectIntoDontCareTest \/ AddTest
  <2>1. DOMAIN tests \subseteq Nat
    BY <1>1
  <2>2. PICK M \in SUBSET Nat : vx' = [vx EXCEPT !.checked = @ + 1, !.newly = @ + 1,
                                                !.modified = @ \cup M]
    <3>1. ASSUME AddTest PROVE \E u : TakeTuple(u, {})
      BY <3>1 DEF AddTest
    <3>2. pc = "tuple" => pc \in HorizontalPcs \cup VerticalPcs
      BY DEF VerticalPcs, RelationPcs
    <3>3. ASSUME InjectIntoMatchingTest
          PROVE  \E u \in Tuples : \E k \in DOMAIN rows[u[cur]] :
                    /\ rows[u[cur]][k] \in Nat
                    /\ TakeTuple(u, {rows[u[cur]][k]})
      <4>1. PICK u \in Tuples : IsNextTuple(u) /\ \E k \in DOMAIN rows[u[cur]] :
                    TakeTuple(u, {rows[u[cur]][k]})
        BY <3>3 DEF InjectIntoMatchingTest
      <4>2. u[cur] \in AllValues
        BY <3>3, <4>1, NextTupleFacts DEF InjectIntoMatchingTest
      <4>3. \A k \in DOMAIN rows[u[cur]] : rows[u[cur]][k] \in Nat
        BY <2>1, <3>2, <3>3, <4>2 DEF IInv, IndicesInv, InjectIntoMatchingTest
      <4>4. QED
        BY <4>1, <4>3
    <3>4. ASSUME InjectIntoDontCareTest
          PROVE  \E u \in Tuples : \E k \in DOMAIN dcRows :
                    dcRows[k] \in Nat /\ TakeTuple(u, {dcRows[k]})
      <4>1. \A k \in DOMAIN dcRows : dcRows[k] \in Nat
        BY DEF IInv, TypeOK
      <4>2. QED
        BY <3>4, <4>1 DEF InjectIntoDontCareTest
    <3>5. \E M \in SUBSET Nat : \E u : TakeTuple(u, M)
      BY <1>8, <3>1, <3>3, <3>4
    <3>6. QED
      BY <3>5 DEF TakeTuple
  <2>3. QED
    BY <1>1, <2>2, TakenRecord
<1>9. CASE EndRelation
  <2>1. PICK n \in {0, vx.checked}, m \in {0, vx.newly} :
            vx' = [vx EXCEPT !.total = @ + vx.checked, !.totalFull = @ + n, !.newlyFull = @ + m]
    BY <1>9 DEF EndRelation
  <2>2. n \in Nat /\ m \in Nat
    BY <1>1 DEF VerticalLocals
  <2>3. QED
    BY <1>1, <2>1, <2>2, TotalsRecord
<1>10. CASE AdvanceRelations
  BY <1>3, <1>10 DEF AdvanceRelations
<1>11. CASE UNCHANGED vx
  BY <1>1, <1>11
<1>12. QED
  <2>1. \/ UNCHANGED vx \/ FinishHorizontal \/ StartRelation \/ NextCombo \/ RejectTuple
        \/ InjectIntoMatchingTest \/ InjectIntoDontCareTest \/ AddTest \/ EndRelation
        \/ AdvanceRelations
    BY Zenon DEF Next, vars, Worker, Horizontal, Vertical, Terminated, Abort, EnterConstruction,
       EraseInvalidSeed, CreatePrefixTest, PrefixDone, LeaveLoop, SingleValuedParameter,
       BeginParameter, SelectSeededValue, SelectBestValue, SelectNoValue, CommitValue,
       CommitNoValue, FinishVertical, EndCombo, ReplaceDontCareValues, Publish,
       CountCombinations, CountPrefixParameter
  <2>2. QED
    BY <2>1, <1>4, <1>5, <1>6, <1>7, <1>8, <1>9, <1>10, <1>11

\* The counters of the handle stay natural numbers, and its phase a phase.
LEMMA HandleStep ==
    ASSUME IInv, [Next]_vars
    PROVE  handle' \in Counters
<1>1. /\ handle \in Counters /\ uncovered \subseteq Rels \X Tuples /\ vx \in VerticalLocals
      /\ hx \in HorizontalLocals /\ tests \in Seq(PartialTests) /\ cur \in Nat
  BY UsedFacts DEF IInv, TypeOK, TestSeqs
<1>2. NumUsed \in Nat /\ Len(tests) \in Nat /\ FirstParamIdx \in Nat
  BY <1>1, UsedFacts, FirstParamIdxType
<1>3. tests' \in Seq(PartialTests)
  BY TestsStep DEF TestSeqs
<1>4. CASE EnterConstruction
  BY <1>1, <1>4 DEF EnterConstruction, Counters
<1>5. CASE CountCombinations
  <2>1. PICK n \in {NumUsed, handle.paramsToProcess} :
            handle' = [handle EXCEPT !.toProcess = Cardinality(TargetTuples), !.paramsToProcess = n]
    BY <1>5 DEF CountCombinations
  <2>2. n \in Nat /\ Cardinality(TargetTuples) \in Nat
    BY <1>1, <1>2, Counts DEF Counters
  <2>3. QED
    BY <1>1, <2>1, <2>2 DEF Counters
<1>6. CASE PrefixDone
  BY <1>1, <1>2, <1>6 DEF PrefixDone, Counters
<1>7. CASE CountPrefixParameter
  <2> DEFINE counted == {r \in live : Advanced[r] >= Relations[r].strength}
             combos == UNION {{<<r, u>> : u \in TuplesOf(FirstParams(r, Advanced[r]))} : r \in counted}
  <2>1. combos \in SUBSET (Rels \X Tuples)
    <3>1. ASSUME NEW r \in live
          PROVE  r \in Rels /\ TuplesOf(FirstParams(r, Advanced[r])) \subseteq Tuples
      BY <3>1, AdvanceFacts, FirstParamsTuples DEF IInv, TypeOK
    <3>2. QED
      BY <3>1
  <2>2. CoveredBy(combos, DOMAIN tests) \in SUBSET (Rels \X Tuples)
    BY <2>1 DEF CoveredBy
  <2>3. Cardinality(combos) \in Nat /\ Cardinality(CoveredBy(combos, DOMAIN tests)) \in Nat
    BY <2>1, <2>2, Counts
  <2>4. handle' = [handle EXCEPT !.processed = @ + Cardinality(combos),
                       !.covered = @ + Cardinality(CoveredBy(combos, DOMAIN tests))]
    BY <1>7, Zenon DEF CountPrefixParameter
  <2>5. QED
    <3> HIDE DEF combos
    <3> QED
      BY <1>1, <2>3, <2>4, CountersRecord
<1>8. CASE SingleValuedParameter
  <2>1. MapTuples \subseteq Rels \X Tuples
    BY <1>8, MapTuplesNow DEF SingleValuedParameter
  <2> DEFINE reported == FullPairs(MapTuples)
             covered == {ru \in reported : \E i \in DOMAIN tests : Covers(tests'[i], ru[2])}
  <2>2. reported \in SUBSET (Rels \X Tuples) /\ covered \in SUBSET (Rels \X Tuples)
    BY <2>1 DEF FullPairs
  <2>3. Cardinality(reported) \in Nat /\ Cardinality(covered) \in Nat
    BY <2>2, Counts
  <2>4. handle' = [handle EXCEPT !.processed = @ + Cardinality(reported),
                                 !.covered = @ + Cardinality(covered)]
    BY <1>8, Zenon DEF SingleValuedParameter
  <2>5. QED
    <3> HIDE DEF reported, covered
    <3> QED
      BY <1>1, <2>3, <2>4, CountersRecord
<1>9. CASE BeginParameter
  <2>1. MapTuples \subseteq Rels \X Tuples
    BY <1>9, MapTuplesNow DEF BeginParameter
  <2> DEFINE n == Cardinality(FullPairs(CoveredBy(MapTuples, 1 .. numSeeds)))
  <2>2. FullPairs(CoveredBy(MapTuples, 1 .. numSeeds)) \in SUBSET (Rels \X Tuples)
    BY <2>1 DEF FullPairs, CoveredBy
  <2>3. n \in Nat
    BY <2>2, Counts
  <2>4. handle' = [handle EXCEPT !.processed = @ + n, !.covered = @ + n]
    BY <1>9, Zenon DEF BeginParameter
  <2>5. QED
    <3> HIDE DEF n
    <3> QED
      BY <1>1, <2>3, <2>4, CountersRecord
<1>10. CASE FinishHorizontal
  <2>1. hx.gainedFull \in Nat
    BY <1>1 DEF HorizontalLocals
  <2>2. QED
    BY <1>1, <1>2, <1>10, <2>1, SizeRecord DEF FinishHorizontal
<1>11. CASE FinishVertical
  <2>1. vx.totalFull \in Nat /\ vx.newlyFull \in Nat
    BY <1>1 DEF VerticalLocals
  <2>2. QED
    BY <1>1, <1>2, <1>11, <2>1, SizeRecord DEF FinishVertical
<1>12. CASE AdvanceRelations
  BY <1>1, <1>12 DEF AdvanceRelations, Counters
<1>13. CASE UNCHANGED handle
  BY <1>1, <1>13
<1>14. QED
  <2>1. \/ UNCHANGED handle \/ EnterConstruction \/ CountCombinations \/ PrefixDone
        \/ CountPrefixParameter \/ SingleValuedParameter \/ BeginParameter \/ FinishHorizontal
        \/ FinishVertical \/ AdvanceRelations
    BY Zenon DEF Next, vars, Worker, Horizontal, Vertical, Terminated, Abort, EraseInvalidSeed,
       CreatePrefixTest, LeaveLoop, SelectSeededValue, SelectBestValue, SelectNoValue, CommitValue,
       CommitNoValue, StartRelation, NextCombo, RejectTuple, InjectIntoMatchingTest,
       InjectIntoDontCareTest, AddTest, EndCombo, EndRelation, ReplaceDontCareValues, Publish
  <2>2. QED
    BY <2>1, <1>4, <1>5, <1>6, <1>7, <1>8, <1>9, <1>10, <1>11, <1>12, <1>13

\* What the client gave, and what it gets.
LEMMA ClientStep ==
    ASSUME IInv, [Next]_vars
    PROVE  /\ allowed' = allowed
           /\ aborted' \in BOOLEAN
           /\ result' \in [code : {"PENDING", "ABORTED", "COMPLETED"}, tests : TestSeqs]
<1>1. /\ aborted \in BOOLEAN /\ tests \in TestSeqs
      /\ result \in [code : {"PENDING", "ABORTED", "COMPLETED"}, tests : TestSeqs]
  BY Zenon DEF IInv, TypeOK
<1>2. allowed' = allowed /\ (aborted' = aborted \/ aborted' = TRUE)
  BY Zenon DEF Next, vars, Worker, Horizontal, Vertical, Terminated, Abort, EnterConstruction,
     EraseInvalidSeed, CountCombinations, CreatePrefixTest, PrefixDone, CountPrefixParameter,
     LeaveLoop, SingleValuedParameter, BeginParameter, SelectSeededValue, SelectBestValue,
     SelectNoValue, CommitValue, CommitNoValue, FinishHorizontal, StartRelation, NextCombo,
     RejectTuple, InjectIntoMatchingTest, InjectIntoDontCareTest, AddTest, EndCombo, EndRelation,
     FinishVertical, AdvanceRelations, ReplaceDontCareValues, Publish, jobVars
<1>3. result' = result \/ Publish
  BY Zenon DEF Next, vars, Worker, Horizontal, Vertical, Terminated, Abort, EnterConstruction,
     EraseInvalidSeed, CountCombinations, CreatePrefixTest, PrefixDone, CountPrefixParameter,
     LeaveLoop, SingleValuedParameter, BeginParameter, SelectSeededValue, SelectBestValue,
     SelectNoValue, CommitValue, CommitNoValue, FinishHorizontal, StartRelation, NextCombo,
     RejectTuple, InjectIntoMatchingTest, InjectIntoDontCareTest, AddTest, EndCombo, EndRelation,
     FinishVertical, AdvanceRelations, ReplaceDontCareValues, jobVars
<1>4. ASSUME Publish
      PROVE  result' \in [code : {"PENDING", "ABORTED", "COMPLETED"}, tests : TestSeqs]
  <2>1. ResultCode \in {"PENDING", "ABORTED", "COMPLETED"}
    BY DEF ResultCode
  <2>2. result' = [code |-> ResultCode, tests |-> tests]
    BY <1>4 DEF Publish
  <2>3. QED
    BY <1>1, <2>1, <2>2
<1>5. aborted' \in BOOLEAN
  BY <1>1, <1>2, Zenon
<1>6. QED
  BY <1>1, <1>2, <1>3, <1>4, <1>5, Zenon

LEMMA TypeStep == IInv /\ [Next]_vars => TypeOK'
<1> SUFFICES ASSUME IInv, [Next]_vars PROVE TypeOK'
  OBVIOUS
<1>1. pc' \in Pcs
  BY PcStep DEF IInv, TypeOK
<1>2. allowed' \in ConstraintSets
  BY ClientStep DEF IInv, TypeOK
<1>3. aborted' \in BOOLEAN
  BY ClientStep, Zenon
<1>4. result' \in [code : {"PENDING", "ABORTED", "COMPLETED"}, tests : TestSeqs]
  BY ClientStep, Zenon
<1>5. tests' \in TestSeqs
  BY TestsStep, Zenon
<1>6. QED
  BY <1>1, <1>2, <1>3, <1>4, <1>5, LoopStep, MapsStep, HorizontalStep, PartsStep,
     VerticalStep, HandleStep, Zenon DEF TypeOK

-------------------------------------------------------------------------------
(* The other parts of the invariant *)

\* What becomes of the locals of the vertical extension while it runs.
LEMMA VerticalChange ==
    ASSUME IInv, [Next]_vars, pc \in VerticalPcs, pc' \in VerticalPcs
    PROVE  /\ vx'.pending \subseteq vx.pending
           /\ \/ vx'.modified = vx.modified
              \/ InjectIntoMatchingTest \/ InjectIntoDontCareTest
<1>0. vx \in VerticalLocals
  BY DEF IInv, TypeOK
<1>1. CASE StartRelation
  BY <1>0, <1>1 DEF StartRelation, VerticalLocals
<1>2. CASE NextCombo
  <2>1. PICK S \in vx.combos :
            LET n == Cardinality(CoveredBy(UncoveredOf(S), vx.modified))
            IN vx' = [vx EXCEPT !.combos = @ \ {S}, !.combo = S,
                                !.checked = @ + n, !.newly = @ + n]
    BY <1>2, Zenon DEF NextCombo
  <2>2. QED
    BY <1>0, <2>1 DEF VerticalLocals
<1>3. CASE RejectTuple
  BY <1>0, <1>3 DEF RejectTuple, VerticalLocals
<1>4. CASE InjectIntoMatchingTest \/ InjectIntoDontCareTest \/ AddTest
  <2>1. \E u, M : TakeTuple(u, M) /\ (M = {} \/ ~AddTest)
    BY <1>4 DEF InjectIntoMatchingTest, InjectIntoDontCareTest, AddTest
  <2>2. PICK M : /\ vx' = [vx EXCEPT !.checked = @ + 1, !.newly = @ + 1, !.modified = @ \cup M]
                 /\ M = {} \/ ~AddTest
    BY <2>1 DEF TakeTuple
  <2>3. vx'.pending = vx.pending /\ vx'.modified = vx.modified \cup M
    BY <1>0, <2>2 DEF VerticalLocals
  <2>4. vx'.pending \subseteq vx.pending /\ (M = {} => vx'.modified = vx.modified)
    BY <2>3
  <2>5. QED
    BY <1>4, <2>2, <2>4, Zenon
<1>5. CASE EndRelation
  <2>1. \E n, m, k : vx' = [vx EXCEPT !.total = n, !.totalFull = m, !.newlyFull = k]
    BY <1>5, Zenon DEF EndRelation
  <2>2. QED
    BY <1>0, <2>1 DEF VerticalLocals
<1>6. CASE UNCHANGED vx
  BY <1>6
<1>7. QED
  BY <1>1, <1>2, <1>3, <1>4, <1>5, <1>6
  DEF Next, vars, Worker, Horizontal, Vertical, Terminated, Abort, EnterConstruction,
      EraseInvalidSeed, CountCombinations, CreatePrefixTest, PrefixDone,
      CountPrefixParameter, LeaveLoop, SingleValuedParameter, BeginParameter,
      SelectSeededValue, SelectBestValue, SelectNoValue, CommitValue, CommitNoValue,
      FinishHorizontal, EndCombo, FinishVertical, AdvanceRelations,
      ReplaceDontCareValues, Publish, VerticalPcs, RelationPcs

\* The current parameter stays while it is worked on.
LEMMA CursorStep == IInv /\ [Next]_vars => CursorInv'
<1> SUFFICES ASSUME IInv, [Next]_vars PROVE CursorInv'
  OBVIOUS
<1>1. pc \in Pcs /\ cur \in Nat /\ live \subseteq Rels /\ vx \in VerticalLocals
  BY UsedFacts DEF IInv, TypeOK
<1>2. \A r \in live' : idx'[r] < RelLen(r)
  BY LoopStep
<1> USE DEF Pcs, HorizontalPcs, VerticalPcs, RelationPcs, BodyPcs
<1>3. ASSUME pc' \in {"init", "filter", "prefix"}
      PROVE  cur' = 1
  <2>1. pc \in {"init", "filter", "prefix"} => cur = 1
    BY DEF IInv, CursorInv
  <2>2. pc \in {"init", "filter", "prefix"} /\ cur' = cur
    BY <1>3, Zenon DEF Next, vars, Worker, Horizontal, Vertical, Terminated, Abort, EnterConstruction,
     EraseInvalidSeed, CountCombinations, CreatePrefixTest, PrefixDone, CountPrefixParameter,
     LeaveLoop, SingleValuedParameter, BeginParameter, SelectSeededValue, SelectBestValue,
     SelectNoValue, CommitValue, CommitNoValue, FinishHorizontal, StartRelation, NextCombo,
     RejectTuple, InjectIntoMatchingTest, InjectIntoDontCareTest, AddTest, EndCombo, EndRelation,
     FinishVertical, AdvanceRelations, ReplaceDontCareValues, Publish, loopVars, Pick,
     AfterCommit, TakeTuple, AfterTuple
  <2>3. QED
    BY <2>1, <2>2
<1>4. ASSUME pc' = "countPrefix"
      PROVE  cur' <= FirstParamIdx
  <2>1. \/ pc = "countPrefix" /\ cur' = cur
        \/ pc = "prefix" /\ PrefixDone
        \/ CountPrefixParameter
    BY <1>4 DEF Next, vars, Worker, Horizontal, Vertical, Terminated, Abort, EnterConstruction,
     EraseInvalidSeed, CountCombinations, CreatePrefixTest, PrefixDone, CountPrefixParameter,
     LeaveLoop, SingleValuedParameter, BeginParameter, SelectSeededValue, SelectBestValue,
     SelectNoValue, CommitValue, CommitNoValue, FinishHorizontal, StartRelation, NextCombo,
     RejectTuple, InjectIntoMatchingTest, InjectIntoDontCareTest, AddTest, EndCombo, EndRelation,
     FinishVertical, AdvanceRelations, ReplaceDontCareValues, Publish, loopVars, Pick,
     AfterCommit, TakeTuple, AfterTuple
  <2>2. FirstParamIdx \in Nat
    BY FirstParamIdxType, UsedFacts
  <2>3. CASE pc = "countPrefix" /\ cur' = cur
    BY <2>3 DEF IInv, CursorInv
  <2>4. CASE pc = "prefix" /\ PrefixDone
    BY <1>4, <2>2, <2>4 DEF IInv, CursorInv, PrefixDone, loopVars
  <2>5. CASE CountPrefixParameter
    BY <1>1, <1>4, <2>2, <2>5 DEF IInv, CursorInv, CountPrefixParameter
  <2>6. QED
    BY <2>1, <2>3, <2>4, <2>5
<1>5. ASSUME pc' \in BodyPcs
      PROVE  cur' <= NumUsed
  <2>1. \/ pc \in BodyPcs /\ cur' = cur
        \/ cur <= NumUsed /\ cur' = cur
    BY <1>5, Zenon DEF Next, vars, Worker, Horizontal, Vertical, Terminated, Abort, EnterConstruction,
     EraseInvalidSeed, CountCombinations, CreatePrefixTest, PrefixDone, CountPrefixParameter,
     LeaveLoop, SingleValuedParameter, BeginParameter, SelectSeededValue, SelectBestValue,
     SelectNoValue, CommitValue, CommitNoValue, FinishHorizontal, StartRelation, NextCombo,
     RejectTuple, InjectIntoMatchingTest, InjectIntoDontCareTest, AddTest, EndCombo, EndRelation,
     FinishVertical, AdvanceRelations, ReplaceDontCareValues, Publish, loopVars, Pick,
     AfterCommit, TakeTuple, AfterTuple
  <2>2. QED
    BY <2>1 DEF IInv, CursorInv
<1>6. ASSUME pc' \in VerticalPcs
      PROVE  vx'.pending \subseteq live'
  <2>1. CASE FinishHorizontal
    <3>1. vx' = NoVertical \/ vx' = [NoVertical EXCEPT !.pending = Participants]
      BY <2>1 DEF FinishHorizontal
    <3>2. vx'.pending \subseteq live
      BY <3>1 DEF NoVertical, Participants
    <3>3. QED
      BY <2>1, <3>2 DEF FinishHorizontal, loopVars
  <2>2. CASE pc \in VerticalPcs
    <3>1. vx.pending \subseteq live
      BY <2>2 DEF IInv, CursorInv
    <3>2. live' = live
      BY <2>2, <1>6, Zenon DEF Next, vars, Worker, Horizontal, Vertical, Terminated, Abort, EnterConstruction,
        EraseInvalidSeed, CountCombinations, CreatePrefixTest, PrefixDone, CountPrefixParameter,
        LeaveLoop, SingleValuedParameter, BeginParameter, SelectSeededValue, SelectBestValue,
        SelectNoValue, CommitValue, CommitNoValue, FinishHorizontal, StartRelation, NextCombo,
        RejectTuple, InjectIntoMatchingTest, InjectIntoDontCareTest, AddTest, EndCombo, EndRelation,
        FinishVertical, AdvanceRelations, ReplaceDontCareValues, Publish, loopVars
    <3>3. vx'.pending \subseteq vx.pending
      BY <1>6, <2>2, VerticalChange
    <3>4. QED
      BY <3>1, <3>2, <3>3
  <2>3. QED
    BY <1>1, <1>6, <2>1, <2>2, PcStep
<1>7. QED
  BY <1>2, <1>3, <1>4, <1>5, <1>6 DEF CursorInv

\* No test is erased but an invalid seed.
LEMMA GrowthStep ==
    ASSUME IInv, [Next]_vars
    PROVE  /\ Len(tests) \in Nat /\ Len(tests') \in Nat
           /\ pc # "filter" => Len(tests) <= Len(tests') /\ DOMAIN tests \subseteq DOMAIN tests'
           /\ AddTest => Len(tests) + 1 \in DOMAIN tests'
<1>1. tests \in Seq(PartialTests) /\ tests' \in Seq(PartialTests)
  BY TestsStep DEF IInv, TypeOK, TestSeqs
<1>2. /\ Len(tests) \in Nat /\ Len(tests') \in Nat
      /\ DOMAIN tests = 1 .. Len(tests) /\ DOMAIN tests' = 1 .. Len(tests')
  BY <1>1
<1>3. CASE AddTest \/ CreatePrefixTest
  <2>1. \E t : tests' = Append(tests, t)
    BY <1>3 DEF AddTest, CreatePrefixTest
  <2>2. Len(tests') = Len(tests) + 1
    BY <1>1, <2>1
  <2>3. QED
    BY <1>2, <2>2
<1>4. ASSUME ~(AddTest \/ CreatePrefixTest), pc # "filter"
      PROVE  DOMAIN tests \subseteq DOMAIN tests'
  <2>1. CASE SingleValuedParameter
    BY <2>1 DEF SingleValuedParameter
  <2>2. CASE ReplaceDontCareValues
    BY <2>2 DEF ReplaceDontCareValues
  <2>3. CASE CommitValue
    BY <2>3 DEF CommitValue
  <2>4. CASE InjectIntoMatchingTest \/ InjectIntoDontCareTest
    <3>1. PICK i, t : tests' = [tests EXCEPT ![i] = t]
      BY <2>4, InjectionStep
    <3>2. QED
      BY <3>1
  <2>5. CASE UNCHANGED tests
    BY <2>5
  <2>6. QED
    BY <1>4, <2>1, <2>2, <2>3, <2>4, <2>5
    DEF Next, vars, Worker, Horizontal, Vertical, Terminated, Abort, EnterConstruction,
       EraseInvalidSeed, CountCombinations, PrefixDone, CountPrefixParameter, LeaveLoop,
       BeginParameter, SelectSeededValue, SelectBestValue, SelectNoValue, CommitNoValue,
       FinishHorizontal, StartRelation, NextCombo, RejectTuple, EndCombo, EndRelation,
       FinishVertical, AdvanceRelations, Publish
<1>5. DOMAIN tests \subseteq DOMAIN tests' <=> Len(tests) <= Len(tests')
  BY <1>2
<1>6. QED
  BY <1>2, <1>3, <1>4, <1>5

\* Indices of tests that are kept stay indices of tests.
LEMMA IndicesStep == IInv /\ [Next]_vars => IndicesInv'
<1> SUFFICES ASSUME IInv, [Next]_vars PROVE IndicesInv'
  OBVIOUS
<1>1. /\ pc \in Pcs /\ numSeeds \in Nat
      /\ rows \in [AllValues -> Seq(Nat)] /\ dcRows \in Seq(Nat)
      /\ rows' \in [AllValues -> Seq(Nat)] /\ dcRows' \in Seq(Nat)
  BY PartsStep DEF IInv, TypeOK
<1>2. /\ Len(tests) \in Nat /\ Len(tests') \in Nat
      /\ pc # "filter" => Len(tests) <= Len(tests') /\ DOMAIN tests \subseteq DOMAIN tests'
      /\ AddTest => Len(tests) + 1 \in DOMAIN tests'
  BY GrowthStep
<1>3. ASSUME pc \in HorizontalPcs \cup VerticalPcs
      PROVE  DOMAIN tests \subseteq DOMAIN tests'
  BY <1>2, <1>3 DEF HorizontalPcs, VerticalPcs, RelationPcs
<1>4. ASSUME pc' \notin {"init", "filter"}
      PROVE  numSeeds' <= Len(tests')
  <2>1. CASE CountCombinations
    BY <1>2, <2>1 DEF CountCombinations
  <2>2. CASE pc \notin {"init", "filter"}
    <3>1. numSeeds' = numSeeds
      BY <2>2, Zenon DEF Next, vars, Worker, Horizontal, Vertical, Terminated, Abort, EnterConstruction,
        EraseInvalidSeed, CountCombinations, CreatePrefixTest, PrefixDone, CountPrefixParameter,
        LeaveLoop, SingleValuedParameter, BeginParameter, SelectSeededValue, SelectBestValue,
        SelectNoValue, CommitValue, CommitNoValue, FinishHorizontal, StartRelation, NextCombo,
        RejectTuple, InjectIntoMatchingTest, InjectIntoDontCareTest, AddTest, EndCombo, EndRelation,
        FinishVertical, AdvanceRelations, ReplaceDontCareValues, Publish, loopVars
    <3>2. numSeeds <= Len(tests)
      BY <2>2 DEF IInv, IndicesInv
    <3>3. QED
      BY <1>1, <1>2, <2>2, <3>1, <3>2
  <2>3. QED
    BY <1>1, <1>4, <2>1, <2>2, PcStep
<1>5. ASSUME pc' \in HorizontalPcs \cup VerticalPcs
      PROVE  /\ \A v \in AllValues : \A k \in DOMAIN rows'[v] : rows'[v][k] \in DOMAIN tests'
             /\ \A k \in DOMAIN dcRows' : dcRows'[k] \in DOMAIN tests'
  <2>1. CASE rows' = NoRows /\ dcRows' = <<>>
    BY <2>1 DEF NoRows
  <2>2. ASSUME pc \in HorizontalPcs \cup VerticalPcs
        PROVE  /\ \A v \in AllValues : \A k \in DOMAIN rows[v] : rows[v][k] \in DOMAIN tests'
               /\ \A k \in DOMAIN dcRows : dcRows[k] \in DOMAIN tests'
    BY <1>3, <2>2 DEF IInv, IndicesInv
  <2>3. ASSUME pc \in HorizontalPcs \cup VerticalPcs,
               NEW i \in Nat, NEW v \in AllValues,
               i \in DOMAIN tests \/ (i = Len(tests) + 1 /\ AddTest),
               rows' \in {rows, [rows EXCEPT ![v] = Append(@, i)]},
               \/ dcRows' \in {dcRows, Append(dcRows, i)}
               \/ \E k \in DOMAIN dcRows : dcRows' = RemoveAtPos(dcRows, k)
        PROVE  /\ \A w \in AllValues : \A k \in DOMAIN rows'[w] : rows'[w][k] \in DOMAIN tests'
               /\ \A k \in DOMAIN dcRows' : dcRows'[k] \in DOMAIN tests'
    <3>1. i \in DOMAIN tests'
      BY <1>2, <1>3, <2>3
    <3>2. \A w \in AllValues : \A k \in DOMAIN rows'[w] : rows'[w][k] \in DOMAIN tests'
      <4>1. CASE rows' = rows
        BY <2>2, <2>3, <4>1
      <4>2. CASE rows' = [rows EXCEPT ![v] = Append(@, i)]
        <5>1. \A w \in AllValues : \A k \in DOMAIN rows'[w] :
                 rows'[w][k] = i \/ (k \in DOMAIN rows[w] /\ rows'[w][k] = rows[w][k])
          BY <1>1, <4>2, AppendRow
        <5>2. QED
          BY <2>2, <2>3, <3>1, <5>1
      <4>3. QED
        BY <2>3, <4>1, <4>2
    <3>3. \A k \in DOMAIN dcRows' : dcRows'[k] \in DOMAIN tests'
      <4>1. CASE dcRows' = dcRows
        BY <2>2, <2>3, <4>1
      <4>2. CASE dcRows' = Append(dcRows, i)
        BY <1>1, <2>2, <2>3, <3>1, <4>2
      <4>3. CASE \E k \in DOMAIN dcRows : dcRows' = RemoveAtPos(dcRows, k)
        <5>1. PICK k \in DOMAIN dcRows : dcRows' = RemoveAtPos(dcRows, k)
          BY <4>3
        <5>2. \A j \in DOMAIN dcRows' : \E m \in DOMAIN dcRows : dcRows'[j] = dcRows[m]
          BY <1>1, <5>1, RemoveAtPosFacts
        <5>3. QED
          BY <2>2, <2>3, <5>2
      <4>4. QED
        BY <2>3, <4>1, <4>2, <4>3
    <3>4. QED
      BY <3>2, <3>3
  <2>4. CASE BeginParameter
    BY <2>1, <2>4 DEF BeginParameter
  <2>5. CASE pc \in HorizontalPcs \cup VerticalPcs
    <3>1. CASE rows' = rows /\ dcRows' = dcRows
      BY <2>2, <2>5, <3>1
    <3>2. QED
      BY <2>1, <2>3, <2>5, <3>1, PartsChange
  <2>6. QED
    BY <1>1, <1>5, <2>4, <2>5, PcStep
<1>6. ASSUME pc' \in VerticalPcs
      PROVE  vx'.modified \subseteq DOMAIN tests'
  <2>1. CASE FinishHorizontal
    BY <2>1 DEF FinishHorizontal, NoVertical
  <2>2. CASE pc \in VerticalPcs
    <3>1. vx.modified \subseteq DOMAIN tests
      BY <2>2 DEF IInv, IndicesInv
    <3>2. InjectIntoMatchingTest \/ InjectIntoDontCareTest =>
              \E i \in DOMAIN tests : vx'.modified = vx.modified \cup {i}
      BY InjectionStep
    <3>3. vx'.modified \subseteq DOMAIN tests
      BY <1>6, <2>2, <3>1, <3>2, VerticalChange
    <3>4. QED
      BY <1>3, <2>2, <3>3
  <2>3. QED
    BY <1>1, <1>6, <2>1, <2>2, PcStep
<1>7. QED
  BY <1>4, <1>5, <1>6 DEF IndicesInv

\* The pairs not marked covered stay pairs of the coverage maps, which do not
\* change while they are worked with.
LEMMA MapsInvStep == IInv /\ [Next]_vars => MapsInv'
<1> SUFFICES ASSUME IInv, [Next]_vars, pc' \in HorizontalPcs \cup VerticalPcs
             PROVE  uncovered' \subseteq MapTuples'
  BY DEF MapsInv
<1>1. pc \in Pcs
  BY DEF IInv, TypeOK
<1>2. pc \in HorizontalPcs \cup VerticalPcs \/ BeginParameter
  BY <1>1, PcStep
<1>3. UNCHANGED loopVars
  BY <1>2, Zenon DEF Next, vars, Worker, Horizontal, Vertical, Terminated, Abort, EnterConstruction,
     EraseInvalidSeed, CountCombinations, CreatePrefixTest, PrefixDone, CountPrefixParameter,
     LeaveLoop, SingleValuedParameter, BeginParameter, SelectSeededValue, SelectBestValue,
     SelectNoValue, CommitValue, CommitNoValue, FinishHorizontal, StartRelation, NextCombo,
     RejectTuple, InjectIntoMatchingTest, InjectIntoDontCareTest, AddTest, EndCombo, EndRelation,
     FinishVertical, AdvanceRelations, ReplaceDontCareValues, Publish, loopVars,
     HorizontalPcs, VerticalPcs, RelationPcs
<1>4. MapTuples' = MapTuples
  BY <1>3 DEF MapTuples, MapCombos, Participants, CurrentStrength, FirstParams, loopVars
<1>5. CASE BeginParameter
  BY <1>4, <1>5 DEF BeginParameter
<1>6. CASE pc \in HorizontalPcs \cup VerticalPcs
  <2>1. uncovered \subseteq MapTuples
    BY <1>6 DEF IInv, MapsInv
  <2>2. uncovered' \subseteq uncovered
    <3>1. CASE NextCombo
      <4>1. PICK X : uncovered' = uncovered \ X
        BY <3>1 DEF NextCombo
      <4>2. QED
        BY <4>1
    <3>2. CASE CommitValue
      <4>1. PICK X : uncovered' = uncovered \ X
        BY <3>2 DEF CommitValue
      <4>2. QED
        BY <4>1
    <3>3. CASE RejectTuple \/ InjectIntoMatchingTest \/ InjectIntoDontCareTest \/ AddTest
      <4>1. PICK X : uncovered' = uncovered \ X
        BY <3>3 DEF RejectTuple, InjectIntoMatchingTest, InjectIntoDontCareTest, AddTest, TakeTuple
      <4>2. QED
        BY <4>1
    <3>4. CASE uncovered' = uncovered
      BY <3>4
    <3>5. QED
      BY <1>6, <3>1, <3>2, <3>3, <3>4
      DEF Next, vars, Worker, Horizontal, Vertical, Terminated, Abort, EnterConstruction,
       EraseInvalidSeed, CountCombinations, CreatePrefixTest, PrefixDone, CountPrefixParameter,
       LeaveLoop, SingleValuedParameter, BeginParameter, SelectSeededValue, SelectBestValue,
       SelectNoValue, CommitNoValue, FinishHorizontal, StartRelation, EndCombo, EndRelation,
       FinishVertical, AdvanceRelations, ReplaceDontCareValues, Publish, mapVars,
       HorizontalPcs, VerticalPcs, RelationPcs
  <2>3. QED
    BY <1>4, <2>1, <2>2
<1>7. QED
  BY <1>2, <1>5, <1>6

\* What a picked value leaves alone.
LEMMA PickKeeps ==
    ASSUME IInv, NEW v, Pick(v)
    PROVE  hx'.ti = hx.ti /\ hx'.validValues = hx.validValues /\ hx'.selected = v
<1>1. hx \in HorizontalLocals
  BY DEF IInv, TypeOK
<1>2. QED
  BY <1>1 DEF Pick, HorizontalLocals

\* The horizontal extension works on with what the constraint handler said.
LEMMA HorizontalInvStep == IInv /\ [Next]_vars => HorizontalInv'
<1> SUFFICES ASSUME IInv, [Next]_vars PROVE HorizontalInv'
  OBVIOUS
<1>1. /\ tests \in Seq(PartialTests) /\ \A i \in DOMAIN tests : tests[i] \in PartialTests
      /\ hx \in HorizontalLocals /\ allowed \subseteq FullTests
  BY InputAssumption DEF IInv, TypeOK, TestSeqs
<1>2. Len(tests) \in Nat /\ \A i \in Nat : i \in DOMAIN tests <=> 1 <= i /\ i <= Len(tests)
  BY <1>1
<1>3. ASSUME pc \in {"select", "commit"}
      PROVE  /\ cur \in Params
             /\ hx.ti \in DOMAIN tests
             /\ Len(hx.validValues) = Len(tests)
             /\ \A i \in hx.ti .. Len(tests) : hx.validValues[i] = ValidValues(tests[i], cur)
             /\ \A i \in DOMAIN tests : Extendable(allowed, tests[i])
  <2>1. pc \in BodyPcs /\ pc \notin {"init", "filter"}
    BY <1>3 DEF BodyPcs, HorizontalPcs
  <2>2. cur \in Params
    BY <2>1, MapTuplesNow DEF IInv, CursorInv
  <2>3. QED
    BY <1>3, <2>1, <2>2 DEF IInv, HorizontalInv, TestsExtendable
<1>5. CASE BeginParameter
  <2>1. /\ hx'.ti = 1
        /\ hx'.validValues = [i \in DOMAIN tests |-> ValidValues(tests[i], cur)]
        /\ tests' = tests /\ cur' = cur /\ allowed' = allowed
        /\ pc' = IF tests = <<>> THEN "horizontalDone" ELSE "select"
    BY <1>5 DEF BeginParameter, NoHorizontal, loopVars, jobVars
  <2>2. Len(hx'.validValues) = Len(tests)
    BY <1>1, <2>1
  <2>3. \A i \in DOMAIN tests : hx'.validValues[i] = ValidValues(tests[i], cur)
    BY <2>1
  <2>4. \A i \in DOMAIN tests : ValidValues(tests[i], cur)' = ValidValues(tests[i], cur)
    BY <2>1 DEF ValidValues, Constrained
  <2>5. tests # <<>> => 1 \in DOMAIN tests
    BY <1>1
  <2>6. QED
    BY <1>2, <2>1, <2>2, <2>3, <2>4, <2>5 DEF HorizontalInv
<1>6. ASSUME pc = "select", NEW v, Pick(v),
             v # -1 => v \in Dom(cur) /\ Extendable(allowed, Assign(tests[hx.ti], cur, v)),
             UNCHANGED <<tests, cur, allowed>>
      PROVE  HorizontalInv'
  <2>1. hx'.ti = hx.ti /\ hx'.validValues = hx.validValues /\ hx'.selected = v
    BY <1>6, PickKeeps
  <2>2. \A i \in Int : ValidValues(tests[i], cur)' = ValidValues(tests[i], cur)
    BY <1>6 DEF ValidValues, Constrained
  <2>3. Dom(cur)' = Dom(cur)
    BY <1>6 DEF Dom
  <2>4. QED
    BY <1>2, <1>3, <1>6, <2>1, <2>2, <2>3 DEF HorizontalInv
<1>7. CASE SelectSeededValue
  <2>1. pc = "select" /\ tests[hx.ti][cur] # DontCare /\ Pick(tests[hx.ti][cur])
        /\ UNCHANGED <<tests, cur, allowed>>
    BY <1>7 DEF SelectSeededValue, loopVars, jobVars
  <2>2. tests[hx.ti][cur] \in Dom(cur)
    BY <1>1, <1>3, <2>1, TestFacts
  <2>3. Assign(tests[hx.ti], cur, tests[hx.ti][cur]) = tests[hx.ti]
    BY <1>1, <1>3, <2>1, TestFacts DEF Assign
  <2>4. QED
    BY <1>3, <1>6, <2>1, <2>2, <2>3
<1>8. CASE SelectBestValue
  <2>1. PICK v \in Dom(cur) : Gain(v) > 0 /\ Pick(v)
    BY <1>8 DEF SelectBestValue
  <2>2. pc = "select" /\ UNCHANGED <<tests, cur, allowed>>
    BY <1>8 DEF SelectBestValue, loopVars, jobVars
  <2>3. v \in hx.validValues[hx.ti]
    BY <2>1 DEF Gain
  <2>4. hx.ti \in hx.ti .. Len(tests)
    BY <1>1, <1>3, <2>2
  <2>5. v \in ValidValues(tests[hx.ti], cur)
    BY <1>3, <2>2, <2>3, <2>4
  <2>6. Extendable(allowed, Assign(tests[hx.ti], cur, v))
    BY <1>1, <1>3, <2>2, <2>5, ValidValueExtendable
  <2>7. QED
    BY <1>6, <2>1, <2>2, <2>6
<1>9. CASE SelectNoValue
  <2>1. /\ pc = "select" /\ UNCHANGED <<tests, cur, allowed>>
        /\ hx' = [hx EXCEPT !.selected = -1, !.lastPicked = LastPicked]
    BY <1>9 DEF SelectNoValue, loopVars, jobVars
  <2>2. hx'.ti = hx.ti /\ hx'.validValues = hx.validValues /\ hx'.selected = -1
    BY <1>1, <2>1 DEF HorizontalLocals
  <2>3. \A i \in Int : ValidValues(tests[i], cur)' = ValidValues(tests[i], cur)
    BY <2>1 DEF ValidValues, Constrained
  <2>4. QED
    BY <1>2, <1>3, <2>1, <2>2, <2>3 DEF HorizontalInv
<1>10. CASE CommitValue \/ CommitNoValue
  <2>1. pc = "commit" /\ cur' = cur /\ allowed' = allowed
    BY <1>10 DEF CommitValue, CommitNoValue, loopVars, jobVars
  <2>2. pc' = "horizontalDone" \/ (pc' = "select" /\ hx.ti # Len(tests))
    BY <1>10, Zenon DEF CommitValue, CommitNoValue, AfterCommit
  <2>3. hx'.ti = hx.ti + 1 /\ hx'.validValues = hx.validValues
    BY <1>1, <1>10 DEF CommitValue, CommitNoValue, HorizontalLocals
  <2>4. tests' \in Seq(PartialTests) /\ Len(tests') = Len(tests)
        /\ \A i \in DOMAIN tests : i # hx.ti => tests'[i] = tests[i]
    <3>1. tests' = tests \/ \E t : tests' = [tests EXCEPT ![hx.ti] = t]
      BY <1>10 DEF CommitValue, CommitNoValue
    <3>2. tests' \in Seq(PartialTests)
      BY TestsStep DEF TestSeqs
    <3>3. QED
      BY <1>1, <3>1, <3>2
  <2>5. hx.ti \in Nat /\ hx.ti <= Len(tests)
    BY <1>2, <1>3, <2>1, <1>1 DEF HorizontalLocals
  <2>6. CASE pc' = "select" /\ hx.ti # Len(tests)
    <3>1. hx'.ti \in DOMAIN tests'
      BY <1>2, <2>3, <2>4, <2>5, <2>6
    <3>2. \A i \in hx'.ti .. Len(tests) : i \in hx.ti .. Len(tests) /\ i \in DOMAIN tests /\ i # hx.ti
      BY <1>2, <2>3, <2>5
    <3>3. \A i \in hx'.ti .. Len(tests) : hx'.validValues[i] = ValidValues(tests'[i], cur)
      BY <1>3, <2>1, <2>3, <2>4, <3>2
    <3>4. \A i \in Int : ValidValues(tests[i], cur)' = ValidValues(tests'[i], cur)
      BY <2>1 DEF ValidValues, Constrained
    <3>5. Len(hx'.validValues) = Len(tests')
      BY <1>3, <2>1, <2>3, <2>4
    <3>6. QED
      BY <1>2, <2>4, <2>6, <3>1, <3>3, <3>4, <3>5 DEF HorizontalInv
  <2>7. CASE pc' = "horizontalDone"
    BY <2>7 DEF HorizontalInv
  <2>8. QED
    BY <2>2, <2>6, <2>7
<1>11. CASE UNCHANGED <<pc, tests, cur, allowed, hx>>
  BY <1>11 DEF IInv, HorizontalInv, ValidValues, Constrained, Dom, Extendable
<1>12. CASE pc' \notin {"select", "commit"}
  BY <1>12 DEF HorizontalInv
<1>13. QED
  BY <1>5, <1>7, <1>8, <1>9, <1>10, <1>11, <1>12
  DEF Next, vars, Worker, Horizontal, Vertical, Terminated, Abort, EnterConstruction,
      EraseInvalidSeed, CountCombinations, CreatePrefixTest, PrefixDone, CountPrefixParameter,
      LeaveLoop, SingleValuedParameter, FinishHorizontal, StartRelation, NextCombo,
      RejectTuple, InjectIntoMatchingTest, InjectIntoDontCareTest, AddTest, TakeTuple,
      AfterTuple, EndCombo, EndRelation, FinishVertical, AdvanceRelations,
      ReplaceDontCareValues, Publish, loopVars, jobVars

\* Every test stays completable.
LEMMA TestsExtendableStep == IInv /\ [Next]_vars => TestsExtendable'
<1> SUFFICES ASSUME IInv, [Next]_vars PROVE TestsExtendable'
  OBVIOUS
<1>1. /\ tests \in Seq(PartialTests) /\ \A i \in DOMAIN tests : tests[i] \in PartialTests
      /\ allowed \subseteq FullTests /\ allowed' = allowed /\ pc \in Pcs
  BY InputAssumption, ClientStep DEF IInv, TypeOK, TestSeqs
<1>2. ASSUME pc \notin {"init", "filter"}
      PROVE  \A i \in DOMAIN tests : Extendable(allowed, tests[i])
  BY <1>2 DEF IInv, TestsExtendable
<1>3. ASSUME pc' \notin {"init", "filter"}, NEW i \in DOMAIN tests'
      PROVE  Extendable(allowed, tests'[i])
  <2>1. CASE CountCombinations
    BY <1>3, <2>1 DEF CountCombinations
  <2>2. CASE CreatePrefixTest
    <3>1. PICK u \in PrefixCombosLeft : tests' = Append(tests, Inject(Unassigned, u))
      BY <2>2 DEF CreatePrefixTest
    <3>2. Extendable(allowed, Inject(Unassigned, u))
      BY DEF PrefixCombosLeft
    <3>3. tests'[i] = Inject(Unassigned, u) \/ (i \in DOMAIN tests /\ tests'[i] = tests[i])
      BY <1>1, <1>3, <3>1
    <3>4. QED
      BY <1>2, <2>2, <3>2, <3>3 DEF CreatePrefixTest
  <2>3. CASE SingleValuedParameter
    <3>1. cur \in Params /\ NumValues[cur] <= 1
      BY <2>3, MapTuplesNow DEF SingleValuedParameter
    <3>2. Dom(cur) = {0}
      BY <3>1, ParamsFacts DEF Dom
    <3>3. i \in DOMAIN tests /\ tests'[i] = Assign(tests[i], cur, 0)
      BY <1>3, <2>3 DEF SingleValuedParameter
    <3>4. PICK a \in allowed : Fits(tests[i], a)
      BY <1>2, <2>3, <3>3 DEF SingleValuedParameter, Extendable
    <3>5. a \in [Params -> AllValues] /\ a[cur] = 0
      BY <1>1, <3>1, <3>2, FullTestFacts
    <3>6. Fits(Assign(tests[i], cur, 0), a)
      BY <1>1, <3>1, <3>3, <3>4, <3>5, TestFacts DEF Fits, Assign
    <3>7. QED
      BY <3>3, <3>6 DEF Extendable
  <2>4. CASE CommitValue
    <3>1. /\ tests' = [tests EXCEPT ![hx.ti] = Assign(tests[hx.ti], cur, hx.selected)]
          /\ Extendable(allowed, Assign(tests[hx.ti], cur, hx.selected))
      BY <2>4 DEF CommitValue, IInv, HorizontalInv
    <3>2. i \in DOMAIN tests /\ tests'[i] \in {tests[i], Assign(tests[hx.ti], cur, hx.selected)}
      BY <1>3, <3>1
    <3>3. QED
      BY <1>2, <2>4, <3>1, <3>2 DEF CommitValue
  <2>5. CASE InjectIntoMatchingTest \/ InjectIntoDontCareTest
    <3>1. PICK u \in Tuples, k \in DOMAIN tests :
              Accepts(k, u) /\ tests' = [tests EXCEPT ![k] = Inject(@, u)]
      BY <2>5, InjectionStep
    <3>2. Extendable(allowed, Inject(tests[k], u))
      BY <3>1 DEF Accepts
    <3>3. i \in DOMAIN tests /\ tests'[i] \in {tests[i], Inject(tests[k], u)}
      BY <1>3, <3>1
    <3>4. QED
      BY <1>2, <2>5, <3>2, <3>3 DEF InjectIntoMatchingTest, InjectIntoDontCareTest
  <2>6. CASE AddTest
    <3>1. PICK u \in Tuples : /\ ~IsRejected(u)
                              /\ tests' = Append(tests, Inject(Unassigned, u))
      BY <2>6 DEF AddTest
    <3>2. TupleAllowed(allowed, u)
      BY <3>1 DEF IsRejected, IInv, ValidMarksSound
    <3>3. Extendable(allowed, Inject(Unassigned, u))
      BY <1>1, <3>2, TupleTestExtendable
    <3>4. tests'[i] = Inject(Unassigned, u) \/ (i \in DOMAIN tests /\ tests'[i] = tests[i])
      BY <1>1, <1>3, <3>1
    <3>5. QED
      BY <1>2, <2>6, <3>3, <3>4 DEF AddTest
  <2>7. CASE ReplaceDontCareValues
    <3>1. i \in DOMAIN tests
      BY <1>3, <2>7 DEF ReplaceDontCareValues
    <3>2. Extendable(allowed, tests[i])
      BY <1>2, <2>7, <3>1 DEF ReplaceDontCareValues
    <3>3. tests'[i] \in {tests[i], Completion(tests[i])}
      BY <2>7, <3>1 DEF ReplaceDontCareValues
    <3>4. Extendable(allowed, Completion(tests[i]))
      BY <3>2, CompletionAllowed, AllowedExtendable
    <3>5. QED
      BY <3>2, <3>3, <3>4
  <2>8. CASE UNCHANGED tests /\ pc \notin {"init", "filter"}
    BY <1>2, <1>3, <2>8
  <2>9. QED
    BY <1>3, <2>1, <2>2, <2>3, <2>4, <2>5, <2>6, <2>7, <2>8
    DEF Next, vars, Worker, Horizontal, Vertical, Terminated, Abort, EnterConstruction,
        EraseInvalidSeed, PrefixDone, CountPrefixParameter, LeaveLoop, BeginParameter,
        SelectSeededValue, SelectBestValue, SelectNoValue, CommitNoValue, FinishHorizontal,
        StartRelation, NextCombo, RejectTuple, EndCombo, EndRelation, FinishVertical,
        AdvanceRelations, Publish
<1>4. ASSUME ReplaceDontCare, pc' \in {"publish", "done"}, NEW i \in DOMAIN tests'
      PROVE  tests'[i] \in allowed
  <2>1. CASE ReplaceDontCareValues
    <3>1. i \in DOMAIN tests /\ tests'[i] = Completion(tests[i])
      BY <1>4, <2>1 DEF ReplaceDontCareValues
    <3>2. QED
      BY <1>2, <2>1, <3>1, CompletionAllowed DEF ReplaceDontCareValues
  <2>2. CASE pc \in {"publish", "done"} /\ UNCHANGED tests
    BY <1>4, <2>2 DEF IInv, TestsExtendable
  <2>3. QED
    BY <1>4, <2>1, <2>2, Zenon
    DEF Next, vars, Worker, Horizontal, Vertical, Terminated, Abort, EnterConstruction,
        EraseInvalidSeed, CountCombinations, CreatePrefixTest, PrefixDone, CountPrefixParameter,
        LeaveLoop, SingleValuedParameter, BeginParameter, SelectSeededValue, SelectBestValue,
        SelectNoValue, CommitValue, CommitNoValue, AfterCommit, Pick, FinishHorizontal,
        StartRelation, NextCombo, RejectTuple, InjectIntoMatchingTest, InjectIntoDontCareTest,
        AddTest, TakeTuple, AfterTuple, EndCombo, EndRelation, FinishVertical, AdvanceRelations,
        Publish
<1>5. QED
  BY <1>1, <1>3, <1>4 DEF TestsExtendable

\* Tuples are only marked valid if they are allowed.
LEMMA ValidMarksStep == IInv /\ [Next]_vars => ValidMarksSound'
<1> SUFFICES ASSUME IInv, [Next]_vars, NEW ru \in valid'
             PROVE  TupleAllowed(allowed, ru[2])
  BY ClientStep DEF ValidMarksSound
<1>1. /\ tests \in Seq(PartialTests) /\ \A i \in DOMAIN tests : tests[i] \in PartialTests
      /\ allowed \subseteq FullTests /\ vx \in VerticalLocals
      /\ valid' \subseteq Rels \X Tuples
  BY InputAssumption, MapsStep DEF IInv, TypeOK, TestSeqs
<1>2. ASSUME NEW i \in DOMAIN tests, pc \notin {"init", "filter"}, Covers(tests[i], ru[2])
      PROVE  TupleAllowed(allowed, ru[2])
  <2>1. Extendable(allowed, tests[i])
    BY <1>2 DEF IInv, TestsExtendable
  <2>2. ru[2] \in Tuples
    BY <1>1
  <2>3. QED
    BY <1>1, <1>2, <2>1, <2>2, CoveredTupleAllowed
<1>3. CASE ru \in valid
  BY <1>3 DEF IInv, ValidMarksSound
<1>4. CASE BeginParameter
  <2>1. numSeeds \in Nat /\ numSeeds <= Len(tests) /\ pc = "param"
    BY <1>4 DEF IInv, TypeOK, IndicesInv, BeginParameter
  <2>2. ru \in CoveredBy(MapTuples, 1 .. numSeeds)
    BY <1>4 DEF BeginParameter
  <2>3. PICK i \in 1 .. numSeeds : Covers(tests[i], ru[2])
    BY <2>2 DEF CoveredBy
  <2>4. i \in DOMAIN tests
    BY <1>1, <2>1
  <2>5. QED
    BY <1>2, <2>1, <2>3, <2>4
<1>5. CASE CommitValue /\ ru \notin valid
  <2> DEFINE t == Assign(tests[hx.ti], cur, hx.selected)
  <2>1. /\ pc = "commit" /\ hx.selected # -1
        /\ valid' = valid \cup
              {q \in MapTuples : \E v \in hx.validValues[hx.ti] \ {hx.selected} :
                  Covers(Assign(t, cur, v), q[2])}
    BY <1>5, Zenon DEF CommitValue
  <2>2. PICK v \in hx.validValues[hx.ti] : Covers(Assign(t, cur, v), ru[2])
    BY <1>5, <2>1
  <2>3. pc \in BodyPcs /\ hx.ti \in DOMAIN tests /\ hx.ti \in hx.ti .. Len(tests)
    BY <1>1, <2>1 DEF BodyPcs, HorizontalPcs, IInv, HorizontalInv
  <2>4. cur \in Params
    BY <2>3, MapTuplesNow DEF IInv, CursorInv
  <2>5. v \in ValidValues(tests[hx.ti], cur)
    BY <2>1, <2>2, <2>3 DEF IInv, HorizontalInv
  <2>6. Extendable(allowed, tests[hx.ti])
    BY <2>1, <2>3 DEF IInv, TestsExtendable
  <2>7. Extendable(allowed, Assign(tests[hx.ti], cur, v))
    BY <1>1, <2>3, <2>4, <2>5, <2>6, ValidValueExtendable
  <2>8. Assign(t, cur, v) = Assign(tests[hx.ti], cur, v)
    BY <1>1, <2>3, <2>4, TestFacts DEF Assign
  <2>9. ru[2] \in Tuples
    BY <1>1
  <2>10. QED
    BY <1>1, <2>2, <2>7, <2>8, <2>9, CoveredTupleAllowed
<1>6. CASE NextCombo /\ ru \notin valid
  <2>1. \E S \in vx.combos :
            valid' = valid \/ valid' = valid \cup
                {q \in CoveredBy(MapTuples, vx.modified) : q[1] = vx.rel /\ DOMAIN q[2] = S}
    BY <1>6, Zenon DEF NextCombo
  <2>2. ru \in CoveredBy(MapTuples, vx.modified)
    BY <1>6, <2>1
  <2>3. PICK i \in vx.modified : Covers(tests[i], ru[2])
    BY <2>2 DEF CoveredBy
  <2>4. pc = "combo" /\ i \in DOMAIN tests
    BY <1>6, <2>3 DEF NextCombo, IInv, IndicesInv, VerticalPcs, RelationPcs
  <2>5. QED
    BY <1>2, <2>3, <2>4
<1>7. CASE AdvanceRelations
  BY <1>7 DEF AdvanceRelations
<1>8. QED
  <2>1. UNCHANGED valid \/ BeginParameter \/ CommitValue \/ NextCombo \/ AdvanceRelations
    BY Zenon DEF Next, vars, Worker, Horizontal, Vertical, Terminated, Abort, EnterConstruction,
       EraseInvalidSeed, CountCombinations, CreatePrefixTest, PrefixDone, CountPrefixParameter,
       LeaveLoop, SingleValuedParameter, SelectSeededValue, SelectBestValue, SelectNoValue,
       CommitNoValue, FinishHorizontal, StartRelation, RejectTuple, InjectIntoMatchingTest,
       InjectIntoDontCareTest, AddTest, EndCombo, EndRelation, FinishVertical,
       ReplaceDontCareValues, Publish, mapVars
  <2>2. QED
    BY <1>3, <1>4, <1>5, <1>6, <1>7, <2>1

-------------------------------------------------------------------------------
(* The theorems about tests and marks *)

LEMMA StepIInv == IInv /\ [Next]_vars => IInv'
BY TypeStep, CursorStep, IndicesStep, HorizontalInvStep, MapsInvStep, TestsExtendableStep,
   ValidMarksStep, Zenon DEF IInv

\* The parts of the inductive invariant hold throughout.
THEOREM InductiveInvariant == Spec => []IInv
BY InitIInv, StepIInv, PTL DEF Spec

\* The thread never uses an index or a value outside its range, and every
\* variable keeps its type, for every model and whenever the client aborts.
THEOREM TypeCorrect == Spec => []TypeOK
<1>1. IInv => TypeOK
  BY DEF IInv
<1>2. QED
  BY <1>1, InductiveInvariant, PTL

\* Every test the job holds after the invalid seeds are erased can be completed
\* to an allowed one, and is allowed once don't care values are replaced: no
\* model, constraints, seeds or abort make the job deliver a test that violates
\* the constraints.
THEOREM TestsStayExtendable == Spec => []TestsExtendable
<1>1. IInv => TestsExtendable
  BY DEF IInv
<1>2. QED
  BY <1>1, InductiveInvariant, PTL

\* The vertical extension is right not to ask the constraint handler about a
\* tuple marked valid.
THEOREM MarkedTuplesAllowed == Spec => []ValidMarksSound
<1>1. IInv => ValidMarksSound
  BY DEF IInv
<1>2. QED
  BY <1>1, InductiveInvariant, PTL

-------------------------------------------------------------------------------
(* The inductive invariant of what is covered *)

BeforePcs == {"init", "filter", "prefix"}

\* Where no coverage map is in use.
LoopPcs == BeforePcs \cup {"countPrefix", "param"}

\* A value selected for a test is the one it has, if it has one.
SelectedInv ==
    pc = "commit" /\ hx.selected # -1 =>
        tests[hx.ti][cur] \in {DontCare, hx.selected}

\* The relations left have exactly their parameters before the current one
\* behind them, the others all of theirs.
RelationsInv ==
    \A r \in Rels :
        IF r \in live
        THEN \A i \in 1 .. RelLen(r) : Relations[r].params[i] < cur <=> i <= idx[r]
        ELSE \A i \in 1 .. RelLen(r) : Relations[r].params[i] < cur

\* Between parameters the coverage maps are empty, and the number of missing
\* combinations is that of the pairs not marked covered.
MissingInv ==
    /\ pc \in LoopPcs => uncovered = {} /\ missing = 0
    /\ pc \in HorizontalPcs => missing - hx.gained = Cardinality(uncovered)
    /\ pc \in VerticalPcs =>
           Cardinality(uncovered) =
               missing - vx.total - (IF pc \in RelationPcs THEN vx.checked ELSE 0)
    /\ pc = "advance" /\ ~aborted => missing = 0 /\ uncovered = {}

\* What the vertical extension has not marked covered, it has still to visit.
VisitInv ==
    pc \in VerticalPcs =>
        /\ pc = "verticalDone" => vx.pending = {}
        /\ \A ru \in uncovered :
              \/ ru[1] \in vx.pending
              \/ /\ ru[1] = vx.rel
                 /\ \/ pc = "combo" /\ DOMAIN ru[2] \in vx.combos
                    \/ pc = "tuple" /\ DOMAIN ru[2] \in vx.combos \cup {vx.combo}

\* The tuples that the tests A allow, with at most as many parameters as the
\* strength of some relation, which has all of them, and all among the first k,
\* are covered by s.
CoveredUpTo(A, s, k) ==
    \A r \in Rels : \A S \in SUBSET (RelParams(r) \cap (1 .. k)) :
        Cardinality(S) <= Relations[r].strength =>
            \A u \in TuplesOf(S) :
                TupleAllowed(A, u) => \E i \in DOMAIN s : Covers(s[i], u)

\* A job that has not been aborted has covered what it has been through.
CoverageInv ==
    ~aborted =>
        /\ pc = "countPrefix" => CoveredUpTo(allowed, tests, FirstParamIdx)
        /\ pc = "advance" => CoveredUpTo(allowed, tests, cur)
        /\ pc \notin BeforePcs \cup {"countPrefix"} => CoveredUpTo(allowed, tests, cur - 1)
        /\ pc \in {"replace", "publish", "done"} => cur = NumUsed + 1

\* The number of parameters the client sees is of those it has been through.
ReportInv ==
    /\ pc \in BeforePcs => handle.params = 0
    /\ pc = "countPrefix" => handle.params <= FirstParamIdx
    /\ pc \notin BeforePcs \cup {"countPrefix"} => handle.params <= cur - 1

ResultInv == pc # "done" => result = Pending

CInv == /\ IInv /\ SelectedInv /\ RelationsInv /\ MissingInv /\ VisitInv /\ CoverageInv
        /\ ReportInv /\ ResultInv /\ CoveredMarksSound

-------------------------------------------------------------------------------
(* Values are kept *)

\* The steps.
LEMMA StepCases ==
    ASSUME [Next]_vars
    PROVE  \/ Abort \/ EnterConstruction \/ EraseInvalidSeed \/ CountCombinations
           \/ CreatePrefixTest \/ PrefixDone \/ CountPrefixParameter \/ LeaveLoop
           \/ SingleValuedParameter \/ BeginParameter
           \/ SelectSeededValue \/ SelectBestValue \/ SelectNoValue
           \/ CommitValue \/ CommitNoValue \/ FinishHorizontal
           \/ StartRelation \/ NextCombo \/ RejectTuple
           \/ InjectIntoMatchingTest \/ InjectIntoDontCareTest \/ AddTest
           \/ EndCombo \/ EndRelation \/ FinishVertical
           \/ AdvanceRelations \/ ReplaceDontCareValues \/ Publish \/ UNCHANGED vars
BY Zenon DEF Next, Worker, Horizontal, Vertical, Terminated

\* A step that commits no value leaves the selected one, or selects one that
\* the test has or has none in place of.
LEMMA SelectedStep == IInv /\ SelectedInv /\ [Next]_vars => SelectedInv'
<1> SUFFICES ASSUME IInv, SelectedInv, [Next]_vars, pc' = "commit", hx'.selected # -1
             PROVE  tests'[hx'.ti][cur'] \in {DontCare, hx'.selected}
  BY DEF SelectedInv
<1>1. CASE SelectSeededValue
  <2>1. hx'.ti = hx.ti /\ hx'.selected = tests[hx.ti][cur]
    BY <1>1, PickKeeps DEF SelectSeededValue
  <2>2. QED
    BY <1>1, <2>1 DEF SelectSeededValue, loopVars
<1>2. CASE SelectBestValue
  <2>1. PICK v : Pick(v)
    BY <1>2 DEF SelectBestValue
  <2>2. hx'.ti = hx.ti
    BY <2>1, PickKeeps
  <2>3. QED
    BY <1>2, <2>2 DEF SelectBestValue, loopVars
<1>3. CASE SelectNoValue
  <2>1. hx \in HorizontalLocals
    BY DEF IInv, TypeOK
  <2>2. hx'.selected = -1
    BY <1>3, <2>1 DEF SelectNoValue, HorizontalLocals
  <2>3. QED
    BY <2>2
<1>4. CASE pc = "commit" /\ UNCHANGED <<tests, cur, hx>>
  BY <1>4 DEF SelectedInv
<1>5. QED
  BY <1>1, <1>2, <1>3, <1>4, StepCases, Zenon
  DEF Abort, EnterConstruction, EraseInvalidSeed, CountCombinations, CreatePrefixTest,
      PrefixDone, CountPrefixParameter, LeaveLoop, SingleValuedParameter, BeginParameter,
      CommitValue, CommitNoValue, AfterCommit, FinishHorizontal, StartRelation, NextCombo,
      RejectTuple, InjectIntoMatchingTest, InjectIntoDontCareTest, AddTest, TakeTuple,
      AfterTuple, EndCombo, EndRelation, FinishVertical, AdvanceRelations,
      ReplaceDontCareValues, Publish, vars, loopVars

\* t has the values of s, and perhaps more.
Extends(t, s) == \A p \in Params : s[p] # DontCare => t[p] = s[p]

\* One test is changed, to one with more values.
LEMMA ChangedTest ==
    ASSUME NEW s \in Seq(PartialTests), NEW k \in DOMAIN s, NEW t, Extends(t, s[k]),
           NEW s2, s2 = [s EXCEPT ![k] = t]
    PROVE  \A i \in DOMAIN s : i \in DOMAIN s2 /\ Extends(s2[i], s[i])
BY DEF Extends

\* One test is added.
LEMMA AddedTest ==
    ASSUME NEW s \in Seq(PartialTests), NEW t \in PartialTests, NEW s2, s2 = Append(s, t)
    PROVE  \A i \in DOMAIN s : i \in DOMAIN s2 /\ Extends(s2[i], s[i])
<1>1. \A i \in DOMAIN s : i \in DOMAIN s2 /\ s2[i] = s[i]
  OBVIOUS
<1>2. QED
  BY <1>1 DEF Extends

\* Tests are only filled in.
LEMMA ValuesStep ==
    ASSUME IInv, SelectedInv, [Next]_vars, pc # "filter"
    PROVE  \A i \in DOMAIN tests : i \in DOMAIN tests' /\ Extends(tests'[i], tests[i])
<1>1. /\ tests \in Seq(PartialTests)
      /\ \A i \in DOMAIN tests : tests[i] \in PartialTests
      /\ tests' \in Seq(PartialTests) /\ allowed \subseteq FullTests
  BY TestsStep, InputAssumption DEF IInv, TypeOK, TestSeqs
<1>2. CASE CreatePrefixTest \/ AddTest
  <2>1. PICK u : tests' = Append(tests, Inject(Unassigned, u))
    BY <1>2 DEF CreatePrefixTest, AddTest
  <2>2. \A i \in DOMAIN tests : i \in DOMAIN tests' /\ tests'[i] = tests[i]
    BY <1>1, <2>1
  <2>3. QED
    BY <2>2 DEF Extends
<1>3. CASE SingleValuedParameter
  <2>1. cur \in Params /\ NumValues[cur] <= 1
    BY <1>3, MapTuplesNow DEF SingleValuedParameter
  <2>2. Dom(cur) = {0}
    BY <2>1, ParamsFacts DEF Dom
  <2>3. TAKE i \in DOMAIN tests
  <2>4. i \in DOMAIN tests' /\ tests'[i] = Assign(tests[i], cur, 0)
    BY <1>3 DEF SingleValuedParameter
  <2>5. tests[i] \in [Params -> AllValues \cup {DontCare}] /\ tests[i][cur] \in {0, DontCare}
    BY <1>1, <2>1, <2>2, TestFacts
  <2>6. QED
    BY <2>1, <2>4, <2>5 DEF Extends, Assign
<1>4. CASE CommitValue
  <2>1. /\ tests' = [tests EXCEPT ![hx.ti] = Assign(tests[hx.ti], cur, hx.selected)]
        /\ hx.ti \in DOMAIN tests
        /\ tests[hx.ti][cur] \in {DontCare, hx.selected}
    BY <1>4 DEF CommitValue, SelectedInv, IInv, HorizontalInv
  <2>2. tests[hx.ti] \in [Params -> AllValues \cup {DontCare}]
    BY <1>1, <2>1, TestFacts
  <2>3. Extends(Assign(tests[hx.ti], cur, hx.selected), tests[hx.ti])
    BY <2>1, <2>2 DEF Extends, Assign
  <2>4. QED
    BY <1>1, <2>1, <2>3, ChangedTest
<1>5. CASE InjectIntoMatchingTest \/ InjectIntoDontCareTest
  <2>1. PICK u \in Tuples, k \in DOMAIN tests :
            Accepts(k, u) /\ tests' = [tests EXCEPT ![k] = Inject(@, u)]
    BY <1>5, InjectionStep
  <2>2. Extends(Inject(tests[k], u), tests[k])
    BY <2>1 DEF Accepts, Fits, Extends, Inject
  <2>3. QED
    BY <1>1, <2>1, <2>2, ChangedTest
<1>6. CASE ReplaceDontCareValues
  <2>1. TAKE i \in DOMAIN tests
  <2>2. i \in DOMAIN tests' /\ tests'[i] \in {tests[i], Completion(tests[i])}
    BY <1>6 DEF ReplaceDontCareValues
  <2>3. \E a \in allowed : Fits(tests[i], a)
    BY <1>6 DEF ReplaceDontCareValues, IInv, TestsExtendable, Extendable
  <2>4. Fits(tests[i], Completion(tests[i]))
    BY <2>3 DEF Completion
  <2>5. Completion(tests[i]) \in FullTests
    BY <1>1, <2>3 DEF Completion
  <2>6. DOMAIN Completion(tests[i]) = Params
    BY <2>5, FullTestFacts
  <2>7. Extends(Completion(tests[i]), tests[i])
    BY <2>4, <2>6 DEF Fits, Extends
  <2>8. QED
    BY <2>2, <2>7 DEF Extends
<1>7. CASE UNCHANGED tests
  BY <1>7 DEF Extends
<1>8. QED
  BY <1>2, <1>3, <1>4, <1>5, <1>6, <1>7, StepCases, Zenon
  DEF Abort, EnterConstruction, EraseInvalidSeed, CountCombinations,
      PrefixDone, CountPrefixParameter, LeaveLoop, BeginParameter,
      SelectSeededValue, SelectBestValue, SelectNoValue,
      CommitNoValue, FinishHorizontal, StartRelation, NextCombo,
      RejectTuple, EndCombo, EndRelation, FinishVertical, AdvanceRelations,
      Publish, vars

-------------------------------------------------------------------------------
(* The marks of the coverage maps *)

\* What is covered stays so.
LEMMA CoveredStep ==
    ASSUME IInv, SelectedInv, [Next]_vars, pc # "filter", NEW u \in Tuples,
           \E i \in DOMAIN tests : Covers(tests[i], u)
    PROVE  \E i \in DOMAIN tests' : Covers(tests'[i], u)
<1>1. PICK i \in DOMAIN tests : Covers(tests[i], u)
  OBVIOUS
<1>2. i \in DOMAIN tests' /\ Extends(tests'[i], tests[i])
  BY ValuesStep
<1>3. \A p \in DOMAIN u : p \in Params /\ u[p] # DontCare
  BY TupleFacts, DomFacts
<1>4. Covers(tests'[i], u)
  BY <1>1, <1>2, <1>3 DEF Covers, Extends
<1>5. QED
  BY <1>2, <1>4

\* The coverage maps of a parameter stay the same.
LEMMA MapsKept ==
    ASSUME [Next]_vars, pc \in HorizontalPcs \cup VerticalPcs \/ BeginParameter
    PROVE  /\ UNCHANGED loopVars
           /\ MapTuples' = MapTuples
           /\ Participants' = Participants
<1>1. UNCHANGED loopVars
  BY StepCases, Zenon
  DEF vars, Abort, EnterConstruction, EraseInvalidSeed, CountCombinations, CreatePrefixTest,
      PrefixDone, CountPrefixParameter, LeaveLoop, SingleValuedParameter, BeginParameter,
      SelectSeededValue, SelectBestValue, SelectNoValue, CommitValue, CommitNoValue,
      FinishHorizontal, StartRelation, NextCombo, RejectTuple, InjectIntoMatchingTest,
      InjectIntoDontCareTest, AddTest, EndCombo, EndRelation, FinishVertical,
      AdvanceRelations, ReplaceDontCareValues, Publish, loopVars,
      HorizontalPcs, VerticalPcs, RelationPcs
<1>2. QED
  BY <1>1 DEF MapTuples, MapCombos, Participants, CurrentStrength, FirstParams, loopVars

\* A test a tuple is injected into covers it.
LEMMA InjectCovers ==
    ASSUME NEW u \in Tuples, NEW t
    PROVE  Covers(Inject(t, u), u)
BY TupleFacts DEF Covers, Inject

\* The locals after a tuple has been checked.
LEMMA CheckedLocals ==
    ASSUME NEW v \in VerticalLocals, NEW n, NEW m, NEW M
    PROVE  LET w == [v EXCEPT !.checked = n, !.newly = m, !.modified = M]
               x == [v EXCEPT !.checked = n]
           IN /\ w.pending = v.pending /\ w.rel = v.rel /\ w.combos = v.combos
              /\ w.combo = v.combo /\ w.total = v.total /\ w.checked = n /\ w.newly = m
              /\ w.totalFull = v.totalFull /\ w.newlyFull = v.newlyFull
              /\ x.pending = v.pending /\ x.rel = v.rel /\ x.combos = v.combos
              /\ x.combo = v.combo /\ x.total = v.total /\ x.checked = n
              /\ x.newly = v.newly
              /\ x.totalFull = v.totalFull /\ x.newlyFull = v.newlyFull
BY DEF VerticalLocals

\* A tuple the vertical extension visits is excluded or gets covered.
LEMMA CheckedStep ==
    ASSUME IInv, RejectTuple \/ InjectIntoMatchingTest \/ InjectIntoDontCareTest \/ AddTest
    PROVE  \E u \in Tuples :
              /\ <<vx.rel, u>> \in uncovered /\ DOMAIN u = vx.combo
              /\ uncovered' = uncovered \ {<<vx.rel, u>>}
              /\ TupleAllowed(allowed, u) => \E i \in DOMAIN tests' : Covers(tests'[i], u)
              /\ vx'.pending = vx.pending /\ vx'.rel = vx.rel /\ vx'.combos = vx.combos
              /\ vx'.combo = vx.combo /\ vx'.total = vx.total
              /\ vx'.checked = vx.checked + 1
              /\ \/ ~TupleAllowed(allowed, u) /\ vx'.newly = vx.newly
                 \/ /\ \E i \in DOMAIN tests' : Covers(tests'[i], u)
                    /\ vx'.newly = vx.newly + 1
              /\ vx'.totalFull = vx.totalFull /\ vx'.newlyFull = vx.newlyFull
              /\ pc' = AfterTuple /\ missing' = missing
<1>1. /\ vx \in VerticalLocals /\ tests \in Seq(PartialTests) /\ pc = "tuple"
      /\ pc \in VerticalPcs
  BY DEF IInv, TypeOK, TestSeqs, RejectTuple, InjectIntoMatchingTest, InjectIntoDontCareTest,
         AddTest, VerticalPcs, RelationPcs
<1>2. CASE RejectTuple
  <2>1. PICK u \in Tuples :
            IsNextTuple(u) /\ IsRejected(u) /\ uncovered' = uncovered \ {<<vx.rel, u>>}
    BY <1>2 DEF RejectTuple
  <2>2. vx' = [vx EXCEPT !.checked = @ + 1] /\ pc' = AfterTuple /\ missing' = missing
    BY <1>2 DEF RejectTuple
  <2>3. <<vx.rel, u>> \in uncovered /\ DOMAIN u = vx.combo /\ ~TupleAllowed(allowed, u)
    BY <2>1 DEF IsNextTuple, IsRejected
  <2>4. /\ vx'.pending = vx.pending /\ vx'.rel = vx.rel /\ vx'.combos = vx.combos
        /\ vx'.combo = vx.combo /\ vx'.total = vx.total /\ vx'.checked = vx.checked + 1
        /\ vx'.newly = vx.newly
        /\ vx'.totalFull = vx.totalFull /\ vx'.newlyFull = vx.newlyFull
    BY <1>1, <2>2, CheckedLocals
  <2>5. QED
    BY <2>1, <2>2, <2>3, <2>4
<1>3. CASE InjectIntoMatchingTest \/ InjectIntoDontCareTest \/ AddTest
  <2>1. PICK u \in Tuples :
            /\ IsNextTuple(u)
            /\ \E M : TakeTuple(u, M)
            /\ \E i \in DOMAIN tests' : \E t : tests'[i] = Inject(t, u)
    <3>1. CASE InjectIntoMatchingTest
      <4>1. PICK u \in Tuples :
                \E k \in DOMAIN rows[u[cur]] :
                    /\ IsNextTuple(u)
                    /\ tests' = [tests EXCEPT ![rows[u[cur]][k]] = Inject(@, u)]
                    /\ TakeTuple(u, {rows[u[cur]][k]})
        BY <3>1 DEF InjectIntoMatchingTest
      <4>2. PICK k \in DOMAIN rows[u[cur]] :
                /\ IsNextTuple(u)
                /\ tests' = [tests EXCEPT ![rows[u[cur]][k]] = Inject(@, u)]
                /\ TakeTuple(u, {rows[u[cur]][k]})
        BY <4>1
      <4>3. rows[u[cur]][k] \in DOMAIN tests
        <5>1. u[cur] \in AllValues
          BY <1>1, <4>2, NextTupleFacts
        <5>2. QED
          BY <1>1, <4>2, <5>1 DEF IInv, IndicesInv
      <4>4. /\ rows[u[cur]][k] \in DOMAIN tests'
            /\ tests'[rows[u[cur]][k]] = Inject(tests[rows[u[cur]][k]], u)
        BY <1>1, <4>2, <4>3
      <4>5. QED
        BY <4>2, <4>4
    <3>2. CASE InjectIntoDontCareTest
      <4>1. PICK u \in Tuples :
                \E k \in DOMAIN dcRows :
                    /\ IsNextTuple(u)
                    /\ tests' = [tests EXCEPT ![dcRows[k]] = Inject(@, u)]
                    /\ TakeTuple(u, {dcRows[k]})
        BY <3>2 DEF InjectIntoDontCareTest
      <4>2. PICK k \in DOMAIN dcRows :
                /\ IsNextTuple(u)
                /\ tests' = [tests EXCEPT ![dcRows[k]] = Inject(@, u)]
                /\ TakeTuple(u, {dcRows[k]})
        BY <4>1
      <4>3. dcRows[k] \in DOMAIN tests
        BY <1>1, <4>2 DEF IInv, IndicesInv
      <4>4. dcRows[k] \in DOMAIN tests' /\ tests'[dcRows[k]] = Inject(tests[dcRows[k]], u)
        BY <1>1, <4>2, <4>3
      <4>5. QED
        BY <4>2, <4>4
    <3>3. CASE AddTest
      <4>1. PICK u \in Tuples :
                /\ IsNextTuple(u)
                /\ tests' = Append(tests, Inject(Unassigned, u))
                /\ TakeTuple(u, {})
        BY <3>3 DEF AddTest
      <4>2. Len(tests) + 1 \in DOMAIN tests' /\ tests'[Len(tests) + 1] = Inject(Unassigned, u)
        BY <1>1, <4>1
      <4>3. QED
        BY <4>1, <4>2
    <3>4. QED
      BY <1>3, <3>1, <3>2, <3>3
  <2>2. \E i \in DOMAIN tests' : Covers(tests'[i], u)
    BY <2>1, InjectCovers
  <2>3. PICK M : TakeTuple(u, M)
    BY <2>1
  <2>4. missing' = missing
    BY <1>3 DEF InjectIntoMatchingTest, InjectIntoDontCareTest, AddTest
  <2>5. /\ uncovered' = uncovered \ {<<vx.rel, u>>}
        /\ vx' = [vx EXCEPT !.checked = @ + 1, !.newly = @ + 1, !.modified = @ \cup M]
        /\ pc' = AfterTuple
    BY <2>3 DEF TakeTuple
  <2>6. /\ vx'.pending = vx.pending /\ vx'.rel = vx.rel /\ vx'.combos = vx.combos
        /\ vx'.combo = vx.combo /\ vx'.total = vx.total /\ vx'.checked = vx.checked + 1
        /\ vx'.newly = vx.newly + 1
        /\ vx'.totalFull = vx.totalFull /\ vx'.newlyFull = vx.newlyFull
    BY <1>1, <2>5, CheckedLocals
  <2>7. <<vx.rel, u>> \in uncovered /\ DOMAIN u = vx.combo
    BY <2>1 DEF IsNextTuple
  <2>8. QED
    BY <2>2, <2>4, <2>5, <2>6, <2>7
<1>4. QED
  BY <1>2, <1>3

\* A pair is marked covered when a test covers it, or when it is excluded.
LEMMA MarksStep ==
    IInv /\ SelectedInv /\ CoveredMarksSound /\ [Next]_vars => CoveredMarksSound'
<1> SUFFICES ASSUME IInv, SelectedInv, CoveredMarksSound, [Next]_vars,
                    pc' \in HorizontalPcs \cup VerticalPcs,
                    NEW ru \in MapTuples' \ uncovered', TupleAllowed(allowed', ru[2])
             PROVE  \E i \in DOMAIN tests' : Covers(tests'[i], ru[2])
  BY DEF CoveredMarksSound
<1>1. /\ pc \in Pcs /\ hx \in HorizontalLocals /\ tests \in Seq(PartialTests)
      /\ allowed' = allowed
  BY ClientStep DEF IInv, TypeOK, TestSeqs
<1>2. pc \in HorizontalPcs \cup VerticalPcs \/ BeginParameter
  BY <1>1, PcStep
<1>3. ru \in MapTuples /\ pc # "filter" /\ cur <= NumUsed
  BY <1>2, MapsKept DEF HorizontalPcs, VerticalPcs, RelationPcs, BeginParameter, BodyPcs,
                        IInv, CursorInv
<1>4. ru[2] \in Tuples /\ ru \in Rels \X Tuples
  BY <1>3, MapTuplesNow
<1>5. CASE BeginParameter
  <2>1. ru \in CoveredBy(MapTuples, 1 .. numSeeds) /\ tests' = tests
    BY <1>3, <1>5 DEF BeginParameter
  <2>2. numSeeds \in Nat /\ numSeeds <= Len(tests)
    BY <1>5 DEF IInv, IndicesInv, TypeOK, BeginParameter
  <2>3. 1 .. numSeeds \subseteq DOMAIN tests
    BY <1>1, <2>2
  <2>4. QED
    BY <2>1, <2>3 DEF CoveredBy
<1>6. CASE pc \in HorizontalPcs \cup VerticalPcs /\ ru \notin uncovered
  <2>1. \E i \in DOMAIN tests : Covers(tests[i], ru[2])
    BY <1>1, <1>3, <1>6 DEF CoveredMarksSound
  <2>2. QED
    BY <1>3, <1>4, <2>1, CoveredStep
<1>7. CASE CommitValue /\ ru \in uncovered
  <2>1. /\ tests' = [tests EXCEPT ![hx.ti] = Assign(tests[hx.ti], cur, hx.selected)]
        /\ Covers(Assign(tests[hx.ti], cur, hx.selected), ru[2])
        /\ hx.ti \in DOMAIN tests
    BY <1>7 DEF CommitValue, IInv, HorizontalInv
  <2>2. QED
    BY <1>1, <2>1
<1>8. CASE NextCombo /\ ru \in uncovered
  <2>1. PICK S \in vx.combos : uncovered' = uncovered \ CoveredBy(UncoveredOf(S), vx.modified)
    BY <1>8 DEF NextCombo
  <2>2. PICK i \in vx.modified : Covers(tests[i], ru[2])
    BY <1>8, <2>1 DEF CoveredBy
  <2>3. i \in DOMAIN tests /\ tests' = tests
    BY <1>8, <2>2 DEF IInv, IndicesInv, NextCombo, VerticalPcs, RelationPcs
  <2>4. QED
    BY <2>2, <2>3
<1>9. CASE /\ RejectTuple \/ InjectIntoMatchingTest \/ InjectIntoDontCareTest \/ AddTest
           /\ ru \in uncovered
  <2>1. PICK u \in Tuples :
            /\ uncovered' = uncovered \ {<<vx.rel, u>>}
            /\ TupleAllowed(allowed, u) => \E i \in DOMAIN tests' : Covers(tests'[i], u)
    BY <1>9, CheckedStep
  <2>2. ru = <<vx.rel, u>>
    BY <1>9, <2>1
  <2>3. ru[2] = u
    BY <2>2
  <2>4. QED
    BY <1>1, <2>1, <2>3
<1>10. QED
  <2>1. \/ BeginParameter \/ CommitValue \/ NextCombo \/ RejectTuple
        \/ InjectIntoMatchingTest \/ InjectIntoDontCareTest \/ AddTest
        \/ pc \in HorizontalPcs \cup VerticalPcs /\ uncovered' = uncovered
    BY <1>2, StepCases, Zenon
    DEF vars, mapVars, Abort, EnterConstruction, EraseInvalidSeed, CountCombinations,
        CreatePrefixTest, PrefixDone, CountPrefixParameter, LeaveLoop, SingleValuedParameter,
        SelectSeededValue, SelectBestValue, SelectNoValue, CommitNoValue, FinishHorizontal,
        StartRelation, EndCombo, EndRelation, FinishVertical, AdvanceRelations,
        ReplaceDontCareValues, Publish, HorizontalPcs, VerticalPcs, RelationPcs
  <2>2. QED
    BY <1>2, <1>5, <1>6, <1>7, <1>8, <1>9, <2>1

-------------------------------------------------------------------------------
(* The number of missing combinations *)

\* Counting what is left.
LEMMA RemovedCount ==
    ASSUME NEW A \in SUBSET (Rels \X Tuples), NEW B \in SUBSET A
    PROVE  /\ Cardinality(A \ B) = Cardinality(A) - Cardinality(B)
           /\ Cardinality(A) \in Nat /\ Cardinality(B) \in Nat /\ Cardinality(A \ B) \in Nat
<1>1. IsFiniteSet(A) /\ Cardinality(A) \in Nat
  BY TaggedFinite
<1>2. A \cap B = B /\ B \in SUBSET (Rels \X Tuples)
  OBVIOUS
<1>3. Cardinality(B) \in Nat
  BY <1>2, TaggedFinite
<1>4. A \ B \in SUBSET (Rels \X Tuples)
  OBVIOUS
<1>5. Cardinality(A \ B) \in Nat
  BY <1>4, TaggedFinite
<1>6. Cardinality(A \ B) = Cardinality(A) - Cardinality(A \cap B)
  BY <1>1, FS_Difference
<1>7. QED
  BY <1>1, <1>2, <1>3, <1>5, <1>6

LEMMA RemovedOne ==
    ASSUME NEW A \in SUBSET (Rels \X Tuples), NEW x \in A
    PROVE  Cardinality(A \ {x}) = Cardinality(A) - 1
<1>1. IsFiniteSet(A)
  BY TaggedFinite
<1>2. QED
  BY <1>1, FS_RemoveElement

\* The locals of the horizontal extension after a selection or a test.
LEMMA GainedLocals ==
    ASSUME NEW h \in HorizontalLocals, NEW a, NEW b, NEW c, NEW d, NEW e
    PROVE  /\ [h EXCEPT !.selected = a, !.lastPicked = b, !.options = c].gained = h.gained
           /\ [h EXCEPT !.selected = a, !.lastPicked = b].gained = h.gained
           /\ [h EXCEPT !.ti = d].gained = h.gained
           /\ [h EXCEPT !.ti = d, !.gained = a, !.gainedFull = e].gained = a
           /\ [h EXCEPT !.selected = a, !.lastPicked = b, !.options = c].gainedFull = h.gainedFull
           /\ [h EXCEPT !.selected = a, !.lastPicked = b].gainedFull = h.gainedFull
           /\ [h EXCEPT !.ti = d].gainedFull = h.gainedFull
           /\ [h EXCEPT !.ti = d, !.gained = a, !.gainedFull = e].gainedFull = e
BY DEF HorizontalLocals

\* What the horizontal extension has gained is no longer missing.
LEMMA HorizontalCount ==
    ASSUME IInv, MissingInv, [Next]_vars, pc' \in HorizontalPcs
    PROVE  missing' - hx'.gained = Cardinality(uncovered')
<1>1. /\ pc \in Pcs /\ hx \in HorizontalLocals /\ uncovered \in SUBSET (Rels \X Tuples)
      /\ missing \in Int
  BY DEF IInv, TypeOK
<1>2. CASE BeginParameter
  <2>1. MapTuples \in SUBSET (Rels \X Tuples)
    BY <1>2, MapTuplesNow DEF BeginParameter
  <2>2. CoveredBy(MapTuples, 1 .. numSeeds) \in SUBSET MapTuples
    BY DEF CoveredBy
  <2>3. /\ uncovered' = MapTuples \ CoveredBy(MapTuples, 1 .. numSeeds)
        /\ missing' = Cardinality(MapTuples) - Cardinality(CoveredBy(MapTuples, 1 .. numSeeds))
        /\ hx'.gained = 0
    BY <1>2 DEF BeginParameter, NoHorizontal
  <2> HIDE DEF MapTuples
  <2>4. QED
    BY <2>1, <2>2, <2>3, RemovedCount
<1>3. ASSUME pc \in HorizontalPcs
      PROVE  missing - hx.gained = Cardinality(uncovered)
  BY <1>3 DEF MissingInv
<1>4. CASE SelectSeededValue \/ SelectBestValue
  <2>1. PICK v : Pick(v)
    BY <1>4 DEF SelectSeededValue, SelectBestValue
  <2>2. \E o : hx' = [hx EXCEPT !.selected = v, !.lastPicked = v, !.options = o]
    BY <2>1, Zenon DEF Pick
  <2>3. hx'.gained = hx.gained
    BY <1>1, <2>2, GainedLocals
  <2>4. QED
    BY <1>3, <1>4, <2>3 DEF SelectSeededValue, SelectBestValue, mapVars, HorizontalPcs
<1>5. CASE SelectNoValue
  <2>1. hx'.gained = hx.gained
    BY <1>1, <1>5, GainedLocals DEF SelectNoValue
  <2>2. QED
    BY <1>3, <1>5, <2>1 DEF SelectNoValue, mapVars, HorizontalPcs
<1>6. CASE CommitValue
  <2> DEFINE newly == {ru \in uncovered :
                         Covers(Assign(tests[hx.ti], cur, hx.selected), ru[2])}
  <2>1. /\ uncovered' = uncovered \ newly
        /\ \E d, e : hx' = [hx EXCEPT !.ti = d, !.gained = hx.gained + Cardinality(newly),
                                      !.gainedFull = e]
        /\ missing' = missing
    BY <1>6, Zenon DEF CommitValue
  <2>2. newly \in SUBSET uncovered
    OBVIOUS
  <2> HIDE DEF newly
  <2>3. hx'.gained = hx.gained + Cardinality(newly)
    BY <1>1, <2>1, GainedLocals
  <2>4. missing - hx.gained = Cardinality(uncovered) /\ hx.gained \in Nat
    BY <1>1, <1>3, <1>6 DEF CommitValue, HorizontalPcs, HorizontalLocals
  <2>5. /\ Cardinality(uncovered \ newly) = Cardinality(uncovered) - Cardinality(newly)
        /\ Cardinality(newly) \in Nat /\ Cardinality(uncovered) \in Nat
    BY <1>1, <2>2, RemovedCount
  <2>6. missing' - (hx.gained + Cardinality(newly)) = Cardinality(uncovered \ newly)
    BY <1>1, <2>1, <2>4, <2>5
  <2>7. QED
    BY <2>1, <2>3, <2>6, Zenon
<1>7. CASE CommitNoValue
  <2>1. hx'.gained = hx.gained
    BY <1>1, <1>7, GainedLocals DEF CommitNoValue
  <2>2. QED
    BY <1>3, <1>7, <2>1 DEF CommitNoValue, mapVars, HorizontalPcs
<1>8. CASE UNCHANGED <<pc, missing, hx, uncovered>>
  BY <1>3, <1>8
<1>9. QED
  <2>1. \/ BeginParameter \/ SelectSeededValue \/ SelectBestValue \/ SelectNoValue
        \/ CommitValue \/ CommitNoValue \/ UNCHANGED <<pc, missing, hx, uncovered>>
    BY StepCases, Zenon
    DEF vars, mapVars, Abort, EnterConstruction, EraseInvalidSeed, CountCombinations,
        CreatePrefixTest, PrefixDone, CountPrefixParameter, LeaveLoop, SingleValuedParameter,
        FinishHorizontal, StartRelation, NextCombo, RejectTuple, InjectIntoMatchingTest,
        InjectIntoDontCareTest, AddTest, TakeTuple, AfterTuple, EndCombo, EndRelation,
        FinishVertical, AdvanceRelations, ReplaceDontCareValues, Publish, HorizontalPcs
  <2>2. QED
    BY <1>2, <1>4, <1>5, <1>6, <1>7, <1>8, <2>1

\* The locals of the vertical extension after a combination.
LEMMA ComboLocals ==
    ASSUME NEW v \in VerticalLocals, NEW C, NEW S, NEW n, NEW m, NEW k
    PROVE  LET w == [v EXCEPT !.combos = C, !.combo = S, !.checked = n, !.newly = m]
               x == [v EXCEPT !.total = n, !.totalFull = m, !.newlyFull = k]
           IN /\ w.pending = v.pending /\ w.rel = v.rel /\ w.total = v.total
              /\ w.combos = C /\ w.combo = S /\ w.checked = n /\ w.newly = m
              /\ w.totalFull = v.totalFull /\ w.newlyFull = v.newlyFull
              /\ x.pending = v.pending /\ x.total = n
              /\ x.totalFull = m /\ x.newlyFull = k
BY DEF VerticalLocals

\* The vertical extension turns to a combination.
LEMMA ComboStep ==
    ASSUME IInv, NextCombo
    PROVE  \E S \in vx.combos :
              LET newly == CoveredBy(UncoveredOf(S), vx.modified)
              IN /\ newly \in SUBSET uncovered
                 /\ uncovered' = uncovered \ newly
                 /\ vx'.pending = vx.pending /\ vx'.rel = vx.rel /\ vx'.total = vx.total
                 /\ vx'.combos = vx.combos \ {S} /\ vx'.combo = S
                 /\ vx'.checked = vx.checked + Cardinality(newly)
                 /\ vx'.newly = vx.newly + Cardinality(newly)
                 /\ vx'.totalFull = vx.totalFull /\ vx'.newlyFull = vx.newlyFull
                 /\ pc' = "tuple" /\ missing' = missing
<1>1. vx \in VerticalLocals
  BY DEF IInv, TypeOK
<1>2. PICK S \in vx.combos :
          LET newly == CoveredBy(UncoveredOf(S), vx.modified)
              n == Cardinality(newly)
          IN /\ uncovered' = uncovered \ newly
             /\ vx' = [vx EXCEPT !.combos = @ \ {S}, !.combo = S,
                                 !.checked = @ + n, !.newly = @ + n]
  BY Zenon DEF NextCombo
<1>3. pc' = "tuple" /\ missing' = missing
  BY DEF NextCombo
<1> DEFINE newly == CoveredBy(UncoveredOf(S), vx.modified)
           k == vx.checked + Cardinality(newly)
           m == vx.newly + Cardinality(newly)
           C == vx.combos \ {S}
<1>4. newly \in SUBSET uncovered
  BY DEF CoveredBy, UncoveredOf
<1>5. vx' = [vx EXCEPT !.combos = C, !.combo = S, !.checked = k, !.newly = m]
  BY <1>1, <1>2
<1> HIDE DEF k, m, C
<1>6. /\ vx'.pending = vx.pending /\ vx'.rel = vx.rel /\ vx'.total = vx.total
      /\ vx'.combos = C /\ vx'.combo = S /\ vx'.checked = k /\ vx'.newly = m
      /\ vx'.totalFull = vx.totalFull /\ vx'.newlyFull = vx.newlyFull
  BY <1>1, <1>5, ComboLocals
<1>7. QED
  BY <1>2, <1>3, <1>4, <1>6 DEF k, m, C

\* What the vertical extension has checked is no longer missing.
LEMMA VerticalCount ==
    ASSUME IInv, MissingInv, [Next]_vars, pc' \in VerticalPcs
    PROVE  Cardinality(uncovered') =
               missing' - vx'.total - (IF pc' \in RelationPcs THEN vx'.checked ELSE 0)
<1>1. /\ pc \in Pcs /\ vx \in VerticalLocals /\ uncovered \in SUBSET (Rels \X Tuples)
      /\ missing \in Int /\ hx \in HorizontalLocals /\ vx.checked \in Nat /\ vx.total \in Nat
  BY DEF IInv, TypeOK, VerticalLocals
<1>2. ASSUME pc \in RelationPcs
      PROVE  Cardinality(uncovered) = missing - vx.total - vx.checked
  BY <1>2 DEF MissingInv, VerticalPcs
<1>3. CASE FinishHorizontal
  <2>1. missing - hx.gained = Cardinality(uncovered)
    BY <1>3 DEF MissingInv, FinishHorizontal, HorizontalPcs
  <2>2. missing' = missing - hx.gained /\ uncovered' = uncovered
    BY <1>3 DEF FinishHorizontal
  <2>3. pc' = "relation" /\ vx'.total = 0
    BY <1>3 DEF FinishHorizontal, NoVertical, VerticalPcs, RelationPcs
  <2>4. Cardinality(uncovered) \in Nat
    BY <1>1, TaggedFinite
  <2>5. pc' \notin RelationPcs
    BY <2>3 DEF RelationPcs
  <2>6. missing' = Cardinality(uncovered)
    BY <2>1, <2>2, Zenon
  <2>7. QED
    BY <2>2, <2>3, <2>4, <2>5, <2>6
<1>4. CASE StartRelation
  <2>1. Cardinality(uncovered) = missing - vx.total
    BY <1>1, <1>4 DEF MissingInv, StartRelation, VerticalPcs, RelationPcs
  <2>2. vx'.checked = 0 /\ vx'.total = vx.total
    BY <1>1, <1>4 DEF StartRelation, VerticalLocals
  <2>3. QED
    BY <1>1, <1>4, <2>1, <2>2 DEF StartRelation, mapVars, RelationPcs
<1>5. CASE NextCombo
  <2>1. PICK S :
            LET newly == CoveredBy(UncoveredOf(S), vx.modified)
            IN /\ newly \in SUBSET uncovered
               /\ uncovered' = uncovered \ newly
               /\ vx'.total = vx.total
               /\ vx'.checked = vx.checked + Cardinality(newly)
               /\ pc' = "tuple" /\ missing' = missing
    BY <1>5, ComboStep
  <2> DEFINE newly == CoveredBy(UncoveredOf(S), vx.modified)
  <2>2. Cardinality(uncovered) = missing - vx.total - vx.checked
    BY <1>2, <1>5 DEF NextCombo, RelationPcs
  <2>3. /\ newly \in SUBSET uncovered /\ uncovered' = uncovered \ newly
        /\ vx'.total = vx.total /\ vx'.checked = vx.checked + Cardinality(newly)
        /\ pc' \in RelationPcs /\ missing' = missing
    BY <2>1 DEF RelationPcs
  <2> HIDE DEF newly
  <2>4. /\ Cardinality(uncovered \ newly) = Cardinality(uncovered) - Cardinality(newly)
        /\ Cardinality(newly) \in Nat /\ Cardinality(uncovered) \in Nat
    BY <1>1, <2>3, RemovedCount
  <2>5. Cardinality(uncovered \ newly) = missing' - vx.total - (vx.checked + Cardinality(newly))
    BY <1>1, <2>2, <2>3, <2>4
  <2>6. Cardinality(uncovered') = missing' - vx'.total - vx'.checked
    BY <2>3, <2>5, Zenon
  <2>7. QED
    BY <2>3, <2>6
<1>6. CASE RejectTuple \/ InjectIntoMatchingTest \/ InjectIntoDontCareTest \/ AddTest
  <2>1. PICK u \in Tuples :
            /\ <<vx.rel, u>> \in uncovered
            /\ uncovered' = uncovered \ {<<vx.rel, u>>}
            /\ vx'.total = vx.total
            /\ vx'.checked = vx.checked + 1
            /\ pc' = AfterTuple /\ missing' = missing
    BY <1>6, CheckedStep
  <2>2. pc \in RelationPcs /\ pc' \in RelationPcs
    BY <1>6, <2>1 DEF RejectTuple, InjectIntoMatchingTest, InjectIntoDontCareTest, AddTest,
                      AfterTuple, RelationPcs
  <2>3. Cardinality(uncovered') = Cardinality(uncovered) - 1
    BY <1>1, <2>1, RemovedOne
  <2>4. QED
    BY <1>1, <1>2, <2>1, <2>2, <2>3
<1>7. CASE EndCombo
  <2>1. pc \in RelationPcs /\ pc' \in RelationPcs
    BY <1>7 DEF EndCombo, RelationPcs
  <2>2. QED
    BY <1>2, <1>7, <2>1 DEF EndCombo, mapVars
<1>8. CASE EndRelation
  <2>1. \E m, k : vx' = [vx EXCEPT !.total = vx.total + vx.checked, !.totalFull = m,
                                   !.newlyFull = k]
    BY <1>8, Zenon DEF EndRelation
  <2>2. vx'.total = vx.total + vx.checked
    BY <1>1, <2>1, ComboLocals
  <2>3. pc \in RelationPcs /\ pc' \notin RelationPcs
    BY <1>8 DEF EndRelation, RelationPcs
  <2>4. uncovered' = uncovered /\ missing' = missing
    BY <1>8 DEF EndRelation, mapVars
  <2>5. QED
    BY <1>1, <1>2, <2>2, <2>3, <2>4
<1>9. CASE UNCHANGED <<pc, missing, vx, uncovered>>
  BY <1>9 DEF MissingInv
<1>10. QED
  <2>1. \/ FinishHorizontal \/ StartRelation \/ NextCombo \/ RejectTuple
        \/ InjectIntoMatchingTest \/ InjectIntoDontCareTest \/ AddTest
        \/ EndCombo \/ EndRelation \/ UNCHANGED <<pc, missing, vx, uncovered>>
    BY StepCases, Zenon
    DEF vars, mapVars, Abort, EnterConstruction, EraseInvalidSeed, CountCombinations,
        CreatePrefixTest, PrefixDone, CountPrefixParameter, LeaveLoop, SingleValuedParameter,
        BeginParameter, SelectSeededValue, SelectBestValue, SelectNoValue, Pick, CommitValue,
        CommitNoValue, AfterCommit, FinishVertical, AdvanceRelations, ReplaceDontCareValues,
        Publish, VerticalPcs, RelationPcs
  <2>2. QED
    BY <1>3, <1>4, <1>5, <1>6, <1>7, <1>8, <1>9, <2>1

\* When as many tuples have been checked as were missing, none is left.
LEMMA AllChecked ==
    ASSUME IInv, MissingInv, pc \in RelationPcs, ~(vx.checked < missing)
    PROVE  uncovered = {}
<1>1. /\ uncovered \in SUBSET (Rels \X Tuples) /\ missing \in Int
      /\ vx.checked \in Nat /\ vx.total \in Nat
  BY DEF IInv, TypeOK, VerticalLocals
<1>2. Cardinality(uncovered) = missing - vx.total - vx.checked
  BY DEF MissingInv, VerticalPcs
<1>3. IsFiniteSet(uncovered) /\ Cardinality(uncovered) \in Nat
  BY <1>1, TaggedFinite
<1>4. Cardinality(uncovered) = 0
  BY <1>1, <1>2, <1>3
<1>5. QED
  BY <1>3, <1>4, FS_EmptySet

\* Every pair not marked covered gets visited.
LEMMA VisitStep == IInv /\ MissingInv /\ VisitInv /\ [Next]_vars => VisitInv'
<1> SUFFICES ASSUME IInv, MissingInv, VisitInv, [Next]_vars, pc' \in VerticalPcs
             PROVE  VisitInv'
  BY DEF VisitInv
<1>1. /\ pc \in Pcs /\ vx \in VerticalLocals /\ uncovered \in SUBSET (Rels \X Tuples)
      /\ vx' \in VerticalLocals /\ missing' \in Int /\ uncovered' \in SUBSET (Rels \X Tuples)
  BY TypeStep DEF IInv, TypeOK
<1>2. ASSUME pc \in VerticalPcs
      PROVE  /\ pc = "verticalDone" => vx.pending = {}
             /\ \A ru \in uncovered :
                  \/ ru[1] \in vx.pending
                  \/ /\ ru[1] = vx.rel
                     /\ \/ pc = "combo" /\ DOMAIN ru[2] \in vx.combos
                        \/ pc = "tuple" /\ DOMAIN ru[2] \in vx.combos \cup {vx.combo}
  BY <1>2 DEF VisitInv
<1>3. pc \in HorizontalPcs \cup VerticalPcs => uncovered \subseteq MapTuples
  BY DEF IInv, MapsInv
<1>4. CASE FinishHorizontal
  <2>1. pc' = "relation" /\ vx'.pending = Participants /\ uncovered' = uncovered
    BY <1>4 DEF FinishHorizontal, NoVertical, VerticalPcs, RelationPcs
  <2>2. \A ru \in uncovered : ru[1] \in Participants
    BY <1>3, <1>4 DEF FinishHorizontal, HorizontalPcs, MapTuples
  <2>3. QED
    BY <2>1, <2>2 DEF VisitInv
<1>5. CASE StartRelation
  <2>1. PICK r \in vx.pending :
            vx' = [vx EXCEPT !.pending = @ \ {r}, !.rel = r, !.combos = MapCombos(r),
                             !.checked = 0, !.newly = 0]
    BY <1>5 DEF StartRelation
  <2>2. vx'.pending = vx.pending \ {r} /\ vx'.rel = r /\ vx'.combos = MapCombos(r)
    BY <1>1, <2>1 DEF VerticalLocals
  <2>3. pc = "relation" /\ pc' = "combo" /\ uncovered' = uncovered
    BY <1>5 DEF StartRelation, mapVars
  <2>4. \A ru \in uncovered : ru[1] \in vx.pending
    BY <1>2, <2>3 DEF VerticalPcs
  <2>5. \A ru \in uncovered : DOMAIN ru[2] \in MapCombos(ru[1])
    BY <1>3, <2>3 DEF VerticalPcs, MapTuples, TuplesOf
  <2>6. QED
    BY <2>2, <2>3, <2>4, <2>5 DEF VisitInv
<1>6. CASE NextCombo
  <2>1. PICK S :
            LET newly == CoveredBy(UncoveredOf(S), vx.modified)
            IN /\ uncovered' = uncovered \ newly
               /\ vx'.pending = vx.pending /\ vx'.rel = vx.rel
               /\ vx'.combos = vx.combos \ {S} /\ vx'.combo = S
               /\ pc' = "tuple"
    BY <1>6, ComboStep
  <2>2. \A ru \in uncovered :
            ru[1] \in vx.pending \/ (ru[1] = vx.rel /\ DOMAIN ru[2] \in vx.combos)
    BY <1>2, <1>6 DEF NextCombo, VerticalPcs, RelationPcs
  <2>3. QED
    BY <2>1, <2>2 DEF VisitInv
<1>7. CASE RejectTuple \/ InjectIntoMatchingTest \/ InjectIntoDontCareTest \/ AddTest
  <2>1. /\ uncovered' \subseteq uncovered
        /\ vx'.pending = vx.pending /\ vx'.rel = vx.rel /\ vx'.combos = vx.combos
        /\ vx'.combo = vx.combo /\ vx'.total = vx.total
        /\ vx'.checked = vx.checked + 1
        /\ pc' = AfterTuple /\ missing' = missing
    BY <1>7, CheckedStep
  <2>2. pc = "tuple"
    BY <1>7 DEF RejectTuple, InjectIntoMatchingTest, InjectIntoDontCareTest, AddTest
  <2>3. CASE pc' = "tuple"
    BY <1>2, <2>1, <2>2, <2>3 DEF VisitInv, VerticalPcs, RelationPcs
  <2>4. CASE pc' # "tuple"
    <3>1. pc' = "comboDone" /\ ~(vx.checked + 1 < missing)
      BY <2>1, <2>4 DEF AfterTuple
    <3>2. Cardinality(uncovered') = missing' - vx'.total - vx'.checked
      BY <3>1, VerticalCount DEF RelationPcs
    <3>3. IsFiniteSet(uncovered') /\ Cardinality(uncovered') \in Nat
      BY <1>1, TaggedFinite
    <3>4. vx'.total \in Nat /\ vx.checked \in Nat
      BY <1>1 DEF VerticalLocals
    <3>5. Cardinality(uncovered') = 0
      BY <1>1, <2>1, <3>1, <3>2, <3>3, <3>4
    <3>6. uncovered' = {}
      BY <3>3, <3>5, FS_EmptySet
    <3>7. QED
      BY <3>1, <3>6 DEF VisitInv
  <2>5. QED
    BY <2>3, <2>4
<1>8. CASE EndCombo
  <2>1. /\ vx' = vx /\ uncovered' = uncovered
        /\ pc' = IF vx.checked < missing /\ vx.combos # {} THEN "combo" ELSE "relationDone"
        /\ pc \in RelationPcs
    BY <1>8 DEF EndCombo, mapVars, RelationPcs
  <2>2. \A ru \in uncovered :
            ru[1] \in vx.pending \/ (ru[1] = vx.rel /\ DOMAIN ru[2] \in vx.combos)
    BY <1>2, <1>8, <2>1 DEF EndCombo, UncoveredOf, VerticalPcs
  <2>3. CASE pc' = "combo"
    BY <2>1, <2>2, <2>3 DEF VisitInv
  <2>4. CASE pc' = "relationDone" /\ vx.combos = {}
    BY <2>1, <2>2, <2>4 DEF VisitInv
  <2>5. CASE pc' = "relationDone" /\ ~(vx.checked < missing)
    <3>1. uncovered' = {}
      BY <2>1, <2>5, AllChecked
    <3>2. QED
      BY <2>5, <3>1 DEF VisitInv
  <2>6. QED
    BY <2>1, <2>3, <2>4, <2>5
<1>9. CASE EndRelation
  <2>1. \E n, m, k : vx' = [vx EXCEPT !.total = n, !.totalFull = m, !.newlyFull = k]
    BY <1>9, Zenon DEF EndRelation
  <2>2. vx'.pending = vx.pending
    BY <1>1, <2>1, ComboLocals
  <2>3. /\ pc = "relationDone" /\ uncovered' = uncovered
        /\ pc' = IF vx.pending = {} THEN "verticalDone" ELSE "relation"
    BY <1>9 DEF EndRelation, mapVars
  <2>4. \A ru \in uncovered : ru[1] \in vx.pending
    BY <1>2, <2>3 DEF VerticalPcs, RelationPcs
  <2>5. QED
    BY <2>2, <2>3, <2>4 DEF VisitInv
<1>10. CASE UNCHANGED <<pc, vx, uncovered>>
  BY <1>10 DEF VisitInv
<1>11. QED
  <2>1. \/ FinishHorizontal \/ StartRelation \/ NextCombo \/ RejectTuple
        \/ InjectIntoMatchingTest \/ InjectIntoDontCareTest \/ AddTest
        \/ EndCombo \/ EndRelation \/ UNCHANGED <<pc, vx, uncovered>>
    BY StepCases, Zenon
    DEF vars, mapVars, Abort, EnterConstruction, EraseInvalidSeed, CountCombinations,
        CreatePrefixTest, PrefixDone, CountPrefixParameter, LeaveLoop, SingleValuedParameter,
        BeginParameter, SelectSeededValue, SelectBestValue, SelectNoValue, Pick, CommitValue,
        CommitNoValue, AfterCommit, FinishVertical, AdvanceRelations, ReplaceDontCareValues,
        Publish, VerticalPcs, RelationPcs
  <2>2. QED
    BY <1>4, <1>5, <1>6, <1>7, <1>8, <1>9, <1>10, <2>1

\* The number of missing combinations is exact throughout.
LEMMA MissingStep == IInv /\ MissingInv /\ VisitInv /\ [Next]_vars => MissingInv'
<1> SUFFICES ASSUME IInv, MissingInv, VisitInv, [Next]_vars PROVE MissingInv'
  OBVIOUS
<1>1. /\ pc \in Pcs /\ vx \in VerticalLocals /\ uncovered \in SUBSET (Rels \X Tuples)
      /\ missing \in Int /\ hx \in HorizontalLocals
  BY DEF IInv, TypeOK
<1>2. ASSUME pc' \in LoopPcs
      PROVE  uncovered' = {} /\ missing' = 0
  <2>1. AdvanceRelations \/ (pc \in LoopPcs /\ UNCHANGED mapVars)
    BY <1>2, StepCases
    DEF vars, Abort, EnterConstruction, EraseInvalidSeed, CountCombinations, CreatePrefixTest,
        PrefixDone, CountPrefixParameter, LeaveLoop, SingleValuedParameter, BeginParameter,
        SelectSeededValue, SelectBestValue, SelectNoValue, Pick, CommitValue, CommitNoValue,
        AfterCommit, FinishHorizontal, StartRelation, NextCombo, RejectTuple,
        InjectIntoMatchingTest, InjectIntoDontCareTest, AddTest, TakeTuple, AfterTuple,
        EndCombo, EndRelation, FinishVertical, ReplaceDontCareValues, Publish,
        LoopPcs, BeforePcs, mapVars
  <2>2. QED
    BY <2>1 DEF AdvanceRelations, MissingInv, mapVars
<1>3. ASSUME pc' = "advance", ~aborted'
      PROVE  missing' = 0 /\ uncovered' = {}
  <2>1. CASE SingleValuedParameter
    BY <2>1 DEF SingleValuedParameter, MissingInv, LoopPcs, mapVars
  <2>2. CASE FinishHorizontal
    <3>1. missing' = 0 /\ missing' = missing - hx.gained /\ uncovered' = uncovered
      BY <1>3, <2>2 DEF FinishHorizontal, jobVars
    <3>2. missing - hx.gained = Cardinality(uncovered)
      BY <2>2 DEF FinishHorizontal, MissingInv, HorizontalPcs
    <3>3. IsFiniteSet(uncovered) /\ Cardinality(uncovered) = 0
      BY <1>1, <3>1, <3>2, TaggedFinite
    <3>4. QED
      BY <3>1, <3>3, FS_EmptySet
  <2>3. CASE FinishVertical
    <3>1. pc = "verticalDone" /\ missing' = missing - vx.total /\ uncovered' = uncovered
      BY <2>3 DEF FinishVertical
    <3>2. uncovered = {}
      BY <3>1 DEF VisitInv, VerticalPcs
    <3>3. Cardinality(uncovered) = missing - vx.total /\ vx.total \in Nat
      BY <1>1, <3>1 DEF MissingInv, VerticalPcs, RelationPcs, VerticalLocals
    <3>4. QED
      BY <3>1, <3>2, <3>3, FS_EmptySet
  <2>4. CASE pc = "advance" /\ UNCHANGED <<missing, uncovered, aborted>>
    BY <1>3, <2>4 DEF MissingInv
  <2>5. QED
    <3>1. \/ SingleValuedParameter \/ FinishHorizontal \/ FinishVertical
          \/ pc = "advance" /\ UNCHANGED <<missing, uncovered, aborted>>
      BY <1>3, StepCases, Zenon
      DEF vars, Abort, EnterConstruction, EraseInvalidSeed, CountCombinations, CreatePrefixTest,
          PrefixDone, CountPrefixParameter, LeaveLoop, BeginParameter,
          SelectSeededValue, SelectBestValue, SelectNoValue, Pick, CommitValue, CommitNoValue,
          AfterCommit, StartRelation, NextCombo, RejectTuple,
          InjectIntoMatchingTest, InjectIntoDontCareTest, AddTest, TakeTuple, AfterTuple,
          EndCombo, EndRelation, AdvanceRelations, ReplaceDontCareValues, Publish
    <3>2. QED
      BY <2>1, <2>2, <2>3, <2>4, <3>1
<1>4. QED
  BY <1>2, <1>3, HorizontalCount, VerticalCount DEF MissingInv

-------------------------------------------------------------------------------
(* The relations and the current parameter *)

\* Relations list their parameters in ascending order.
LEMMA Ascending ==
    ASSUME NEW r \in Rels, NEW i \in 1 .. RelLen(r), NEW j \in 1 .. RelLen(r)
    PROVE  /\ Relations[r].params[i] \in Nat /\ Relations[r].params[i] >= 1
           /\ i < j => Relations[r].params[i] < Relations[r].params[j]
<1>1. Relations[r].params[i] \in 1 .. NumUsed /\ NumUsed \in Nat
  BY UsedFacts
<1>2. Relations[r].params[i] \in Nat /\ Relations[r].params[i] >= 1
  BY <1>1
<1>3. i < j => Relations[r].params[i] < Relations[r].params[j]
  BY ModelAssumption, Zenon
<1>4. QED
  BY <1>2, <1>3

\* The relations whose next parameter is the current one move past it.
LEMMA RelationsAdvance ==
    ASSUME IInv, RelationsInv, idx' = Advanced, live' = LiveAfter, cur' = cur + 1
    PROVE  RelationsInv'
<1>1. /\ idx \in [Rels -> Nat] /\ live \subseteq Rels /\ cur \in Nat
      /\ \A r \in live : idx[r] < RelLen(r)
      /\ \A r \in Rels : RelLen(r) \in Nat
  BY UsedFacts DEF IInv, TypeOK, CursorInv
<1>2. ASSUME NEW r \in live, NEW i \in 1 .. RelLen(r)
      PROVE  Relations[r].params[i] < cur + 1 <=> i <= Advanced[r]
  <2> DEFINE next == idx[r] + 1
  <2>1. r \in Rels /\ idx[r] \in Nat /\ next \in 1 .. RelLen(r)
    BY <1>1
  <2>2. \A j \in 1 .. RelLen(r) : Relations[r].params[j] < cur <=> j <= idx[r]
    BY <2>1 DEF RelationsInv
  <2>3. ~(Relations[r].params[next] < cur)
    BY <2>1, <2>2
  <2>4. /\ Relations[r].params[i] \in Nat /\ Relations[r].params[next] \in Nat
        /\ i < next => Relations[r].params[i] < Relations[r].params[next]
        /\ next < i => Relations[r].params[next] < Relations[r].params[i]
    BY <2>1, Ascending
  <2>5. Advanced[r] = IF Relations[r].params[next] = cur THEN next ELSE idx[r]
    BY <2>1 DEF Advanced, Participants
  <2> HIDE DEF next
  <2>6. i < next <=> i <= idx[r]
    BY <2>1 DEF next
  <2>7. i = next => Relations[r].params[i] = Relations[r].params[next]
    OBVIOUS
  <2>8. CASE Relations[r].params[next] = cur
    BY <1>1, <2>1, <2>2, <2>4, <2>5, <2>7, <2>8
  <2>9. CASE Relations[r].params[next] # cur
    BY <1>1, <2>1, <2>2, <2>3, <2>4, <2>5, <2>6, <2>7, <2>9
  <2>10. QED
    BY <2>8, <2>9
<1>3. ASSUME NEW r \in Rels
      PROVE  IF r \in LiveAfter
             THEN \A i \in 1 .. RelLen(r) :
                     Relations[r].params[i] < cur + 1 <=> i <= Advanced[r]
             ELSE \A i \in 1 .. RelLen(r) : Relations[r].params[i] < cur + 1
  <2>1. CASE r \in LiveAfter
    BY <1>2, <2>1 DEF LiveAfter
  <2>2. CASE r \in live /\ r \notin LiveAfter
    <3>1. Advanced[r] \in Nat /\ ~(Advanced[r] < RelLen(r))
      BY <1>1, <2>2, AdvanceFacts DEF LiveAfter
    <3>2. \A i \in 1 .. RelLen(r) : i <= Advanced[r]
      BY <1>1, <3>1
    <3>3. QED
      BY <1>2, <2>2, <3>2
  <2>3. CASE r \notin live
    <3>1. r \notin LiveAfter /\ \A i \in 1 .. RelLen(r) : Relations[r].params[i] < cur
      BY <2>3 DEF LiveAfter, RelationsInv
    <3>2. \A i \in 1 .. RelLen(r) : Relations[r].params[i] \in Nat
      BY Ascending
    <3>3. QED
      BY <1>1, <3>1, <3>2
  <2>4. QED
    BY <2>1, <2>2, <2>3
<1>4. QED
  BY <1>3 DEF RelationsInv

LEMMA RelationsStep == IInv /\ RelationsInv /\ [Next]_vars => RelationsInv'
<1> SUFFICES ASSUME IInv, RelationsInv, [Next]_vars PROVE RelationsInv'
  OBVIOUS
<1>1. CASE UNCHANGED <<cur, idx, live>>
  BY <1>1 DEF RelationsInv
<1>2. CASE CountPrefixParameter \/ AdvanceRelations
  BY <1>2, RelationsAdvance DEF CountPrefixParameter, AdvanceRelations
<1>3. QED
  BY <1>1, <1>2, StepCases, Zenon
  DEF vars, loopVars, Abort, EnterConstruction, EraseInvalidSeed, CountCombinations,
      CreatePrefixTest, PrefixDone, LeaveLoop, SingleValuedParameter, BeginParameter,
      SelectSeededValue, SelectBestValue, SelectNoValue, CommitValue, CommitNoValue,
      FinishHorizontal, StartRelation, NextCombo, RejectTuple, InjectIntoMatchingTest,
      InjectIntoDontCareTest, AddTest, EndCombo, EndRelation, FinishVertical,
      ReplaceDontCareValues, Publish

\* No strength is 0.
LEMMA StrengthPositive ==
    ASSUME NEW r \in Rels
    PROVE  Relations[r].strength \in Nat \ {0}
<1> DEFINE R == [params : Seq(Params), strength : Nat \ {0}]
<1>1. Relations \in Seq(R) /\ r \in DOMAIN Relations
  BY ModelAssumption DEF Rels
<1> HIDE DEF R
<1>2. Relations[r] \in R
  BY <1>1
<1>3. QED
  BY <1>2 DEF R

\* The parameters of a relation up to some parameter are its first ones.
LEMMA FirstOnes ==
    ASSUME NEW r \in Rels, NEW n \in 0 .. RelLen(r), NEW k \in Nat,
           \A i \in 1 .. RelLen(r) : Relations[r].params[i] <= k <=> i <= n
    PROVE  /\ FirstParams(r, n) = RelParams(r) \cap (1 .. k)
           /\ IsFiniteSet(FirstParams(r, n))
           /\ Cardinality(FirstParams(r, n)) = n
<1>1. RelLen(r) \in Nat /\ n \in Nat /\ \A j \in 1 .. n : j \in 1 .. RelLen(r)
  BY UsedFacts
<1>2. FirstParams(r, n) = RelParams(r) \cap (1 .. k)
  <2>1. \A j \in 1 .. RelLen(r) :
            Relations[r].params[j] \in Nat /\ Relations[r].params[j] >= 1
    BY Ascending
  <2>2. \A j \in 1 .. RelLen(r) : j <= n <=> Relations[r].params[j] \in 1 .. k
    BY <2>1
  <2>3. \A j : j \in 1 .. n <=> j \in 1 .. RelLen(r) /\ j <= n
    BY <1>1
  <2>4. QED
    BY <2>2, <2>3 DEF FirstParams, RelParams
<1> DEFINE f == [j \in 1 .. n |-> Relations[r].params[j]]
<1>3. \A j, l \in 1 .. n : f[j] = f[l] => j = l
  <2>1. TAKE j, l \in 1 .. n
  <2>2. /\ j < l => Relations[r].params[j] < Relations[r].params[l]
        /\ l < j => Relations[r].params[l] < Relations[r].params[j]
        /\ Relations[r].params[j] \in Nat /\ Relations[r].params[l] \in Nat
    BY <1>1, Ascending
  <2>3. QED
    BY <2>2
<1>4. f \in Bijection(1 .. n, FirstParams(r, n))
  BY <1>3 DEF FirstParams, Bijection, Injection, Surjection, IsInjective
<1>5. ExistsBijection(1 .. n, FirstParams(r, n))
  BY <1>4 DEF ExistsBijection
<1>6. IsFiniteSet(1 .. n) /\ Cardinality(1 .. n) = n
  <2>1. 1 \in Int /\ n \in Int /\ n >= 0
    BY <1>1
  <2>2. IsFiniteSet(1 .. n) /\ Cardinality(1 .. n) = IF 1 > n THEN 0 ELSE n - 1 + 1
    BY <2>1, FS_Interval
  <2>3. QED
    BY <2>1, <2>2
<1>7. QED
  BY <1>2, <1>5, <1>6, FS_Bijection

\* A relation with the current parameter takes part, and its parameters before
\* it are those that the relation has behind it.
LEMMA CurrentRelation ==
    ASSUME IInv, RelationsInv, NEW r \in Rels, cur \in RelParams(r)
    PROVE  /\ r \in Participants
           /\ FirstParams(r, idx[r]) = RelParams(r) \cap (1 .. (cur - 1))
           /\ IsFiniteSet(FirstParams(r, idx[r]))
           /\ Cardinality(FirstParams(r, idx[r])) = idx[r]
<1>1. /\ idx \in [Rels -> Nat] /\ cur \in Nat /\ RelLen(r) \in Nat
      /\ \A q \in live : idx[q] < RelLen(q)
  BY UsedFacts DEF IInv, TypeOK, CursorInv
<1>2. PICK i \in 1 .. RelLen(r) : Relations[r].params[i] = cur
  BY DEF RelParams
<1>3. r \in live
  BY <1>1, <1>2 DEF RelationsInv
<1>4. \A j \in 1 .. RelLen(r) : Relations[r].params[j] < cur <=> j <= idx[r]
  BY <1>3 DEF RelationsInv
<1>5. i = idx[r] + 1
  <2>1. idx[r] \in Nat /\ i > idx[r]
    BY <1>1, <1>2, <1>4
  <2>2. CASE i > idx[r] + 1
    <3>1. idx[r] + 1 \in 1 .. RelLen(r)
      BY <1>1, <2>1, <2>2
    <3>2. Relations[r].params[idx[r] + 1] < Relations[r].params[i]
      BY <2>2, <3>1, Ascending
    <3>3. QED
      BY <1>2, <1>4, <2>1, <3>1, <3>2
  <2>3. QED
    BY <2>1, <2>2
<1>6. r \in Participants
  BY <1>2, <1>3, <1>5 DEF Participants
<1>7. ASSUME NEW j \in 1 .. RelLen(r)
      PROVE  Relations[r].params[j] <= cur - 1 <=> j <= idx[r]
  <2>1. Relations[r].params[j] \in Nat
    BY Ascending
  <2>2. Relations[r].params[j] <= cur - 1 <=> Relations[r].params[j] < cur
    BY <1>1, <2>1
  <2>3. QED
    BY <1>4, <2>2
<1>8. idx[r] \in 0 .. RelLen(r) /\ cur - 1 \in Nat
  BY <1>1, <1>3, UsedFacts DEF IInv, TypeOK
<1>9. QED
  BY <1>6, <1>7, <1>8, FirstOnes

-------------------------------------------------------------------------------
(* What is covered *)

\* A subset can be made larger, up to the size of the whole set.
LEMMA Padding ==
    ASSUME NEW B, IsFiniteSet(B), NEW A \in SUBSET B, NEW k \in Nat,
           Cardinality(A) <= k, k <= Cardinality(B)
    PROVE  \E C \in SUBSET B : A \subseteq C /\ Cardinality(C) = k
<1> DEFINE N == {n \in 0 .. k : \E C \in SUBSET B : A \subseteq C /\ Cardinality(C) = n}
<1>1. IsFiniteSet(A) /\ Cardinality(A) \in 0 .. k /\ Cardinality(B) \in Nat
  BY FS_Subset, FS_CardinalityType
<1>2. N \in SUBSET (0 .. k) /\ N # {}
  BY <1>1
<1>3. Max(N) \in N /\ \A n \in N : n <= Max(N)
  BY <1>2, BoundedMax
<1> DEFINE m == Max(N)
<1>4. PICK C \in SUBSET B : A \subseteq C /\ Cardinality(C) = m
  BY <1>3
<1>5. m \in 0 .. k
  BY <1>3
<1>6. ASSUME m # k
      PROVE  FALSE
  <2>1. C # B
    BY <1>1, <1>4, <1>5, <1>6
  <2>2. PICK x \in B : x \notin C
    BY <1>4, <2>1
  <2>3. IsFiniteSet(C)
    BY <1>4, FS_Subset
  <2>4. Cardinality(C \cup {x}) = m + 1
    BY <1>4, <2>2, <2>3, FS_AddElement
  <2>5. C \cup {x} \in SUBSET B /\ A \subseteq C \cup {x}
    BY <1>4, <2>2
  <2>6. m + 1 \in 0 .. k
    BY <1>5, <1>6
  <2>7. m + 1 \in N
    BY <2>4, <2>5, <2>6
  <2>8. QED
    BY <1>3, <1>5, <2>7
<1>7. QED
  BY <1>4, <1>6

\* A test's values of some parameters are a tuple of them.
LEMMA RestrictedTest ==
    ASSUME NEW a \in FullTests, NEW C \in SUBSET Params
    PROVE  LET v == [p \in C |-> a[p]]
           IN v \in TuplesOf(C) /\ DOMAIN v = C /\ Covers(a, v) /\ v \in Tuples
<1>1. \A p \in C : a[p] \in Dom(p) /\ a[p] \in AllValues
  BY FullTestFacts, DomFacts
<1>2. [p \in C |-> a[p]] \in TuplesOf(C)
  BY <1>1 DEF TuplesOf
<1>3. QED
  BY <1>2 DEF Covers, Tuples

\* Tuples of parameters of a relation.
LEMMA RelationTuples ==
    ASSUME NEW r \in Rels, NEW k, NEW S \in SUBSET (RelParams(r) \cap (1 .. k))
    PROVE  /\ S \subseteq Params /\ S \subseteq RelParams(r) /\ S \subseteq 1 .. k
           /\ IsFiniteSet(S) /\ Cardinality(S) \in Nat
           /\ \A u \in TuplesOf(S) : u \in Tuples /\ DOMAIN u = S
<1>1. RelParams(r) \subseteq Params
  BY UsedFacts DEF RelParams
<1>2. S \subseteq Params
  BY <1>1
<1>3. IsFiniteSet(Params)
  BY ParamsFacts, FS_Interval
<1>4. IsFiniteSet(S)
  BY <1>2, <1>3, FS_Subset
<1>5. \A u \in TuplesOf(S) : u \in Tuples /\ DOMAIN u = S
  BY <1>2 DEF Tuples, TuplesOf
<1>6. QED
  BY <1>2, <1>4, <1>5, FS_CardinalityType

\* When the tuples of the coverage maps are covered, everything is that a tuple
\* of the current parameter and earlier ones can be part of.
LEMMA MapsSuffice ==
    ASSUME IInv, RelationsInv, cur <= NumUsed, CoveredUpTo(allowed, tests, cur - 1),
           \A ru \in MapTuples :
               TupleAllowed(allowed, ru[2]) => \E i \in DOMAIN tests : Covers(tests[i], ru[2])
    PROVE  CoveredUpTo(allowed, tests, cur)
<1> SUFFICES ASSUME NEW r \in Rels, NEW S \in SUBSET (RelParams(r) \cap (1 .. cur)),
                    Cardinality(S) <= Relations[r].strength,
                    NEW u \in TuplesOf(S), TupleAllowed(allowed, u)
             PROVE  \E i \in DOMAIN tests : Covers(tests[i], u)
  BY DEF CoveredUpTo
<1>1. /\ idx \in [Rels -> Nat] /\ cur \in Nat /\ allowed \subseteq FullTests
      /\ Relations[r].strength \in Nat /\ cur \in Params
  BY UsedFacts, InputAssumption, MapTuplesNow DEF IInv, TypeOK
<1>2. CASE cur \notin S
  <2>1. S \in SUBSET (RelParams(r) \cap (1 .. (cur - 1)))
    BY <1>1, <1>2
  <2>2. QED
    BY <2>1 DEF CoveredUpTo
<1>3. CASE cur \in S
  <2> DEFINE first == FirstParams(r, idx[r])
             k == CurrentStrength(r) - 1
  <2>1. /\ r \in Participants
        /\ first = RelParams(r) \cap (1 .. (cur - 1))
        /\ IsFiniteSet(first)
        /\ Cardinality(first) = idx[r]
    BY <1>3, CurrentRelation
  <2>2. S \ {cur} \in SUBSET first
    BY <1>1, <2>1
  <2>3. /\ Cardinality(S \ {cur}) = Cardinality(S) - 1
        /\ Cardinality(S) \in Nat
        /\ IsFiniteSet(S \ {cur})
    BY <1>3, RelationTuples, FS_RemoveElement
  <2>4. Cardinality(S \ {cur}) <= idx[r] /\ Cardinality(S \ {cur}) \in Nat
    BY <2>1, <2>2, <2>3, FS_Subset, FS_CardinalityType
  <2>5. /\ k \in Nat /\ k <= idx[r] /\ Cardinality(S \ {cur}) <= k
    BY <1>1, <2>3, <2>4 DEF CurrentStrength
  <2> HIDE DEF first, k
  <2>6. PICK T \in SUBSET first : S \ {cur} \subseteq T /\ Cardinality(T) = k
    BY <2>1, <2>2, <2>5, Padding
  <2>7. T \cup {cur} \in MapCombos(r)
    BY <2>6 DEF MapCombos, kSubset, first, k
  <2>8. T \cup {cur} \in SUBSET Params /\ S \subseteq T \cup {cur}
    <3>1. RelParams(r) \subseteq Params
      BY UsedFacts DEF RelParams
    <3>2. QED
      BY <1>1, <2>1, <2>6, <3>1
  <2>9. PICK a \in allowed : Covers(a, u)
    BY DEF TupleAllowed
  <2> DEFINE v == [p \in T \cup {cur} |-> a[p]]
  <2>10. v \in TuplesOf(T \cup {cur}) /\ DOMAIN v = T \cup {cur} /\ Covers(a, v)
    BY <1>1, <2>8, RestrictedTest
  <2>11. <<r, v>> \in MapTuples
    <3> HIDE DEF v
    <3>1. v \in UNION {TuplesOf(C) : C \in MapCombos(r)}
      BY <2>7, <2>10
    <3>2. QED
      BY <2>1, <3>1 DEF MapTuples
  <2>12. PICK i \in DOMAIN tests : Covers(tests[i], v)
    BY <2>9, <2>10, <2>11 DEF TupleAllowed
  <2>13. DOMAIN u = S
    BY RelationTuples
  <2>14. \A p \in S : tests[i][p] = u[p]
    BY <2>8, <2>9, <2>10, <2>12, <2>13 DEF Covers
  <2>15. QED
    BY <2>13, <2>14 DEF Covers
<1>4. QED
  BY <1>2, <1>3

\* What is covered stays covered.
LEMMA CoveredKept ==
    ASSUME IInv, SelectedInv, [Next]_vars, pc # "filter", NEW k,
           CoveredUpTo(allowed, tests, k)
    PROVE  CoveredUpTo(allowed', tests', k)
<1>1. allowed' = allowed
  BY ClientStep
<1> SUFFICES ASSUME NEW r \in Rels, NEW S \in SUBSET (RelParams(r) \cap (1 .. k)),
                    Cardinality(S) <= Relations[r].strength,
                    NEW u \in TuplesOf(S), TupleAllowed(allowed, u)
             PROVE  \E i \in DOMAIN tests' : Covers(tests'[i], u)
  BY <1>1 DEF CoveredUpTo
<1>2. \E i \in DOMAIN tests : Covers(tests[i], u)
  BY DEF CoveredUpTo
<1>3. u \in Tuples
  BY RelationTuples
<1>4. QED
  BY <1>2, <1>3, CoveredStep

\* When all valid combinations of the first parameters have a test, all tuples
\* of these parameters have one.
LEMMA PrefixSuffices ==
    ASSUME IInv, PrefixCombosLeft = {}
    PROVE  CoveredUpTo(allowed, tests, FirstParamIdx)
<1> SUFFICES ASSUME NEW r \in Rels,
                    NEW S \in SUBSET (RelParams(r) \cap (1 .. FirstParamIdx)),
                    NEW u \in TuplesOf(S), TupleAllowed(allowed, u)
             PROVE  \E i \in DOMAIN tests : Covers(tests[i], u)
  BY DEF CoveredUpTo
<1>1. allowed \in SUBSET FullTests
  BY InputAssumption DEF IInv, TypeOK
<1>2. 1 .. FirstParamIdx \in SUBSET Params
  BY FirstParamIdxType, UsedFacts
<1>3. PICK a \in allowed : Covers(a, u)
  BY DEF TupleAllowed
<1> DEFINE v == [p \in 1 .. FirstParamIdx |-> a[p]]
<1>4. /\ v \in TuplesOf(1 .. FirstParamIdx) /\ DOMAIN v = 1 .. FirstParamIdx
      /\ Covers(a, v) /\ v \in Tuples
  BY <1>1, <1>2, RestrictedTest
<1> HIDE DEF v
<1>5. Extendable(allowed, Inject(Unassigned, v))
  BY <1>1, <1>3, <1>4, TupleTestExtendable DEF TupleAllowed
<1>6. PICK i \in DOMAIN tests : Covers(tests[i], v)
  BY <1>4, <1>5 DEF PrefixCombosLeft
<1>7. DOMAIN u = S /\ S \subseteq 1 .. FirstParamIdx
  BY RelationTuples
<1>8. \A p \in S : tests[i][p] = u[p]
  BY <1>3, <1>4, <1>6, <1>7 DEF Covers
<1>9. QED
  BY <1>7, <1>8 DEF Covers

\* Any test covers the tuples without a parameter.
LEMMA AnyTestSuffices ==
    ASSUME IInv, tests # <<>>
    PROVE  CoveredUpTo(allowed, tests, 0)
<1>1. 1 \in DOMAIN tests
  BY DEF IInv, TypeOK, TestSeqs
<1>2. ASSUME NEW r \in Rels, NEW S \in SUBSET (RelParams(r) \cap (1 .. 0)),
             NEW u \in TuplesOf(S)
      PROVE  Covers(tests[1], u)
  <2>1. DOMAIN u = {}
    <3>1. DOMAIN u = S
      BY <1>2, RelationTuples
    <3>2. S = {}
      OBVIOUS
    <3>3. QED
      BY <3>1, <3>2
  <2>2. QED
    BY <2>1 DEF Covers
<1>3. QED
  BY <1>1, <1>2 DEF CoveredUpTo

\* A parameter with one value needs no more than to be set to it.
LEMMA SingleValueSuffices ==
    ASSUME IInv, SingleValuedParameter, CoveredUpTo(allowed, tests, cur - 1)
    PROVE  CoveredUpTo(allowed, tests', cur)
<1> SUFFICES ASSUME NEW r \in Rels, NEW S \in SUBSET (RelParams(r) \cap (1 .. cur)),
                    Cardinality(S) <= Relations[r].strength,
                    NEW u \in TuplesOf(S), TupleAllowed(allowed, u)
             PROVE  \E i \in DOMAIN tests' : Covers(tests'[i], u)
  BY DEF CoveredUpTo
<1>1. /\ cur \in Params /\ cur \in Nat /\ NumValues[cur] <= 1 /\ allowed \subseteq FullTests
      /\ tests \in Seq(PartialTests) /\ Relations[r].strength \in Nat
  BY InputAssumption, MapTuplesNow, UsedFacts
     DEF SingleValuedParameter, IInv, TypeOK, TestSeqs
<1>2. Dom(cur) = {0}
  BY <1>1, ParamsFacts DEF Dom
<1> DEFINE R == S \ {cur}
<1>3. S \subseteq Params /\ IsFiniteSet(S) /\ Cardinality(S) \in Nat /\ DOMAIN u = S
      /\ u \in Tuples
  BY RelationTuples
<1>4. R \in SUBSET (RelParams(r) \cap (1 .. (cur - 1)))
  BY <1>1
<1>5. Cardinality(R) <= Relations[r].strength
  <2>1. R \in SUBSET S
    OBVIOUS
  <2>2. Cardinality(R) <= Cardinality(S) /\ Cardinality(R) \in Nat
    BY <1>3, <2>1, FS_Subset, FS_CardinalityType
  <2>3. QED
    BY <1>1, <1>3, <2>2
<1>6. PICK a \in allowed : Covers(a, u)
  BY DEF TupleAllowed
<1> DEFINE v == [p \in R |-> a[p]]
<1>7. v \in TuplesOf(R) /\ DOMAIN v = R /\ Covers(a, v)
  BY <1>1, <1>3, RestrictedTest
<1> HIDE DEF v
<1>8. PICK i \in DOMAIN tests : Covers(tests[i], v)
  BY <1>4, <1>5, <1>6, <1>7 DEF CoveredUpTo, TupleAllowed
<1>9. i \in DOMAIN tests' /\ tests'[i] = Assign(tests[i], cur, 0)
  BY <1>8 DEF SingleValuedParameter
<1>10. tests[i] \in [Params -> AllValues \cup {DontCare}]
  BY <1>1, TestFacts
<1>11. \A p \in S : p # cur => tests'[i][p] = u[p]
  BY <1>3, <1>6, <1>7, <1>8, <1>9, <1>10 DEF Covers, Assign
<1>12. cur \in S => tests'[i][cur] = u[cur]
  BY <1>1, <1>2, <1>3, <1>9, <1>10, TupleFacts DEF Assign
<1>13. Covers(tests'[i], u)
  BY <1>3, <1>11, <1>12 DEF Covers
<1>14. QED
  BY <1>9, <1>13

\* A job that has not been aborted has covered what it has been through.
LEMMA CoverageStep ==
    CInv /\ [Next]_vars => CoverageInv'
<1> SUFFICES ASSUME CInv, [Next]_vars, ~aborted' PROVE CoverageInv'
  BY DEF CoverageInv
<1>1. /\ IInv /\ SelectedInv /\ RelationsInv /\ MissingInv /\ VisitInv /\ CoverageInv
      /\ CoveredMarksSound
  BY DEF CInv
<1>2. /\ pc \in Pcs /\ cur \in Nat /\ allowed' = allowed /\ cur \in 1 .. (NumUsed + 1)
      /\ tests \in Seq(PartialTests)
  BY <1>1, ClientStep, UsedFacts DEF IInv, TypeOK, TestSeqs
<1>3. ~aborted
  <2>1. aborted' = TRUE \/ UNCHANGED aborted
    BY StepCases, Zenon
    DEF vars, jobVars, Abort, EnterConstruction, EraseInvalidSeed, CountCombinations,
        CreatePrefixTest, PrefixDone, CountPrefixParameter, LeaveLoop, SingleValuedParameter,
        BeginParameter, SelectSeededValue, SelectBestValue, SelectNoValue, CommitValue,
        CommitNoValue, FinishHorizontal, StartRelation, NextCombo, RejectTuple,
        InjectIntoMatchingTest, InjectIntoDontCareTest, AddTest, EndCombo, EndRelation,
        FinishVertical, AdvanceRelations, ReplaceDontCareValues, Publish
  <2>2. QED
    BY <2>1
<1>4. FirstParamIdx \in 0 .. NumUsed
  BY FirstParamIdxType
<1>5. /\ pc = "countPrefix" => CoveredUpTo(allowed, tests, FirstParamIdx)
      /\ pc = "advance" => CoveredUpTo(allowed, tests, cur)
      /\ pc \notin BeforePcs \cup {"countPrefix"} => CoveredUpTo(allowed, tests, cur - 1)
      /\ pc \in {"replace", "publish", "done"} => cur = NumUsed + 1
  BY <1>1, <1>3 DEF CoverageInv
<1>6. ASSUME NEW k, CoveredUpTo(allowed, tests, k), pc # "filter"
      PROVE  CoveredUpTo(allowed', tests', k)
  BY <1>1, <1>6, CoveredKept
<1>7. ASSUME pc' = "countPrefix"
      PROVE  CoveredUpTo(allowed', tests', FirstParamIdx)
  <2>1. CASE PrefixDone
    BY <1>1, <2>1, PrefixSuffices, <1>2 DEF PrefixDone
  <2>2. CASE pc = "countPrefix"
    BY <1>5, <1>6, <2>2
  <2>3. QED
    BY <1>7, <2>1, <2>2, StepCases, Zenon
    DEF vars, Abort, EnterConstruction, EraseInvalidSeed, CountCombinations, CreatePrefixTest,
        CountPrefixParameter, LeaveLoop, SingleValuedParameter, BeginParameter,
        SelectSeededValue, SelectBestValue, SelectNoValue, Pick, CommitValue, CommitNoValue,
        AfterCommit, FinishHorizontal, StartRelation, NextCombo, RejectTuple,
        InjectIntoMatchingTest, InjectIntoDontCareTest, AddTest, TakeTuple, AfterTuple,
        EndCombo, EndRelation, FinishVertical, AdvanceRelations, ReplaceDontCareValues, Publish
<1>8. ASSUME pc' = "advance"
      PROVE  CoveredUpTo(allowed', tests', cur')
  <2>1. CASE SingleValuedParameter
    <3>1. CoveredUpTo(allowed, tests, cur - 1)
      BY <1>5, <2>1 DEF SingleValuedParameter, BeforePcs
    <3>2. cur' = cur
      BY <2>1 DEF SingleValuedParameter, loopVars
    <3>3. QED
      BY <1>1, <1>2, <2>1, <3>1, <3>2, SingleValueSuffices
  <2>2. CASE FinishHorizontal \/ FinishVertical
    <3>1. uncovered' = {} /\ uncovered' = uncovered /\ tests' = tests
      BY <1>1, <1>8, <2>2, MissingStep DEF MissingInv, FinishHorizontal, FinishVertical
    <3>2. pc \in HorizontalPcs \cup VerticalPcs /\ pc \in BodyPcs
          /\ pc \notin BeforePcs \cup {"countPrefix"}
      BY <2>2 DEF FinishHorizontal, FinishVertical, HorizontalPcs, VerticalPcs, BodyPcs, BeforePcs
    <3>3. \A ru \in MapTuples :
             TupleAllowed(allowed, ru[2]) => \E i \in DOMAIN tests : Covers(tests[i], ru[2])
      BY <1>1, <3>1, <3>2 DEF CoveredMarksSound
    <3>4. cur <= NumUsed
      BY <1>1, <3>2 DEF IInv, CursorInv
    <3>5. CoveredUpTo(allowed, tests, cur)
      BY <1>1, <1>5, <3>2, <3>3, <3>4, MapsSuffice
    <3>6. cur' = cur
      BY <2>2 DEF FinishHorizontal, FinishVertical, loopVars
    <3>7. QED
      BY <1>2, <3>1, <3>5, <3>6
  <2>3. CASE pc = "advance" /\ cur' = cur
    BY <1>5, <1>6, <2>3
  <2>4. QED
    BY <1>8, <2>1, <2>2, <2>3, StepCases, Zenon
    DEF vars, loopVars, Abort, EnterConstruction, EraseInvalidSeed, CountCombinations,
        CreatePrefixTest, PrefixDone, CountPrefixParameter, LeaveLoop, BeginParameter,
        SelectSeededValue, SelectBestValue, SelectNoValue, Pick, CommitValue, CommitNoValue,
        AfterCommit, StartRelation, NextCombo, RejectTuple,
        InjectIntoMatchingTest, InjectIntoDontCareTest, AddTest, TakeTuple, AfterTuple,
        EndCombo, EndRelation, AdvanceRelations, ReplaceDontCareValues, Publish
<1>9. ASSUME pc' \notin BeforePcs \cup {"countPrefix"}
      PROVE  CoveredUpTo(allowed', tests', cur' - 1)
  <2>1. CASE CountCombinations
    <3>1. tests # <<>> /\ tests' = tests /\ cur' = cur /\ pc = "filter"
      BY <1>3, <1>9, <2>1 DEF CountCombinations, BeforePcs
    <3>2. cur = 1
      BY <1>1, <3>1 DEF IInv, CursorInv
    <3>3. cur' - 1 = 0
      BY <3>1, <3>2
    <3>4. QED
      BY <1>1, <1>2, <3>1, <3>3, AnyTestSuffices
  <2>2. CASE PrefixDone
    <3>1. tests' = tests /\ cur' = cur /\ cur = 1 /\ FirstParamIdx = 0
      BY <1>1, <1>9, <2>2 DEF PrefixDone, BeforePcs, loopVars, IInv, CursorInv
    <3>2. cur' - 1 = FirstParamIdx
      BY <3>1
    <3>3. QED
      BY <1>1, <1>2, <2>2, <3>1, <3>2, PrefixSuffices DEF PrefixDone
  <2>3. CASE CountPrefixParameter
    <3>1. cur = FirstParamIdx /\ cur' = cur + 1 /\ pc = "countPrefix"
      BY <1>9, <2>3 DEF CountPrefixParameter
    <3>2. cur' - 1 = FirstParamIdx
      BY <1>2, <3>1
    <3>3. QED
      BY <1>5, <1>6, <3>1, <3>2
  <2>4. CASE AdvanceRelations
    <3>1. pc = "advance" /\ cur' = cur + 1
      BY <2>4 DEF AdvanceRelations
    <3>2. cur' - 1 = cur
      BY <1>2, <3>1
    <3>3. QED
      BY <1>5, <1>6, <3>1, <3>2
  <2>5. CASE pc \notin BeforePcs \cup {"countPrefix"} /\ cur' = cur
    BY <1>5, <1>6, <2>5 DEF BeforePcs
  <2>6. QED
    <3>1. \/ CountCombinations \/ PrefixDone \/ CountPrefixParameter \/ AdvanceRelations
          \/ cur' = cur /\ (pc \notin BeforePcs \cup {"countPrefix"} \/ pc' = pc \/ pc' = "filter")
      BY StepCases
      DEF vars, loopVars, Abort, EnterConstruction, EraseInvalidSeed, CreatePrefixTest,
          LeaveLoop, SingleValuedParameter, BeginParameter,
          SelectSeededValue, SelectBestValue, SelectNoValue, CommitValue, CommitNoValue,
          FinishHorizontal, StartRelation, NextCombo, RejectTuple,
          InjectIntoMatchingTest, InjectIntoDontCareTest, AddTest,
          EndCombo, EndRelation, FinishVertical, ReplaceDontCareValues, Publish, BeforePcs
    <3>2. QED
      BY <1>9, <2>1, <2>2, <2>3, <2>4, <2>5, <3>1 DEF BeforePcs
<1>10. ASSUME pc' \in {"replace", "publish", "done"}
      PROVE  cur' = NumUsed + 1
  <2>1. CASE LeaveLoop
    <3>1. cur > NumUsed /\ cur' = cur
      BY <1>3, <2>1 DEF LeaveLoop, LoopEnds, loopVars
    <3>2. QED
      BY <1>2, <3>1, UsedFacts
  <2>2. CASE pc \in {"replace", "publish", "done"} /\ cur' = cur
    BY <1>5, <2>2
  <2>3. QED
    BY <1>3, <1>10, <2>1, <2>2, StepCases, Zenon
    DEF vars, loopVars, Abort, EnterConstruction, EraseInvalidSeed, CountCombinations,
        CreatePrefixTest, PrefixDone, CountPrefixParameter, SingleValuedParameter, BeginParameter,
        SelectSeededValue, SelectBestValue, SelectNoValue, Pick, CommitValue, CommitNoValue,
        AfterCommit, FinishHorizontal, StartRelation, NextCombo, RejectTuple,
        InjectIntoMatchingTest, InjectIntoDontCareTest, AddTest, TakeTuple, AfterTuple,
        EndCombo, EndRelation, FinishVertical, AdvanceRelations, ReplaceDontCareValues, Publish
<1>11. QED
  BY <1>4, <1>7, <1>8, <1>9, <1>10 DEF CoverageInv

-------------------------------------------------------------------------------
(* What the client is told *)

\* The other counters change without the number of parameters.
LEMMA ParamsField ==
    ASSUME NEW h \in Counters, NEW a, NEW b, NEW c
    PROVE  /\ [h EXCEPT !.phase = a].params = h.params
           /\ [h EXCEPT !.toProcess = a, !.paramsToProcess = b].params = h.params
           /\ [h EXCEPT !.processed = a, !.covered = b].params = h.params
           /\ [h EXCEPT !.processed = a, !.covered = b, !.size = c].params = h.params
           /\ [h EXCEPT !.size = a, !.params = b].params = b
           /\ [h EXCEPT !.params = b].params = b
BY DEF Counters

\* The number of parameters is written after the prefix and after a parameter.
LEMMA ParamsWritten ==
    ASSUME IInv, [Next]_vars
    PROVE  /\ PrefixDone => handle'.params = FirstParamIdx
           /\ AdvanceRelations => handle'.params = cur
           /\ PrefixDone \/ AdvanceRelations \/ handle'.params = handle.params
<1>1. handle \in Counters
  BY DEF IInv, TypeOK
<1>2. PrefixDone => handle'.params = FirstParamIdx
  BY <1>1, ParamsField DEF PrefixDone
<1>3. AdvanceRelations => handle'.params = cur
  BY <1>1, ParamsField DEF AdvanceRelations
<1>4. ASSUME EnterConstruction PROVE handle'.params = handle.params
  BY <1>1, <1>4, ParamsField DEF EnterConstruction
<1>5. ASSUME CountCombinations PROVE handle'.params = handle.params
  <2> DEFINE n == IF aborted /\ tests # <<>> THEN handle.paramsToProcess ELSE NumUsed
             m == Cardinality(TargetTuples)
  <2>1. handle' = [handle EXCEPT !.toProcess = m, !.paramsToProcess = n]
    BY <1>5 DEF CountCombinations
  <2> HIDE DEF n, m
  <2>2. QED
    BY <1>1, <2>1, ParamsField
<1>6. ASSUME CountPrefixParameter PROVE handle'.params = handle.params
  BY <1>1, <1>6, ParamsField DEF CountPrefixParameter
<1>7. ASSUME SingleValuedParameter PROVE handle'.params = handle.params
  BY <1>1, <1>7, ParamsField DEF SingleValuedParameter
<1>8. ASSUME BeginParameter PROVE handle'.params = handle.params
  BY <1>1, <1>8, ParamsField DEF BeginParameter
<1>9. ASSUME FinishHorizontal PROVE handle'.params = handle.params
  BY <1>1, <1>9, ParamsField DEF FinishHorizontal
<1>10. ASSUME FinishVertical PROVE handle'.params = handle.params
  BY <1>1, <1>10, ParamsField DEF FinishVertical
<1>11. ASSUME UNCHANGED handle PROVE handle'.params = handle.params
  BY <1>11
<1>12. QED
  BY <1>2, <1>3, <1>4, <1>5, <1>6, <1>7, <1>8, <1>9, <1>10, <1>11, StepCases, Zenon
  DEF vars, Abort, EraseInvalidSeed, CreatePrefixTest, LeaveLoop,
      SelectSeededValue, SelectBestValue, SelectNoValue, CommitValue, CommitNoValue,
      StartRelation, NextCombo, RejectTuple, InjectIntoMatchingTest, InjectIntoDontCareTest,
      AddTest, EndCombo, EndRelation, ReplaceDontCareValues, Publish

\* The number of parameters the client sees is of those the job has been through.
LEMMA ReportStep == IInv /\ ReportInv /\ [Next]_vars => ReportInv'
<1> SUFFICES ASSUME IInv, ReportInv, [Next]_vars PROVE ReportInv'
  OBVIOUS
<1>1. /\ pc \in Pcs /\ cur \in Nat /\ cur >= 1 /\ handle.params \in Nat
      /\ FirstParamIdx \in Nat
  BY UsedFacts, FirstParamIdxType DEF IInv, TypeOK, Counters
<1>2. /\ pc \in BeforePcs => handle.params = 0
      /\ pc = "countPrefix" => handle.params <= FirstParamIdx
      /\ pc \notin BeforePcs \cup {"countPrefix"} => handle.params <= cur - 1
  BY DEF ReportInv
<1>3. CASE PrefixDone
  <2>1. /\ handle'.params = FirstParamIdx /\ cur' = cur
        /\ pc' = IF FirstParamIdx = 0 THEN "param" ELSE "countPrefix"
    BY <1>3, ParamsWritten DEF PrefixDone, loopVars
  <2>2. QED
    BY <1>1, <2>1 DEF ReportInv, BeforePcs
<1>4. CASE AdvanceRelations
  <2>1. handle'.params = cur /\ cur' = cur + 1 /\ pc' = "param"
    BY <1>4, ParamsWritten DEF AdvanceRelations
  <2>2. QED
    BY <1>1, <2>1 DEF ReportInv, BeforePcs
<1>5. CASE CountPrefixParameter
  <2>1. /\ handle'.params = handle.params /\ cur' = cur + 1 /\ pc = "countPrefix"
        /\ pc' = IF cur = FirstParamIdx THEN "param" ELSE "countPrefix"
    BY <1>5, ParamsWritten DEF CountPrefixParameter, PrefixDone, AdvanceRelations
  <2>2. QED
    BY <1>1, <1>2, <2>1 DEF ReportInv, BeforePcs
<1>6. CASE ~(PrefixDone \/ AdvanceRelations \/ CountPrefixParameter)
  <2>1. handle'.params = handle.params
    BY <1>6, ParamsWritten
  <2>2. /\ cur' = cur
        /\ pc' \in BeforePcs => pc \in BeforePcs
        /\ pc' = "countPrefix" => pc = "countPrefix"
        /\ pc' \notin BeforePcs \cup {"countPrefix"} =>
               pc \in BeforePcs \/ pc \notin BeforePcs \cup {"countPrefix"}
    BY <1>6, StepCases
    DEF vars, loopVars, Abort, EnterConstruction, EraseInvalidSeed, CountCombinations,
        CreatePrefixTest, LeaveLoop, SingleValuedParameter, BeginParameter,
        SelectSeededValue, SelectBestValue, SelectNoValue, Pick, CommitValue, CommitNoValue,
        AfterCommit, FinishHorizontal, StartRelation, NextCombo, RejectTuple,
        InjectIntoMatchingTest, InjectIntoDontCareTest, AddTest, TakeTuple, AfterTuple,
        EndCombo, EndRelation, FinishVertical, ReplaceDontCareValues, Publish, BeforePcs
  <2>3. QED
    BY <1>1, <1>2, <2>1, <2>2 DEF ReportInv
<1>7. QED
  BY <1>3, <1>4, <1>5, <1>6

\* The promise is kept for the end.
LEMMA ResultStep == ResultInv /\ [Next]_vars => ResultInv'
<1> SUFFICES ASSUME ResultInv, [Next]_vars, pc' # "done" PROVE result' = Pending
  BY DEF ResultInv
<1>1. pc # "done" /\ result' = result
  BY StepCases, Zenon
  DEF vars, jobVars, Abort, EnterConstruction, EraseInvalidSeed, CountCombinations,
      CreatePrefixTest, PrefixDone, CountPrefixParameter, LeaveLoop, SingleValuedParameter,
      BeginParameter, SelectSeededValue, SelectBestValue, SelectNoValue, CommitValue,
      CommitNoValue, FinishHorizontal, StartRelation, NextCombo, RejectTuple,
      InjectIntoMatchingTest, InjectIntoDontCareTest, AddTest, EndCombo, EndRelation,
      FinishVertical, AdvanceRelations, ReplaceDontCareValues, Publish
<1>2. QED
  BY <1>1 DEF ResultInv

-------------------------------------------------------------------------------
(* The theorems about what is covered *)

LEMMA InitCInv == Init => CInv
<1> SUFFICES ASSUME Init PROVE CInv
  OBVIOUS
<1> USE DEF LoopPcs, BeforePcs, HorizontalPcs, VerticalPcs, RelationPcs
<1>1. IInv
  BY InitIInv
<1>2. SelectedInv /\ VisitInv /\ CoveredMarksSound /\ ResultInv
  BY DEF Init, SelectedInv, VisitInv, CoveredMarksSound, ResultInv
<1>3. RelationsInv
  <2>1. ASSUME NEW r \in Rels, NEW i \in 1 .. RelLen(r)
        PROVE  ~(Relations[r].params[i] < 1) /\ ~(i <= 0)
    BY <2>1, Ascending, UsedFacts
  <2>2. cur = 1 /\ live = Rels /\ \A r \in Rels : idx[r] = 0
    BY DEF Init
  <2>3. QED
    BY <2>1, <2>2 DEF RelationsInv
<1>4. MissingInv
  BY DEF Init, MissingInv
<1>5. CoverageInv
  BY DEF Init, CoverageInv
<1>6. ReportInv
  BY DEF Init, ReportInv
<1>7. QED
  BY <1>1, <1>2, <1>3, <1>4, <1>5, <1>6 DEF CInv

LEMMA StepCInv == CInv /\ [Next]_vars => CInv'
BY StepIInv, SelectedStep, RelationsStep, MissingStep, VisitStep, CoverageStep, ReportStep,
   ResultStep, MarksStep, Zenon DEF CInv

\* The parts of the inductive invariant hold throughout.
THEOREM CoverageInvariant == Spec => []CInv
BY InitCInv, StepCInv, PTL DEF Spec

\* Whatever code sets values, and whatever the handler said when, a test keeps
\* the values it has.
THEOREM ValuesNeverChange == Spec => ValuesKept
<1> DEFINE Kept == pc # "filter" =>
                     \A i \in DOMAIN tests :
                         /\ i \in DOMAIN tests'
                         /\ \A p \in Params :
                                tests[i][p] # DontCare => tests'[i][p] = tests[i][p]
<1>1. CInv /\ [Next]_vars => Kept
  BY ValuesStep DEF CInv, Extends
<1>2. ValuesKept <=> [][Kept]_vars
  BY DEF ValuesKept
<1> HIDE DEF Kept
<1>3. QED
  BY <1>1, <1>2, CoverageInvariant, PTL DEF Spec

\* The marks of the coverage maps, which decide what is still looked for, are
\* right in every state of every job.
THEOREM MarksAlwaysSound == Spec => []CoveredMarksSound
<1>1. CInv => CoveredMarksSound
  BY DEF CInv
<1>2. QED
  BY <1>1, CoverageInvariant, PTL

\* number_combos_to_process never wraps around and never ends an extension
\* early.
THEOREM MissingAlwaysExact == Spec => []MissingExact
<1>1. CInv => MissingExact
  BY DEF CInv, MissingInv, MissingExact
<1>2. QED
  BY <1>1, CoverageInvariant, PTL

\* relations[0] exists whenever the horizontal extension starts: some relation
\* left has the current parameter as its next one.
THEOREM RelationAlwaysLeft == Spec => []SomeRelationAtParameter
<1>1. CInv => SomeRelationAtParameter
  <2> SUFFICES ASSUME CInv, pc \in {"param", "select", "commit", "horizontalDone"},
                      cur <= NumUsed
               PROVE  Participants # {}
    BY DEF SomeRelationAtParameter
  <2>1. cur \in UsedParams
    BY UsedFacts, ModelAssumption DEF CInv, IInv, TypeOK
  <2>2. PICK r \in Rels : cur \in RelParams(r)
    BY <2>1 DEF UsedParams
  <2>3. r \in Participants
    BY <2>2, CurrentRelation DEF CInv
  <2>4. QED
    BY <2>3
<1>2. QED
  BY <1>1, CoverageInvariant, PTL

\* The target tuples are of combinations of a relation's parameters.
LEMMA TargetFacts ==
    ASSUME NEW ru \in TargetTuples
    PROVE  \E r \in Rels : \E S \in SUBSET RelParams(r) :
              /\ Cardinality(S) = Relations[r].strength
              /\ Relations[r].strength \in Nat \ {0}
              /\ ru[2] \in TuplesOf(S) /\ DOMAIN ru[2] = S
<1>1. PICK r \in Rels : \E S \in kSubset(Relations[r].strength, RelParams(r)) :
                            \E u \in TuplesOf(S) : ru = <<r, u>>
  BY DEF TargetTuples
<1>2. PICK S \in kSubset(Relations[r].strength, RelParams(r)) :
          \E u \in TuplesOf(S) : ru = <<r, u>>
  BY <1>1
<1>3. PICK u \in TuplesOf(S) : ru = <<r, u>>
  BY <1>2
<1>4. S \in SUBSET RelParams(r) /\ Cardinality(S) = Relations[r].strength
  BY DEF kSubset
<1>5. DOMAIN u = S
  BY DEF TuplesOf
<1>6. Relations[r].strength \in Nat \ {0}
  BY StrengthPositive
<1>7. QED
  BY <1>3, <1>4, <1>5, <1>6

\* A job that has not been aborted has a test for every allowed tuple of the
\* parameters it reports as completely processed, whatever it is doing.
THEOREM ProcessedAlwaysCovered == Spec => []ProcessedParametersCovered
<1>1. CInv => ProcessedParametersCovered
  <2> SUFFICES ASSUME CInv, ~aborted, NEW ru \in TargetTuples,
                      DOMAIN ru[2] \subseteq 1 .. handle.params,
                      TupleAllowed(allowed, ru[2])
               PROVE  \E i \in DOMAIN tests : Covers(tests[i], ru[2])
    BY DEF ProcessedParametersCovered
  <2>1. PICK r \in Rels : \E S \in SUBSET RelParams(r) :
            /\ Cardinality(S) = Relations[r].strength
            /\ Relations[r].strength \in Nat \ {0}
            /\ ru[2] \in TuplesOf(S) /\ DOMAIN ru[2] = S
    BY TargetFacts
  <2>2. PICK S \in SUBSET RelParams(r) :
            /\ Cardinality(S) = Relations[r].strength
            /\ Relations[r].strength \in Nat \ {0}
            /\ ru[2] \in TuplesOf(S) /\ DOMAIN ru[2] = S
    BY <2>1
  <2>3. /\ handle.params \in Nat /\ cur \in Nat /\ cur >= 1 /\ FirstParamIdx \in Nat
    BY UsedFacts, FirstParamIdxType DEF CInv, IInv, TypeOK, Counters
  <2>4. ASSUME NEW k \in Nat, handle.params <= k, CoveredUpTo(allowed, tests, k)
        PROVE  \E i \in DOMAIN tests : Covers(tests[i], ru[2])
    <3>1. S \in SUBSET (RelParams(r) \cap (1 .. k))
      BY <2>2, <2>3, <2>4
    <3>2. Cardinality(S) <= Relations[r].strength
      BY <2>2
    <3>3. QED
      BY <2>2, <2>4, <3>1, <3>2 DEF CoveredUpTo
  <2>5. CASE pc \in BeforePcs
    <3>1. S = {}
      BY <2>2, <2>5 DEF CInv, ReportInv
    <3>2. Cardinality(S) = 0
      BY <3>1, FS_EmptySet
    <3>3. QED
      BY <2>2, <3>2
  <2>6. CASE pc = "countPrefix"
    BY <2>3, <2>4, <2>6 DEF CInv, ReportInv, CoverageInv
  <2>7. CASE pc \notin BeforePcs \cup {"countPrefix"}
    <3>1. cur - 1 \in Nat
      BY <2>3
    <3>2. QED
      BY <2>4, <2>7, <3>1 DEF CInv, ReportInv, CoverageInv
  <2>8. QED
    BY <2>5, <2>6, <2>7
<1>2. QED
  BY <1>1, CoverageInvariant, PTL

\* At the end, all parameters have been processed.
LEMMA CompletedCovers ==
    ASSUME CInv, ~aborted, pc = "publish"
    PROVE  IsCoveringArray(allowed, tests)
<1> SUFFICES ASSUME NEW ru \in TargetTuples, TupleAllowed(allowed, ru[2])
             PROVE  \E i \in DOMAIN tests : Covers(tests[i], ru[2])
  BY DEF IsCoveringArray
<1>1. PICK r \in Rels : \E S \in SUBSET RelParams(r) :
          /\ Cardinality(S) = Relations[r].strength
          /\ Relations[r].strength \in Nat \ {0}
          /\ ru[2] \in TuplesOf(S) /\ DOMAIN ru[2] = S
  BY TargetFacts
<1>2. PICK S \in SUBSET RelParams(r) :
          /\ Cardinality(S) = Relations[r].strength
          /\ Relations[r].strength \in Nat \ {0}
          /\ ru[2] \in TuplesOf(S) /\ DOMAIN ru[2] = S
  BY <1>1
<1>3. cur - 1 = NumUsed /\ CoveredUpTo(allowed, tests, cur - 1)
  BY UsedFacts DEF CInv, CoverageInv, BeforePcs
<1>4. RelParams(r) \subseteq 1 .. NumUsed
  BY ModelAssumption DEF UsedParams
<1>5. S \in SUBSET (RelParams(r) \cap (1 .. NumUsed))
  BY <1>4
<1>6. Cardinality(S) <= Relations[r].strength
  BY <1>2
<1>7. QED
  BY <1>2, <1>3, <1>5, <1>6 DEF CoveredUpTo

\* The abstract job is about the same model.
LEMMA SameModel ==
    /\ Job!PartialTests = PartialTests
    /\ \A A, t : Job!Extendable(A, t) = Extendable(A, t)
    /\ \A A, s : Job!IsCoveringArray(A, s) = IsCoveringArray(A, s)
<1> USE DEF Job!Params, Params, Job!Dom, Dom, Job!AllValues, AllValues, Job!DontCare, DontCare
<1>1. Job!PartialTests = PartialTests
  BY DEF Job!PartialTests, PartialTests
<1>2. ASSUME NEW A, NEW t PROVE Job!Extendable(A, t) = Extendable(A, t)
  BY DEF Job!Extendable, Extendable, Job!Fits, Fits
<1>3. Job!TargetTuples = TargetTuples
  <2>1. Job!Rels = Rels /\ \A r : Job!RelParams(r) = RelParams(r)
    BY DEF Job!Rels, Rels, Job!RelParams, RelParams, Job!RelLen, RelLen
  <2>2. \A S : Job!TuplesOf(S) = TuplesOf(S)
    BY DEF Job!TuplesOf, TuplesOf
  <2>3. \A n, S : Job!kSubset(n, S) = kSubset(n, S)
    BY DEF Job!kSubset, kSubset, Job!Cardinality, Cardinality
  <2>4. QED
    BY <2>1, <2>2, <2>3 DEF Job!TargetTuples, TargetTuples
<1>4. ASSUME NEW A, NEW s PROVE Job!IsCoveringArray(A, s) = IsCoveringArray(A, s)
  BY <1>3 DEF Job!IsCoveringArray, IsCoveringArray, Job!TupleAllowed, TupleAllowed,
              Job!Covers, Covers
<1>5. QED
  BY <1>1, <1>2, <1>4

\* The job does what a client may expect of any covering array job, for every
\* model: it delivers one result, every test of which is allowed or can be
\* completed to an allowed one, and one marked completed is a covering array.
THEOREM JobImplemented == Spec => ImplementsJob
<1>1. Init => Job!JobInit
  BY DEF Init, Job!JobInit, Pending, Job!Pending
<1>2. CInv /\ [Next]_vars => [Job!JobNext]_(Job!jobVars)
  <2> SUFFICES ASSUME CInv, [Next]_vars PROVE [Job!JobNext]_(Job!jobVars)
    OBVIOUS
  <2>1. CASE Abort
    BY <2>1 DEF Abort, Job!JobNext, Job!RequestAbort
  <2>2. CASE Publish
    <3>1. /\ pc = "publish" /\ allowed' = allowed /\ aborted' = aborted
          /\ result' = [code |-> ResultCode, tests |-> tests]
          /\ result = Pending
      BY <2>2 DEF Publish, CInv, ResultInv
    <3>2. result = Job!Pending
      BY <3>1 DEF Pending, Job!Pending
    <3>3. result'.tests = tests /\ tests \in Seq(PartialTests)
      BY <3>1 DEF CInv, IInv, TypeOK, TestSeqs
    <3>4. \A i \in DOMAIN tests : Job!Deliverable(tests[i])
      BY <3>1, SameModel DEF CInv, IInv, TestsExtendable, Job!Deliverable
    <3>5. CASE aborted
      BY <3>1, <3>2, <3>3, <3>4, <3>5, SameModel DEF ResultCode, Job!Deliver, Job!JobNext
    <3>6. CASE ~aborted
      <4>1. IsCoveringArray(allowed, tests)
        BY <3>1, <3>6, CompletedCovers
      <4>2. QED
        BY <3>1, <3>2, <3>3, <3>4, <3>6, <4>1, SameModel DEF ResultCode, Job!Deliver, Job!JobNext
    <3>7. QED
      BY <3>5, <3>6
  <2>3. CASE UNCHANGED <<allowed, aborted, result>>
    BY <2>3 DEF Job!jobVars
  <2>4. QED
    BY <2>1, <2>2, <2>3, StepCases, Zenon
    DEF vars, jobVars, EnterConstruction, EraseInvalidSeed, CountCombinations,
        CreatePrefixTest, PrefixDone, CountPrefixParameter, LeaveLoop, SingleValuedParameter,
        BeginParameter, SelectSeededValue, SelectBestValue, SelectNoValue, CommitValue,
        CommitNoValue, FinishHorizontal, StartRelation, NextCombo, RejectTuple,
        InjectIntoMatchingTest, InjectIntoDontCareTest, AddTest, EndCombo, EndRelation,
        FinishVertical, AdvanceRelations, ReplaceDontCareValues
<1>3. QED
  BY <1>1, <1>2, CoverageInvariant, PTL DEF Spec, ImplementsJob, Job!JobSpec

-------------------------------------------------------------------------------
(* The counters of the handle *)

\* No relation has as many parameters as its strength before the last one of the
\* prefix.  So it is for one relation, and for relations of the same strength.
NoneReachedEarly ==
    \A r \in Rels :
        Relations[r].strength <= RelLen(r) =>
            Relations[r].params[Relations[r].strength] >= FirstParamIdx

\* The pairs to cover that only have parameters among the first k.
TargetsUpTo(k) == {ru \in TargetTuples : DOMAIN ru[2] \subseteq 1 .. k}

AllowedOf(T) == {ru \in T : TupleAllowed(allowed, ru[2])}

\* The pairs marked covered that count for the client.
MarkedFull == FullPairs(MapTuples \ uncovered)

\* What the extension that runs has counted and not yet reported.
UnreportedProcessed ==
    IF pc \in HorizontalPcs THEN hx.gainedFull
    ELSE vx.totalFull +
             (IF pc \in RelationPcs /\ AtFullStrength(vx.rel) THEN vx.checked ELSE 0)

UnreportedCovered ==
    IF pc \in HorizontalPcs THEN hx.gainedFull
    ELSE vx.newlyFull +
             (IF pc \in RelationPcs /\ AtFullStrength(vx.rel) THEN vx.newly ELSE 0)

\* Within a parameter the counters are those of the parameters before and of the
\* pairs marked.
CountingInv ==
    pc \in HorizontalPcs \cup VerticalPcs =>
        /\ handle.processed + UnreportedProcessed =
               Cardinality(TargetsUpTo(cur - 1)) + Cardinality(MarkedFull)
        /\ handle.covered + UnreportedCovered =
               Cardinality(AllowedOf(TargetsUpTo(cur - 1))) + Cardinality(AllowedOf(MarkedFull))

\* The pairs of the parameters the job is through with.
TargetsBehind == TargetsUpTo(IF pc = "advance" THEN cur ELSE cur - 1)

\* Between parameters they are those of the parameters before.
CountedInv ==
    /\ pc \in {"init", "filter"} => handle.toProcess = 0
    /\ pc \notin {"init", "filter"} => handle.toProcess = Cardinality(TargetTuples)
    /\ pc \notin HorizontalPcs \cup VerticalPcs =>
        /\ handle.processed <= Cardinality(TargetsBehind)
        /\ ~aborted => /\ handle.processed = Cardinality(TargetsBehind)
                       /\ handle.covered = Cardinality(AllowedOf(TargetsBehind))

\* The number of tests is set, unless all parameters so far have one value.
SizeInv ==
    /\ pc \notin BeforePcs \cup VerticalPcs =>
           \/ handle.size = Len(tests)
           \/ \A p \in 1 .. (cur - 1) : NumValues[p] <= 1
    /\ pc = "advance" => handle.size = Len(tests) \/ NumValues[cur] <= 1
    /\ pc = "countPrefix" => handle.size = Len(tests)

\* What the client has been told in the end stays.
DeliveredInv ==
    result.code = "COMPLETED" =>
        /\ pc = "done"
        /\ handle.processed = Cardinality(TargetTuples)
        /\ handle.covered = Cardinality(AllowedOf(TargetTuples))
        /\ handle.size = Len(result.tests)

ProgressInv == CountingInv /\ CountedInv /\ SizeInv /\ DeliveredInv
-------------------------------------------------------------------------------
(* Counting pairs *)

\* The pairs of two sets that share none.
LEMMA DisjointCount ==
    ASSUME NEW A \in SUBSET (Rels \X Tuples), NEW B \in SUBSET (Rels \X Tuples), A \cap B = {}
    PROVE  Cardinality(A \cup B) = Cardinality(A) + Cardinality(B)
<1>1. /\ IsFiniteSet(A) /\ Cardinality(A) \in Nat
      /\ IsFiniteSet(B) /\ Cardinality(B) \in Nat
  BY TaggedFinite
<1>2. Cardinality(A \cup B) = Cardinality(A) + Cardinality(B) - Cardinality(A \cap B)
  BY <1>1, FS_Union
<1>3. Cardinality(A \cap B) = 0
  BY FS_EmptySet
<1>4. QED
  BY <1>1, <1>2, <1>3

\* The pairs of a part are no more.
LEMMA PartCount ==
    ASSUME NEW B \in SUBSET (Rels \X Tuples), NEW A \in SUBSET B
    PROVE  Cardinality(A) <= Cardinality(B) /\ Cardinality(A) \in Nat /\ Cardinality(B) \in Nat
<1>1. IsFiniteSet(B) /\ Cardinality(B) \in Nat /\ A \in SUBSET (Rels \X Tuples)
  BY TaggedFinite
<1>2. QED
  BY <1>1, TaggedFinite, FS_Subset

\* The pairs to cover, relation by relation.
LEMMA TargetIff ==
    ASSUME NEW r, NEW u
    PROVE  <<r, u>> \in TargetTuples <=>
               /\ r \in Rels
               /\ \E S \in SUBSET RelParams(r) :
                     Cardinality(S) = Relations[r].strength /\ u \in TuplesOf(S)
BY DEF TargetTuples, kSubset

\* A pair to cover, with its relation, its tuple and the parameters of that.
LEMMA TargetPair ==
    ASSUME NEW ru \in TargetTuples
    PROVE  /\ ru = <<ru[1], ru[2]>> /\ ru \in Rels \X Tuples /\ ru[1] \in Rels
           /\ DOMAIN ru[2] \in SUBSET RelParams(ru[1])
           /\ Cardinality(DOMAIN ru[2]) = Relations[ru[1]].strength
           /\ ru[2] \in TuplesOf(DOMAIN ru[2])
           /\ Relations[ru[1]].strength \in Nat \ {0}
           /\ DOMAIN ru[2] \subseteq 1 .. NumUsed
<1>1. PICK r \in Rels : \E S \in SUBSET RelParams(r) :
          /\ Cardinality(S) = Relations[r].strength
          /\ \E u \in TuplesOf(S) : ru = <<r, u>>
  BY DEF TargetTuples, kSubset
<1>2. PICK S \in SUBSET RelParams(r) :
          /\ Cardinality(S) = Relations[r].strength
          /\ \E u \in TuplesOf(S) : ru = <<r, u>>
  BY <1>1
<1>3. PICK u \in TuplesOf(S) : ru = <<r, u>>
  BY <1>2
<1>4. DOMAIN u = S
  BY DEF TuplesOf
<1>5. RelParams(r) \subseteq Params /\ RelParams(r) \subseteq 1 .. NumUsed
  BY UsedFacts DEF RelParams
<1>6. u \in Tuples
  BY <1>5 DEF Tuples
<1>7. Relations[r].strength \in Nat \ {0}
  BY StrengthPositive
<1>8. QED
  BY <1>2, <1>3, <1>4, <1>5, <1>6, <1>7

\* What is to cover among more and more parameters.
LEMMA TargetsGrow ==
    /\ TargetTuples \in SUBSET (Rels \X Tuples)
    /\ \A k : TargetsUpTo(k) \in SUBSET TargetTuples
    /\ \A k \in Nat, m \in Nat : k <= m => TargetsUpTo(k) \subseteq TargetsUpTo(m)
    /\ TargetsUpTo(NumUsed) = TargetTuples
    /\ TargetsUpTo(0) = {}
<1>1. TargetTuples \in SUBSET (Rels \X Tuples)
  BY TargetPair
<1>2. \A k : TargetsUpTo(k) \in SUBSET TargetTuples
  BY DEF TargetsUpTo
<1>3. ASSUME NEW k \in Nat, NEW m \in Nat, k <= m
      PROVE  TargetsUpTo(k) \subseteq TargetsUpTo(m)
  <2>1. 1 .. k \subseteq 1 .. m
    BY <1>3
  <2>2. QED
    BY <2>1 DEF TargetsUpTo
<1>4. TargetsUpTo(NumUsed) = TargetTuples
  BY TargetPair DEF TargetsUpTo
<1>5. TargetsUpTo(0) = {}
  <2> SUFFICES ASSUME NEW ru \in TargetsUpTo(0) PROVE FALSE
    OBVIOUS
  <2>1. ru \in TargetTuples /\ DOMAIN ru[2] = {}
    BY DEF TargetsUpTo
  <2>2. Cardinality(DOMAIN ru[2]) # 0
    BY <2>1, TargetPair
  <2>3. QED
    BY <2>1, <2>2, FS_EmptySet
<1>6. QED
  BY <1>1, <1>2, <1>3, <1>4, <1>5

\* The pairs of the coverage maps that count for the client are those to cover
\* that the current parameter adds.
LEMMA NewTargets ==
    ASSUME IInv, RelationsInv, cur <= NumUsed
    PROVE  FullPairs(MapTuples) = TargetsUpTo(cur) \ TargetsUpTo(cur - 1)
<1>1. cur \in Nat /\ cur >= 1 /\ idx \in [Rels -> Nat] /\ live \subseteq Rels
  BY UsedFacts DEF IInv, TypeOK
<1>2. ASSUME NEW ru \in FullPairs(MapTuples)
      PROVE  ru \in TargetsUpTo(cur) \ TargetsUpTo(cur - 1)
  <2>1. PICK r \in Participants : \E C \in MapCombos(r) : \E u \in TuplesOf(C) : ru = <<r, u>>
    BY <1>2 DEF FullPairs, MapTuples
  <2>2. PICK C \in MapCombos(r) : \E u \in TuplesOf(C) : ru = <<r, u>>
    BY <2>1
  <2>3. PICK u \in TuplesOf(C) : ru = <<r, u>>
    BY <2>2
  <2>4. r \in Rels /\ cur \in RelParams(r)
    <3>1. r \in live /\ Relations[r].params[idx[r] + 1] = cur /\ idx[r] < RelLen(r)
      BY DEF Participants, IInv, CursorInv
    <3>2. idx[r] + 1 \in 1 .. RelLen(r)
      BY <1>1, <3>1, UsedFacts
    <3>3. QED
      BY <1>1, <3>1, <3>2 DEF RelParams
  <2>5. CurrentStrength(r) = Relations[r].strength /\ Relations[r].strength \in Nat
    <3>1. Relations[r].strength \in Nat /\ idx[r] \in Nat /\ AtFullStrength(r)
      BY <1>1, <1>2, <2>3, <2>4, UsedFacts DEF FullPairs
    <3>2. QED
      BY <3>1 DEF AtFullStrength, CurrentStrength
  <2>6. PICK S : /\ S \in SUBSET FirstParams(r, idx[r])
                 /\ Cardinality(S) = Relations[r].strength - 1
                 /\ C = S \cup {cur}
    BY <2>5 DEF MapCombos, kSubset
  <2>7. /\ FirstParams(r, idx[r]) = RelParams(r) \cap (1 .. (cur - 1))
        /\ IsFiniteSet(FirstParams(r, idx[r]))
    BY <2>4, CurrentRelation
  <2>8. cur \notin S /\ IsFiniteSet(S)
    BY <1>1, <2>6, <2>7, FS_Subset
  <2>9. Cardinality(C) = Relations[r].strength
    <3>1. Cardinality(S \cup {cur}) = Cardinality(S) + 1
      BY <2>8, FS_AddElement
    <3>2. QED
      BY <2>5, <2>6, <3>1
  <2>10. /\ C \in SUBSET RelParams(r) /\ C \subseteq 1 .. cur
         /\ ~(C \subseteq 1 .. (cur - 1))
    BY <1>1, <2>4, <2>6, <2>7
  <2>11. ru \in TargetTuples /\ DOMAIN ru[2] = C
    BY <2>3, <2>4, <2>9, <2>10, TargetIff DEF TuplesOf
  <2>12. QED
    BY <2>10, <2>11 DEF TargetsUpTo
<1>3. ASSUME NEW ru \in TargetsUpTo(cur) \ TargetsUpTo(cur - 1)
      PROVE  ru \in FullPairs(MapTuples)
  <2> DEFINE r == ru[1]
             C == DOMAIN ru[2]
             S == C \ {cur}
  <2>1. /\ ru \in TargetTuples /\ C \subseteq 1 .. cur /\ ~(C \subseteq 1 .. (cur - 1))
    BY <1>3 DEF TargetsUpTo
  <2>2. /\ ru = <<r, ru[2]>> /\ r \in Rels /\ C \in SUBSET RelParams(r)
        /\ Cardinality(C) = Relations[r].strength /\ ru[2] \in TuplesOf(C)
        /\ Relations[r].strength \in Nat \ {0}
    BY <2>1, TargetPair
  <2>3. cur \in C
    BY <1>1, <2>1
  <2>4. /\ r \in Participants
        /\ FirstParams(r, idx[r]) = RelParams(r) \cap (1 .. (cur - 1))
        /\ IsFiniteSet(FirstParams(r, idx[r]))
        /\ Cardinality(FirstParams(r, idx[r])) = idx[r]
    BY <2>2, <2>3, CurrentRelation
  <2>5. S \in SUBSET FirstParams(r, idx[r])
    BY <1>1, <2>1, <2>2, <2>4
  <2>6. IsFiniteSet(S) /\ Cardinality(S) <= idx[r] /\ C = S \cup {cur} /\ cur \notin S
    BY <2>3, <2>4, <2>5, FS_Subset
  <2> HIDE DEF S
  <2>7. Cardinality(S) = Relations[r].strength - 1
    <3>1. Cardinality(C) = Cardinality(S) + 1 /\ Cardinality(S) \in Nat
      BY <2>6, FS_AddElement, FS_CardinalityType
    <3>2. QED
      BY <2>2, <3>1
  <2> HIDE DEF r, C
  <2>8. CurrentStrength(r) = Relations[r].strength
    <3>1. idx[r] \in Nat /\ Relations[r].strength \in Nat
      BY <1>1, <2>2
    <3>2. QED
      BY <2>6, <2>7, <3>1 DEF CurrentStrength
  <2>9. C \in MapCombos(r)
    BY <2>5, <2>6, <2>7, <2>8 DEF MapCombos, kSubset
  <2>10. ru \in MapTuples /\ AtFullStrength(r)
    BY <2>2, <2>4, <2>8, <2>9 DEF MapTuples, AtFullStrength
  <2>11. QED
    BY <2>10 DEF FullPairs, r
<1>4. QED
  BY <1>2, <1>3

\* Of a relation, the parameters before the current one are its first n.
LEMMA ParamsBehind ==
    ASSUME IInv, RelationsInv, NEW r \in Rels
    PROVE  \E n \in 0 .. RelLen(r) :
              /\ \A i \in 1 .. RelLen(r) : Relations[r].params[i] <= cur - 1 <=> i <= n
              /\ FirstParams(r, n) = RelParams(r) \cap (1 .. (cur - 1))
              /\ IsFiniteSet(FirstParams(r, n)) /\ Cardinality(FirstParams(r, n)) = n
              /\ r \in live => n = idx[r]
<1> DEFINE n == IF r \in live THEN idx[r] ELSE RelLen(r)
<1>1. /\ cur - 1 \in Nat /\ RelLen(r) \in Nat /\ idx[r] \in Nat
      /\ \A i \in 1 .. RelLen(r) : Relations[r].params[i] \in Nat
      /\ r \in live => idx[r] < RelLen(r)
  BY UsedFacts, Ascending DEF IInv, TypeOK, CursorInv
<1>2. \A i \in 1 .. RelLen(r) : Relations[r].params[i] < cur <=> i <= n
  BY <1>1 DEF RelationsInv
<1>3. n \in 0 .. RelLen(r) /\ (r \in live => n = idx[r])
  BY <1>1
<1> HIDE DEF n
<1>4. ASSUME NEW i \in 1 .. RelLen(r)
      PROVE  Relations[r].params[i] <= cur - 1 <=> i <= n
  <2>1. Relations[r].params[i] \in Nat /\ cur \in Nat
    BY <1>1, UsedFacts DEF IInv, TypeOK
  <2>2. Relations[r].params[i] <= cur - 1 <=> Relations[r].params[i] < cur
    BY <2>1
  <2>3. QED
    BY <1>2, <2>2
<1>5. QED
  BY <1>1, <1>3, <1>4, FirstOnes

\* While the parameters of the prefix are counted, no relation has got to its
\* strength before the last of them.
LEMMA NoneBefore ==
    ASSUME IInv, RelationsInv, NoneReachedEarly, cur <= FirstParamIdx
    PROVE  TargetsUpTo(cur - 1) = {}
<1> SUFFICES ASSUME NEW ru \in TargetsUpTo(cur - 1) PROVE FALSE
  OBVIOUS
<1> DEFINE r == ru[1]
           S == DOMAIN ru[2]
           k == Relations[r].strength
<1>1. /\ r \in Rels /\ S \in SUBSET RelParams(r) /\ S \subseteq 1 .. (cur - 1)
      /\ Cardinality(S) = k /\ k \in Nat \ {0}
  BY TargetPair DEF TargetsUpTo
<1> HIDE DEF r, S
<1>2. PICK n \in 0 .. RelLen(r) :
          /\ \A i \in 1 .. RelLen(r) : Relations[r].params[i] <= cur - 1 <=> i <= n
          /\ FirstParams(r, n) = RelParams(r) \cap (1 .. (cur - 1))
          /\ IsFiniteSet(FirstParams(r, n)) /\ Cardinality(FirstParams(r, n)) = n
  BY <1>1, ParamsBehind
<1>3. k <= n
  <2>1. S \in SUBSET FirstParams(r, n)
    BY <1>1, <1>2
  <2>2. QED
    BY <1>1, <1>2, <2>1, FS_Subset
<1>4. k \in 1 .. RelLen(r) /\ cur \in Nat /\ FirstParamIdx \in Nat
  BY <1>1, <1>2, <1>3, UsedFacts, FirstParamIdxType DEF IInv, TypeOK
<1>5. Relations[r].params[k] <= cur - 1 /\ Relations[r].params[k] >= FirstParamIdx
      /\ Relations[r].params[k] \in Nat
  BY <1>1, <1>2, <1>3, <1>4, Ascending DEF NoneReachedEarly
<1>6. QED
  BY <1>4, <1>5

\* What the loop over the parameters of the prefix reports for one of them.
PrefixReport ==
    UNION {{<<r, u>> : u \in TuplesOf(FirstParams(r, Advanced[r]))} :
              r \in {q \in live : Advanced[q] >= Relations[q].strength}}

\* It is what there is to cover up to it.
LEMMA PrefixTargets ==
    ASSUME IInv, RelationsInv, NoneReachedEarly, cur <= FirstParamIdx
    PROVE  PrefixReport = TargetsUpTo(cur)
<1>1. /\ cur \in Nat /\ cur >= 1 /\ live \subseteq Rels /\ FirstParamIdx \in Nat
      /\ idx \in [Rels -> Nat] /\ \A r \in live : idx[r] < RelLen(r)
  BY UsedFacts, FirstParamIdxType DEF IInv, TypeOK, CursorInv
<1>2. ASSUME NEW r \in live
      PROVE  /\ Advanced[r] \in 0 .. RelLen(r)
             /\ \A i \in 1 .. RelLen(r) : Relations[r].params[i] <= cur <=> i <= Advanced[r]
  <2> DEFINE next == idx[r] + 1
  <2>1. r \in Rels /\ idx[r] \in Nat /\ next \in 1 .. RelLen(r) /\ RelLen(r) \in Nat
    BY <1>1, UsedFacts
  <2>2. \A j \in 1 .. RelLen(r) :
            /\ Relations[r].params[j] < cur <=> j <= idx[r]
            /\ Relations[r].params[j] \in Nat
    BY <2>1, Ascending DEF RelationsInv
  <2>3. Advanced[r] = IF Relations[r].params[next] = cur THEN next ELSE idx[r]
    BY <2>1 DEF Advanced, Participants
  <2>4. ~(Relations[r].params[next] < cur)
    BY <2>1, <2>2
  <2>5. ASSUME NEW i \in 1 .. RelLen(r)
        PROVE  /\ i < next => Relations[r].params[i] < Relations[r].params[next]
               /\ next < i => Relations[r].params[next] < Relations[r].params[i]
    BY <2>1, Ascending
  <2>6. ASSUME NEW i \in 1 .. RelLen(r)
        PROVE  Relations[r].params[i] <= cur <=> i <= Advanced[r]
    <3>1. /\ Relations[r].params[i] \in Nat /\ Relations[r].params[next] \in Nat
          /\ Relations[r].params[i] < cur <=> i <= idx[r]
          /\ i < next <=> i <= idx[r]
          /\ i = next => Relations[r].params[i] = Relations[r].params[next]
      BY <2>1, <2>2
    <3> HIDE DEF next
    <3>2. next \in Nat /\ i \in Nat
      BY <2>1
    <3>3. CASE i < next
      BY <1>1, <2>1, <2>3, <3>1, <3>2, <3>3
    <3>4. CASE i = next
      <4>1. idx[r] < next
        BY <2>1 DEF next
      <4>2. QED
        BY <1>1, <2>1, <2>3, <2>4, <3>1, <3>2, <3>4, <4>1
    <3>5. CASE i > next
      <4>1. Relations[r].params[i] > cur
        BY <1>1, <2>4, <2>5, <3>1, <3>2, <3>5
      <4>2. i > Advanced[r]
        BY <2>1, <2>3, <3>1, <3>2, <3>5
      <4>3. Advanced[r] \in Nat
        BY <2>1, <2>3
      <4>4. QED
        BY <1>1, <3>1, <3>2, <4>1, <4>2, <4>3
    <3>6. QED
      BY <3>2, <3>3, <3>4, <3>5
  <2>7. Advanced[r] \in 0 .. RelLen(r)
    BY AdvanceFacts
  <2>8. QED
    BY <2>6, <2>7
<1>3. ASSUME NEW r \in live
      PROVE  /\ FirstParams(r, Advanced[r]) = RelParams(r) \cap (1 .. cur)
             /\ IsFiniteSet(FirstParams(r, Advanced[r]))
             /\ Cardinality(FirstParams(r, Advanced[r])) = Advanced[r]
  BY <1>1, <1>2, FirstOnes
<1>4. ASSUME NEW r \in Rels, Relations[r].strength <= RelLen(r)
      PROVE  /\ r \in live
             /\ Advanced[r] <= Relations[r].strength
  <2> DEFINE k == Relations[r].strength
  <2>1. k \in 1 .. RelLen(r) /\ RelLen(r) \in Nat /\ k \in Nat
    <3>1. k \in Nat \ {0}
      BY StrengthPositive
    <3>2. QED
      BY <1>4, <3>1, UsedFacts
  <2>2. Relations[r].params[k] >= FirstParamIdx /\ Relations[r].params[k] \in Nat
    BY <1>4, <2>1, Ascending DEF NoneReachedEarly
  <2> HIDE DEF k
  <2>3. r \in live
    BY <1>1, <2>1, <2>2 DEF RelationsInv
  <2>4. ASSUME Advanced[r] > k PROVE FALSE
    <3>1. k + 1 \in 1 .. RelLen(r) /\ k + 1 <= Advanced[r]
      BY <1>2, <2>1, <2>3, <2>4
    <3>2. Relations[r].params[k + 1] <= cur
      BY <1>2, <2>3, <3>1
    <3>3. Relations[r].params[k] < Relations[r].params[k + 1] /\ Relations[r].params[k + 1] \in Nat
      BY <2>1, <3>1, Ascending
    <3>4. QED
      BY <1>1, <2>2, <3>2, <3>3
  <2>5. Advanced[r] \in Nat
    BY <1>2, <2>3
  <2>6. Advanced[r] <= k
    BY <2>1, <2>4, <2>5
  <2>7. QED
    BY <2>3, <2>6 DEF k
<1>5. ASSUME NEW ru \in PrefixReport PROVE ru \in TargetsUpTo(cur)
  <2>1. PICK r \in live : /\ Advanced[r] >= Relations[r].strength
                          /\ \E u \in TuplesOf(FirstParams(r, Advanced[r])) : ru = <<r, u>>
    BY <1>5 DEF PrefixReport
  <2>2. PICK u \in TuplesOf(FirstParams(r, Advanced[r])) : ru = <<r, u>>
    BY <2>1
  <2>3. r \in Rels /\ Relations[r].strength \in Nat /\ RelLen(r) \in Nat /\ Advanced[r] \in 0 .. RelLen(r)
    BY <1>1, <1>2, UsedFacts
  <2>4. Advanced[r] = Relations[r].strength
    BY <1>4, <2>1, <2>3
  <2>5. DOMAIN u = FirstParams(r, Advanced[r]) /\ FirstParams(r, Advanced[r]) \in SUBSET RelParams(r)
        /\ FirstParams(r, Advanced[r]) \subseteq 1 .. cur
        /\ Cardinality(FirstParams(r, Advanced[r])) = Relations[r].strength
    BY <1>3, <2>2, <2>4 DEF TuplesOf
  <2>6. ru \in TargetTuples
    BY <2>2, <2>3, <2>5, TargetIff
  <2>7. QED
    BY <2>2, <2>5, <2>6 DEF TargetsUpTo
<1>6. ASSUME NEW ru \in TargetsUpTo(cur) PROVE ru \in PrefixReport
  <2> DEFINE r == ru[1]
             S == DOMAIN ru[2]
  <2>1. /\ ru = <<r, ru[2]>> /\ r \in Rels /\ S \in SUBSET RelParams(r) /\ S \subseteq 1 .. cur
        /\ Cardinality(S) = Relations[r].strength /\ Relations[r].strength \in Nat
        /\ ru[2] \in TuplesOf(S)
    BY <1>6, TargetPair DEF TargetsUpTo
  <2> HIDE DEF r, S
  <2>2. Relations[r].strength <= RelLen(r)
    <3>1. \A i \in 1 .. RelLen(r) : Relations[r].params[i] <= NumUsed <=> i <= RelLen(r)
      BY <2>1, UsedFacts
    <3>2. RelLen(r) \in 0 .. RelLen(r) /\ NumUsed \in Nat
      BY <2>1, UsedFacts
    <3>3. /\ FirstParams(r, RelLen(r)) = RelParams(r) \cap (1 .. NumUsed)
          /\ IsFiniteSet(FirstParams(r, RelLen(r)))
          /\ Cardinality(FirstParams(r, RelLen(r))) = RelLen(r)
      BY <2>1, <3>1, <3>2, FirstOnes
    <3>4. RelParams(r) = FirstParams(r, RelLen(r))
      BY DEF RelParams, FirstParams
    <3>5. QED
      BY <2>1, <3>3, <3>4, FS_Subset
  <2>3. r \in live /\ Advanced[r] <= Relations[r].strength
    BY <1>4, <2>1, <2>2
  <2>4. S \in SUBSET FirstParams(r, Advanced[r])
    BY <1>3, <2>1, <2>3
  <2>5. /\ Cardinality(S) <= Advanced[r]
        /\ Advanced[r] = Cardinality(S) => S = FirstParams(r, Advanced[r])
    BY <1>3, <2>3, <2>4, FS_Subset
  <2>6. Advanced[r] \in Nat
    BY <1>2, <2>3
  <2>7. Advanced[r] = Relations[r].strength /\ S = FirstParams(r, Advanced[r])
    BY <2>1, <2>3, <2>5, <2>6
  <2>8. QED
    BY <2>1, <2>3, <2>6, <2>7 DEF PrefixReport
<1>7. QED
  BY <1>5, <1>6

\* What tests cover can be part of an allowed test.
LEMMA CoveredAllowed ==
    ASSUME IInv, pc \notin {"init", "filter"}, NEW T \in SUBSET (Rels \X Tuples),
           \A ru \in T : \E i \in DOMAIN tests : Covers(tests[i], ru[2])
    PROVE  AllowedOf(T) = T
<1>1. allowed \subseteq FullTests
  BY InputAssumption DEF IInv, TypeOK
<1>2. ASSUME NEW ru \in T PROVE TupleAllowed(allowed, ru[2])
  <2>1. PICK i \in DOMAIN tests : Covers(tests[i], ru[2])
    OBVIOUS
  <2>2. Extendable(allowed, tests[i]) /\ ru[2] \in Tuples
    BY DEF IInv, TestsExtendable
  <2>3. QED
    BY <1>1, <2>1, <2>2, CoveredTupleAllowed
<1>3. QED
  BY <1>2 DEF AllowedOf

\* Marking pairs as covered, counted.
LEMMA MarkedCount ==
    ASSUME NEW M \in SUBSET (Rels \X Tuples), NEW U \in SUBSET M, NEW N \in SUBSET U
    PROVE  /\ Cardinality(FullPairs(M \ (U \ N))) =
                  Cardinality(FullPairs(M \ U)) + Cardinality(FullPairs(N))
           /\ Cardinality(AllowedOf(FullPairs(M \ (U \ N)))) =
                  Cardinality(AllowedOf(FullPairs(M \ U)))
                      + Cardinality(AllowedOf(FullPairs(N)))
<1> DEFINE A == FullPairs(M \ U)
           B == FullPairs(N)
<1>1. FullPairs(M \ (U \ N)) = A \cup B
  BY DEF FullPairs
<1>2. A \in SUBSET (Rels \X Tuples) /\ B \in SUBSET (Rels \X Tuples) /\ A \cap B = {}
  BY DEF FullPairs
<1> HIDE DEF A, B
<1>3. Cardinality(A \cup B) = Cardinality(A) + Cardinality(B)
  BY <1>2, DisjointCount
<1>4. AllowedOf(A \cup B) = AllowedOf(A) \cup AllowedOf(B)
  BY DEF AllowedOf
<1>5. /\ AllowedOf(A) \in SUBSET (Rels \X Tuples) /\ AllowedOf(B) \in SUBSET (Rels \X Tuples)
      /\ AllowedOf(A) \cap AllowedOf(B) = {}
  BY <1>2 DEF AllowedOf
<1>6. Cardinality(AllowedOf(A) \cup AllowedOf(B)) =
          Cardinality(AllowedOf(A)) + Cardinality(AllowedOf(B))
  BY <1>5, DisjointCount
<1>7. QED
  BY <1>1, <1>3, <1>4, <1>6 DEF A, B

\* The pairs that an extension marks covered in a step, counted.
LEMMA MarkedStep ==
    ASSUME IInv, [Next]_vars, pc \in HorizontalPcs \cup VerticalPcs,
           NEW N \in SUBSET uncovered, uncovered' = uncovered \ N
    PROVE  /\ Cardinality(MarkedFull') = Cardinality(MarkedFull) + Cardinality(FullPairs(N))
           /\ Cardinality(AllowedOf(MarkedFull)') =
                  Cardinality(AllowedOf(MarkedFull)) + Cardinality(AllowedOf(FullPairs(N)))
           /\ Cardinality(MarkedFull) \in Nat /\ Cardinality(AllowedOf(MarkedFull)) \in Nat
           /\ Cardinality(FullPairs(N)) \in Nat /\ Cardinality(AllowedOf(FullPairs(N))) \in Nat
<1>1. cur <= NumUsed /\ uncovered \in SUBSET MapTuples
  BY DEF IInv, CursorInv, MapsInv, BodyPcs
<1>2. MapTuples \in SUBSET (Rels \X Tuples)
  BY <1>1, MapTuplesNow
<1>3. MapTuples' = MapTuples /\ idx' = idx /\ allowed' = allowed
  BY MapsKept, ClientStep DEF loopVars
<1>4. MarkedFull' = FullPairs(MapTuples \ (uncovered \ N))
  <2>1. MarkedFull' = {ru \in MapTuples' \ uncovered' : AtFullStrength(ru[1])'}
    BY Zenon DEF MarkedFull, FullPairs
  <2>2. \A r : AtFullStrength(r)' = AtFullStrength(r)
    BY <1>3, Zenon DEF AtFullStrength, CurrentStrength
  <2>3. QED
    BY <1>3, <2>1, <2>2, Zenon DEF FullPairs
<1>5. AllowedOf(MarkedFull)' = AllowedOf(FullPairs(MapTuples \ (uncovered \ N)))
  BY <1>3, <1>4, Zenon DEF AllowedOf
<1> HIDE DEF MapTuples
<1>6. /\ FullPairs(MapTuples \ uncovered) \in SUBSET (Rels \X Tuples)
      /\ AllowedOf(FullPairs(MapTuples \ uncovered)) \in SUBSET (Rels \X Tuples)
      /\ FullPairs(N) \in SUBSET (Rels \X Tuples)
      /\ AllowedOf(FullPairs(N)) \in SUBSET (Rels \X Tuples)
  BY <1>1, <1>2 DEF FullPairs, AllowedOf
<1>7. MarkedFull = FullPairs(MapTuples \ uncovered)
  BY DEF MarkedFull
<1>8. /\ Cardinality(FullPairs(MapTuples \ (uncovered \ N))) =
            Cardinality(FullPairs(MapTuples \ uncovered)) + Cardinality(FullPairs(N))
      /\ Cardinality(AllowedOf(FullPairs(MapTuples \ (uncovered \ N)))) =
            Cardinality(AllowedOf(FullPairs(MapTuples \ uncovered)))
                + Cardinality(AllowedOf(FullPairs(N)))
  BY <1>1, <1>2, MarkedCount
<1>9. /\ Cardinality(MarkedFull) \in Nat /\ Cardinality(AllowedOf(MarkedFull)) \in Nat
      /\ Cardinality(FullPairs(N)) \in Nat /\ Cardinality(AllowedOf(FullPairs(N))) \in Nat
  BY <1>6, <1>7, TaggedFinite
<1>10. QED
  BY <1>4, <1>5, <1>7, <1>8, <1>9, Zenon

\* The pairs of one relation either all count or none does.
LEMMA FullOfOne ==
    ASSUME NEW r, NEW N, \A ru \in N : ru[1] = r
    PROVE  FullPairs(N) = IF AtFullStrength(r) THEN N ELSE {}
BY DEF FullPairs

-------------------------------------------------------------------------------
(* Counting within a parameter *)

\* The numbers are numbers.
LEMMA CountingTypes ==
    ASSUME IInv
    PROVE  /\ handle.processed \in Nat /\ handle.covered \in Nat
           /\ hx.gainedFull \in Nat /\ vx.totalFull \in Nat /\ vx.newlyFull \in Nat
           /\ vx.checked \in Nat /\ vx.newly \in Nat
           /\ UnreportedProcessed \in Nat /\ UnreportedCovered \in Nat
           /\ Cardinality(TargetsUpTo(cur - 1)) \in Nat
           /\ Cardinality(AllowedOf(TargetsUpTo(cur - 1))) \in Nat
<1>1. handle \in Counters /\ hx \in HorizontalLocals /\ vx \in VerticalLocals
  BY DEF IInv, TypeOK
<1>2. /\ handle.processed \in Nat /\ handle.covered \in Nat
      /\ hx.gainedFull \in Nat /\ vx.totalFull \in Nat /\ vx.newlyFull \in Nat
      /\ vx.checked \in Nat /\ vx.newly \in Nat
  BY <1>1 DEF Counters, HorizontalLocals, VerticalLocals
<1>3. UnreportedProcessed \in Nat /\ UnreportedCovered \in Nat
  BY <1>2 DEF UnreportedProcessed, UnreportedCovered
<1>4. /\ TargetsUpTo(cur - 1) \in SUBSET (Rels \X Tuples)
      /\ AllowedOf(TargetsUpTo(cur - 1)) \in SUBSET (Rels \X Tuples)
  BY TargetsGrow DEF AllowedOf
<1>5. QED
  BY <1>2, <1>3, <1>4, TaggedFinite

\* The pairs of the parameters before stay the same with the current parameter.
LEMMA BehindKept ==
    ASSUME IInv, [Next]_vars, cur' = cur
    PROVE  /\ TargetsUpTo(cur - 1)' = TargetsUpTo(cur - 1)
           /\ AllowedOf(TargetsUpTo(cur - 1))' = AllowedOf(TargetsUpTo(cur - 1))
<1>1. allowed' = allowed
  BY ClientStep
<1>2. TargetsUpTo(cur - 1)' = TargetsUpTo(cur - 1)
  BY DEF TargetsUpTo
<1>3. QED
  BY <1>1, <1>2 DEF AllowedOf

\* A step of an extension that counts what it marks covered.
LEMMA CountingKept ==
    ASSUME IInv, CountingInv, [Next]_vars, pc \in HorizontalPcs \cup VerticalPcs,
           NEW N \in SUBSET uncovered, uncovered' = uncovered \ N,
           handle'.processed + UnreportedProcessed' =
               handle.processed + UnreportedProcessed + Cardinality(FullPairs(N)),
           handle'.covered + UnreportedCovered' =
               handle.covered + UnreportedCovered + Cardinality(AllowedOf(FullPairs(N)))
    PROVE  CountingInv'
<1>1. cur' = cur
  BY MapsKept DEF loopVars
<1>2. /\ handle.processed + UnreportedProcessed =
             Cardinality(TargetsUpTo(cur - 1)) + Cardinality(MarkedFull)
      /\ handle.covered + UnreportedCovered =
             Cardinality(AllowedOf(TargetsUpTo(cur - 1))) + Cardinality(AllowedOf(MarkedFull))
  BY DEF CountingInv
<1>3. /\ TargetsUpTo(cur - 1)' = TargetsUpTo(cur - 1)
      /\ AllowedOf(TargetsUpTo(cur - 1))' = AllowedOf(TargetsUpTo(cur - 1))
  BY <1>1, BehindKept
<1> DEFINE b == Cardinality(TargetsUpTo(cur - 1))
           c == Cardinality(AllowedOf(TargetsUpTo(cur - 1)))
           m == Cardinality(MarkedFull)
           n == Cardinality(AllowedOf(MarkedFull))
           d == Cardinality(FullPairs(N))
           e == Cardinality(AllowedOf(FullPairs(N)))
<1>4. /\ b \in Nat /\ c \in Nat /\ m \in Nat /\ n \in Nat /\ d \in Nat /\ e \in Nat
      /\ Cardinality(MarkedFull') = m + d
      /\ Cardinality(AllowedOf(MarkedFull)') = n + e
  BY MarkedStep, CountingTypes
<1>5. /\ handle'.processed + UnreportedProcessed' = (b + m) + d
      /\ handle'.covered + UnreportedCovered' = (c + n) + e
  BY <1>2
<1> HIDE DEF b, c, m, n, d, e
<1>6. /\ handle'.processed + UnreportedProcessed' = b + (m + d)
      /\ handle'.covered + UnreportedCovered' = c + (n + e)
  BY <1>4, <1>5
<1>7. /\ handle'.processed + UnreportedProcessed' =
             Cardinality(TargetsUpTo(cur - 1)') + Cardinality(MarkedFull')
      /\ handle'.covered + UnreportedCovered' =
             Cardinality(AllowedOf(TargetsUpTo(cur - 1))') + Cardinality(AllowedOf(MarkedFull)')
  BY <1>3, <1>4, <1>6, Zenon DEF b, c
<1>8. QED
  BY <1>7, Zenon DEF CountingInv

\* A step that marks none and counts none.
LEMMA CountingSame ==
    ASSUME IInv, CountingInv, [Next]_vars, pc \in HorizontalPcs \cup VerticalPcs,
           uncovered' = uncovered,
           handle'.processed + UnreportedProcessed' = handle.processed + UnreportedProcessed,
           handle'.covered + UnreportedCovered' = handle.covered + UnreportedCovered
    PROVE  CountingInv'
<1>1. {} \in SUBSET uncovered /\ uncovered' = uncovered \ {}
  OBVIOUS
<1>2. FullPairs({}) = {} /\ AllowedOf({}) = {}
  BY DEF FullPairs, AllowedOf
<1>3. Cardinality(FullPairs({})) = 0 /\ Cardinality(AllowedOf(FullPairs({}))) = 0
  BY <1>2, FS_EmptySet
<1>4. /\ handle.processed \in Nat /\ handle.covered \in Nat
      /\ UnreportedProcessed \in Nat /\ UnreportedCovered \in Nat
  BY CountingTypes
<1>5. /\ handle.processed + UnreportedProcessed + Cardinality(FullPairs({})) =
             handle.processed + UnreportedProcessed
      /\ handle.covered + UnreportedCovered + Cardinality(AllowedOf(FullPairs({}))) =
             handle.covered + UnreportedCovered
  BY <1>3, <1>4
<1>6. QED
  BY <1>1, <1>5, CountingKept

\* The counters after a report, and after other writes to the handle.
LEMMA CounterFields ==
    ASSUME NEW h \in Counters, NEW a, NEW b, NEW c
    PROVE  LET v == [h EXCEPT !.processed = a, !.covered = b]
               w == [h EXCEPT !.processed = a, !.covered = b, !.size = c]
               x == [h EXCEPT !.phase = a]
               y == [h EXCEPT !.size = a, !.params = b]
               z == [h EXCEPT !.params = a]
               t == [h EXCEPT !.toProcess = a, !.paramsToProcess = b]
           IN /\ v.processed = a /\ v.covered = b
              /\ v.toProcess = h.toProcess /\ v.size = h.size
              /\ w.processed = a /\ w.covered = b /\ w.toProcess = h.toProcess /\ w.size = c
              /\ x.processed = h.processed /\ x.covered = h.covered
              /\ x.toProcess = h.toProcess /\ x.size = h.size
              /\ y.processed = h.processed /\ y.covered = h.covered
              /\ y.toProcess = h.toProcess /\ y.size = a
              /\ z.processed = h.processed /\ z.covered = h.covered
              /\ z.toProcess = h.toProcess /\ z.size = h.size
              /\ t.processed = h.processed /\ t.covered = h.covered
              /\ t.toProcess = a /\ t.size = h.size
BY DEF Counters

\* The seeded tests are measured.
LEMMA SeedsCounted ==
    ASSUME IInv, CountedInv, [Next]_vars, BeginParameter
    PROVE  CountingInv'
<1> DEFINE seeded == CoveredBy(MapTuples, 1 .. numSeeds)
           n == Cardinality(FullPairs(seeded))
<1>1. /\ pc = "param" /\ ~aborted /\ cur <= NumUsed /\ numSeeds \in Nat
      /\ handle \in Counters /\ numSeeds <= Len(tests) /\ Len(tests) \in Nat
      /\ DOMAIN tests = 1 .. Len(tests)
  BY DEF BeginParameter, IInv, TypeOK, IndicesInv, TestSeqs
<1>2. /\ uncovered' = MapTuples \ seeded
      /\ handle' = [handle EXCEPT !.processed = @ + n, !.covered = @ + n]
      /\ hx'.gainedFull = 0 /\ pc' \in HorizontalPcs
  BY DEF BeginParameter, NoHorizontal, HorizontalPcs
<1>3. /\ MapTuples' = MapTuples /\ cur' = cur /\ idx' = idx /\ allowed' = allowed
  BY MapsKept, ClientStep DEF loopVars
<1>4. MapTuples \in SUBSET (Rels \X Tuples)
  BY <1>1, MapTuplesNow
<1> HIDE DEF MapTuples
<1>5. seeded \in SUBSET MapTuples /\ FullPairs(seeded) \in SUBSET (Rels \X Tuples)
  BY <1>4 DEF CoveredBy, FullPairs
<1>6. MarkedFull' = FullPairs(seeded)
  <2>1. MarkedFull' = {ru \in MapTuples' \ uncovered' : AtFullStrength(ru[1])'}
    BY Zenon DEF MarkedFull, FullPairs
  <2>2. \A r : AtFullStrength(r)' = AtFullStrength(r)
    BY <1>3, Zenon DEF AtFullStrength, CurrentStrength
  <2>3. MapTuples' \ uncovered' = seeded
    BY <1>2, <1>3, <1>5
  <2>4. QED
    BY <2>1, <2>2, <2>3, Zenon DEF FullPairs
<1>7. AllowedOf(FullPairs(seeded)) = FullPairs(seeded)
  <2>1. \A ru \in FullPairs(seeded) : \E i \in DOMAIN tests : Covers(tests[i], ru[2])
    BY <1>1 DEF FullPairs, CoveredBy
  <2>2. QED
    BY <1>1, <1>5, <2>1, CoveredAllowed
<1>8. AllowedOf(MarkedFull)' = FullPairs(seeded)
  BY <1>3, <1>6, <1>7, Zenon DEF AllowedOf
<1>9. n \in Nat
  BY <1>5, TaggedFinite
<1>10. /\ handle.processed = Cardinality(TargetsUpTo(cur - 1))
       /\ handle.covered = Cardinality(AllowedOf(TargetsUpTo(cur - 1)))
       /\ handle.processed \in Nat /\ handle.covered \in Nat
  BY <1>1, CountingTypes DEF CountedInv, TargetsBehind, HorizontalPcs, VerticalPcs, RelationPcs
<1> HIDE DEF n
<1>11. handle'.processed = handle.processed + n /\ handle'.covered = handle.covered + n
  BY <1>1, <1>2, CounterFields
<1>12. UnreportedProcessed' = 0 /\ UnreportedCovered' = 0
  BY <1>2 DEF UnreportedProcessed, UnreportedCovered
<1>13. /\ TargetsUpTo(cur - 1)' = TargetsUpTo(cur - 1)
       /\ AllowedOf(TargetsUpTo(cur - 1))' = AllowedOf(TargetsUpTo(cur - 1))
  BY <1>3, BehindKept
<1>14. /\ handle'.processed + UnreportedProcessed' =
              Cardinality(TargetsUpTo(cur - 1)) + n
       /\ handle'.covered + UnreportedCovered' =
              Cardinality(AllowedOf(TargetsUpTo(cur - 1))) + n
  BY <1>9, <1>10, <1>11, <1>12
<1>15. /\ handle'.processed + UnreportedProcessed' =
              Cardinality(TargetsUpTo(cur - 1)') + Cardinality(MarkedFull')
       /\ handle'.covered + UnreportedCovered' =
              Cardinality(AllowedOf(TargetsUpTo(cur - 1))') + Cardinality(AllowedOf(MarkedFull)')
  BY <1>6, <1>8, <1>13, <1>14, Zenon DEF n
<1>16. QED
  BY <1>15, Zenon DEF CountingInv

\* The horizontal extension counts what it gains.
LEMMA HorizontalCounted ==
    ASSUME IInv, CountingInv, [Next]_vars, pc \in HorizontalPcs,
           pc' \in HorizontalPcs
    PROVE  CountingInv'
<1>1. hx \in HorizontalLocals /\ pc \in HorizontalPcs \cup VerticalPcs
  BY DEF IInv, TypeOK
<1>2. ASSUME hx'.gainedFull = hx.gainedFull, handle' = handle, uncovered' = uncovered
      PROVE  CountingInv'
  <2>1. /\ UnreportedProcessed' = UnreportedProcessed
        /\ UnreportedCovered' = UnreportedCovered
    BY <1>2 DEF UnreportedProcessed, UnreportedCovered
  <2>2. QED
    BY <1>1, <1>2, <2>1, CountingSame
<1>3. CASE SelectSeededValue \/ SelectBestValue
  <2>1. PICK v : Pick(v)
    BY <1>3 DEF SelectSeededValue, SelectBestValue
  <2>2. \E o : hx' = [hx EXCEPT !.selected = v, !.lastPicked = v, !.options = o]
    BY <2>1, Zenon DEF Pick
  <2>3. hx'.gainedFull = hx.gainedFull
    BY <1>1, <2>2, GainedLocals
  <2>4. QED
    BY <1>2, <1>3, <2>3 DEF SelectSeededValue, SelectBestValue, mapVars
<1>4. CASE SelectNoValue
  <2>1. hx'.gainedFull = hx.gainedFull
    BY <1>1, <1>4, GainedLocals DEF SelectNoValue
  <2>2. QED
    BY <1>2, <1>4, <2>1 DEF SelectNoValue, mapVars
<1>5. CASE CommitNoValue
  <2>1. hx'.gainedFull = hx.gainedFull
    BY <1>1, <1>5, GainedLocals DEF CommitNoValue
  <2>2. QED
    BY <1>2, <1>5, <2>1 DEF CommitNoValue, mapVars
<1>6. CASE CommitValue
  <2> DEFINE t == Assign(tests[hx.ti], cur, hx.selected)
             newly == {ru \in uncovered : Covers(t, ru[2])}
             n == Cardinality(FullPairs(newly))
  <2>1. /\ uncovered' = uncovered \ newly /\ handle' = handle
        /\ \E d, a : hx' = [hx EXCEPT !.ti = d, !.gained = a, !.gainedFull = @ + n]
        /\ tests' = [tests EXCEPT ![hx.ti] = t]
    BY <1>6, Zenon DEF CommitValue
  <2>2. newly \in SUBSET uncovered /\ newly \in SUBSET (Rels \X Tuples)
    BY DEF IInv, TypeOK
  <2>3. hx.ti \in DOMAIN tests /\ tests \in Seq(PartialTests)
    BY <1>6 DEF CommitValue, IInv, HorizontalInv, TypeOK, TestSeqs
  <2>4. hx.ti \in DOMAIN tests' /\ tests'[hx.ti] = t
    BY <2>1, <2>3
  <2>5. \A ru \in newly : \E i \in DOMAIN tests' : Covers(tests'[i], ru[2])
    BY <2>4
  <2>6. allowed' = allowed /\ IInv' /\ pc' \notin {"init", "filter"}
    BY StepIInv, ClientStep DEF HorizontalPcs
  <2> HIDE DEF newly
  <2>7. \A ru \in newly : TupleAllowed(allowed, ru[2])
    <3>1. TAKE ru \in newly
    <3>2. PICK i \in DOMAIN tests' : Covers(tests'[i], ru[2])
      BY <2>5
    <3>3. Extendable(allowed, tests'[i])
      BY <2>6, <3>2 DEF IInv, TestsExtendable
    <3>4. ru[2] \in Tuples /\ allowed \subseteq FullTests
      BY <2>2, InputAssumption DEF IInv, TypeOK
    <3>5. QED
      BY <3>2, <3>3, <3>4, CoveredTupleAllowed
  <2>8. AllowedOf(FullPairs(newly)) = FullPairs(newly)
    BY <2>7 DEF AllowedOf, FullPairs
  <2>9. n \in Nat /\ hx.gainedFull \in Nat /\ handle.processed \in Nat /\ handle.covered \in Nat
    <3>1. FullPairs(newly) \in SUBSET (Rels \X Tuples)
      BY <2>2 DEF FullPairs
    <3>2. QED
      BY <3>1, TaggedFinite, CountingTypes
  <2>10. hx'.gainedFull = hx.gainedFull + n
    <3> DEFINE e == hx.gainedFull + n
    <3>1. \E d, a : hx' = [hx EXCEPT !.ti = d, !.gained = a, !.gainedFull = e]
      BY <1>1, <2>1
    <3> HIDE DEF e
    <3>2. hx'.gainedFull = e
      BY <1>1, <3>1, GainedLocals
    <3>3. QED
      BY <3>2 DEF e
  <2>11. /\ handle'.processed + UnreportedProcessed' =
               handle.processed + UnreportedProcessed + Cardinality(FullPairs(newly))
         /\ handle'.covered + UnreportedCovered' =
               handle.covered + UnreportedCovered + Cardinality(AllowedOf(FullPairs(newly)))
    <3>1. /\ UnreportedProcessed = hx.gainedFull /\ UnreportedProcessed' = hx.gainedFull + n
          /\ UnreportedCovered = hx.gainedFull /\ UnreportedCovered' = hx.gainedFull + n
      BY <2>10 DEF UnreportedProcessed, UnreportedCovered
    <3> HIDE DEF n
    <3>2. /\ handle'.processed + UnreportedProcessed' =
                 handle.processed + UnreportedProcessed + n
          /\ handle'.covered + UnreportedCovered' =
                 handle.covered + UnreportedCovered + n
      BY <2>1, <2>9, <3>1
    <3>3. QED
      BY <2>8, <3>2, Zenon DEF n
  <2>12. QED
    BY <1>1, <2>1, <2>2, <2>11, CountingKept
<1>7. CASE UNCHANGED <<pc, hx, handle, uncovered>>
  BY <1>2, <1>7
<1>8. QED
  <2>1. \/ SelectSeededValue \/ SelectBestValue \/ SelectNoValue
        \/ CommitValue \/ CommitNoValue \/ UNCHANGED <<pc, hx, handle, uncovered>>
    BY StepCases, Zenon
    DEF vars, mapVars, Abort, EnterConstruction, EraseInvalidSeed, CountCombinations,
        CreatePrefixTest, PrefixDone, CountPrefixParameter, LeaveLoop, SingleValuedParameter,
        BeginParameter, FinishHorizontal, StartRelation, NextCombo, RejectTuple,
        InjectIntoMatchingTest, InjectIntoDontCareTest, AddTest, TakeTuple, AfterTuple, EndCombo,
        EndRelation, FinishVertical, AdvanceRelations, ReplaceDontCareValues, Publish,
        HorizontalPcs
  <2>2. QED
    BY <1>3, <1>4, <1>5, <1>6, <1>7, <2>1

\* Whether the relation visited is at full strength does not change meanwhile.
LEMMA FullKept ==
    ASSUME [Next]_vars, pc \in HorizontalPcs \cup VerticalPcs, vx'.rel = vx.rel
    PROVE  AtFullStrength(vx.rel)' = AtFullStrength(vx.rel)
<1>1. idx' = idx
  BY MapsKept DEF loopVars
<1>2. QED
  BY <1>1, Zenon DEF AtFullStrength, CurrentStrength

\* A step of the visit of a relation that marks pairs of it covered, and counts
\* them.
LEMMA VisitCounted ==
    ASSUME IInv, CountingInv, [Next]_vars, pc \in RelationPcs, pc' \in RelationPcs,
           NEW N \in SUBSET uncovered, uncovered' = uncovered \ N,
           \A ru \in N : ru[1] = vx.rel,
           handle' = handle, vx'.rel = vx.rel,
           vx'.totalFull = vx.totalFull, vx'.newlyFull = vx.newlyFull,
           vx'.checked = vx.checked + Cardinality(N),
           vx'.newly = vx.newly + Cardinality(AllowedOf(N))
    PROVE  CountingInv'
<1>1. pc \in HorizontalPcs \cup VerticalPcs /\ pc \notin HorizontalPcs /\ pc' \notin HorizontalPcs
  BY DEF HorizontalPcs, VerticalPcs, RelationPcs
<1>2. AtFullStrength(vx.rel)' = AtFullStrength(vx.rel)
  BY <1>1, FullKept
<1>3. Cardinality(N) \in Nat /\ Cardinality(AllowedOf(N)) \in Nat
  <2>1. N \in SUBSET (Rels \X Tuples) /\ AllowedOf(N) \in SUBSET (Rels \X Tuples)
    BY DEF IInv, TypeOK, AllowedOf
  <2>2. QED
    BY <2>1, TaggedFinite
<1>4. /\ handle.processed \in Nat /\ handle.covered \in Nat
      /\ vx.totalFull \in Nat /\ vx.newlyFull \in Nat
      /\ vx.checked \in Nat /\ vx.newly \in Nat
  BY CountingTypes
<1>5. CASE AtFullStrength(vx.rel)
  <2>1. FullPairs(N) = N
    BY <1>5, FullOfOne
  <2>2. /\ UnreportedProcessed = vx.totalFull + vx.checked
        /\ UnreportedCovered = vx.newlyFull + vx.newly
    BY <1>1, <1>5 DEF UnreportedProcessed, UnreportedCovered
  <2>3. /\ UnreportedProcessed' = vx'.totalFull + vx'.checked
        /\ UnreportedCovered' = vx'.newlyFull + vx'.newly
    BY <1>1, <1>2, <1>5 DEF UnreportedProcessed, UnreportedCovered
  <2>4. /\ handle'.processed + UnreportedProcessed' =
               handle.processed + UnreportedProcessed + Cardinality(N)
        /\ handle'.covered + UnreportedCovered' =
               handle.covered + UnreportedCovered + Cardinality(AllowedOf(N))
    BY <1>3, <1>4, <2>2, <2>3
  <2>5. QED
    BY <1>1, <2>1, <2>4, CountingKept
<1>6. CASE ~AtFullStrength(vx.rel)
  <2>1. FullPairs(N) = {} /\ AllowedOf({}) = {} /\ Cardinality({}) = 0
    BY <1>6, FullOfOne, FS_EmptySet DEF AllowedOf
  <2>2. UnreportedProcessed = vx.totalFull /\ UnreportedCovered = vx.newlyFull
    BY <1>1, <1>4, <1>6 DEF UnreportedProcessed, UnreportedCovered
  <2>3. UnreportedProcessed' = vx.totalFull /\ UnreportedCovered' = vx.newlyFull
    BY <1>1, <1>2, <1>4, <1>6 DEF UnreportedProcessed, UnreportedCovered
  <2>4. /\ handle'.processed + UnreportedProcessed' =
               handle.processed + UnreportedProcessed + 0
        /\ handle'.covered + UnreportedCovered' = handle.covered + UnreportedCovered + 0
    BY <1>4, <2>2, <2>3
  <2>5. QED
    BY <1>1, <2>1, <2>4, CountingKept
<1>7. QED
  BY <1>5, <1>6

\* The vertical extension counts what it checks.
LEMMA VerticalCounted ==
    ASSUME IInv, CountingInv, [Next]_vars, pc' \in VerticalPcs
    PROVE  CountingInv'
<1>1. /\ hx \in HorizontalLocals /\ vx \in VerticalLocals /\ handle \in Counters
      /\ uncovered \in SUBSET (Rels \X Tuples)
  BY DEF IInv, TypeOK
<1>2. pc \in HorizontalPcs \cup VerticalPcs
  BY PcStep DEF IInv, TypeOK, BeginParameter, VerticalPcs, RelationPcs
<1>3. /\ handle.processed \in Nat /\ handle.covered \in Nat /\ hx.gainedFull \in Nat
      /\ vx.totalFull \in Nat /\ vx.newlyFull \in Nat
      /\ vx.checked \in Nat /\ vx.newly \in Nat
  BY CountingTypes
<1>4. CASE FinishHorizontal
  <2>1. /\ pc \in HorizontalPcs /\ pc' = "relation" /\ uncovered' = uncovered
        /\ vx'.totalFull = 0 /\ vx'.newlyFull = 0
    BY <1>4 DEF FinishHorizontal, HorizontalPcs, VerticalPcs, RelationPcs, NoVertical
  <2>2. /\ handle'.processed = handle.processed + hx.gainedFull
        /\ handle'.covered = handle.covered + hx.gainedFull
    BY <1>1, <1>4, CounterFields DEF FinishHorizontal
  <2>3. UnreportedProcessed = hx.gainedFull /\ UnreportedCovered = hx.gainedFull
    BY <2>1 DEF UnreportedProcessed, UnreportedCovered
  <2>4. UnreportedProcessed' = 0 /\ UnreportedCovered' = 0
    BY <2>1 DEF UnreportedProcessed, UnreportedCovered, HorizontalPcs, RelationPcs
  <2>5. /\ handle'.processed + UnreportedProcessed' = handle.processed + UnreportedProcessed
        /\ handle'.covered + UnreportedCovered' = handle.covered + UnreportedCovered
    BY <1>3, <2>2, <2>3, <2>4
  <2>6. QED
    BY <1>2, <2>1, <2>5, CountingSame
<1>5. CASE StartRelation
  <2>1. PICK r \in vx.pending :
            vx' = [vx EXCEPT !.pending = @ \ {r}, !.rel = r, !.combos = MapCombos(r),
                             !.checked = 0, !.newly = 0]
    BY <1>5 DEF StartRelation
  <2>2. /\ vx'.totalFull = vx.totalFull /\ vx'.newlyFull = vx.newlyFull
        /\ vx'.checked = 0 /\ vx'.newly = 0
    BY <1>1, <2>1 DEF VerticalLocals
  <2>3. pc = "relation" /\ pc' = "combo" /\ uncovered' = uncovered /\ handle' = handle
    BY <1>5 DEF StartRelation, mapVars
  <2>4. UnreportedProcessed = vx.totalFull /\ UnreportedCovered = vx.newlyFull
    BY <1>3, <2>3 DEF UnreportedProcessed, UnreportedCovered, HorizontalPcs, RelationPcs
  <2>5. UnreportedProcessed' = vx.totalFull /\ UnreportedCovered' = vx.newlyFull
    BY <1>3, <2>2, <2>3 DEF UnreportedProcessed, UnreportedCovered, HorizontalPcs
  <2>6. QED
    BY <1>2, <2>3, <2>4, <2>5, CountingSame
<1>6. CASE NextCombo
  <2>1. PICK S :
            LET newly == CoveredBy(UncoveredOf(S), vx.modified)
            IN /\ newly \in SUBSET uncovered
               /\ uncovered' = uncovered \ newly
               /\ vx'.rel = vx.rel
               /\ vx'.checked = vx.checked + Cardinality(newly)
               /\ vx'.newly = vx.newly + Cardinality(newly)
               /\ vx'.totalFull = vx.totalFull /\ vx'.newlyFull = vx.newlyFull
               /\ pc' = "tuple"
    BY <1>6, ComboStep
  <2> DEFINE N == CoveredBy(UncoveredOf(S), vx.modified)
  <2>2. \A ru \in N : ru[1] = vx.rel
    BY DEF CoveredBy, UncoveredOf
  <2>3. pc \in RelationPcs /\ handle' = handle /\ pc \notin {"init", "filter"}
    BY <1>6 DEF NextCombo, RelationPcs
  <2>4. AllowedOf(N) = N
    <3>1. vx.modified \subseteq DOMAIN tests
      BY <2>3 DEF IInv, IndicesInv, VerticalPcs
    <3>2. \A ru \in N : \E i \in DOMAIN tests : Covers(tests[i], ru[2])
      BY <3>1 DEF CoveredBy
    <3>3. N \in SUBSET (Rels \X Tuples)
      BY <1>1, <2>1
    <3> HIDE DEF N
    <3>4. QED
      BY <2>3, <3>2, <3>3, CoveredAllowed
  <2>5. /\ N \in SUBSET uncovered /\ uncovered' = uncovered \ N
        /\ vx'.rel = vx.rel
        /\ vx'.checked = vx.checked + Cardinality(N)
        /\ vx'.newly = vx.newly + Cardinality(N)
        /\ vx'.totalFull = vx.totalFull /\ vx'.newlyFull = vx.newlyFull
        /\ pc' \in RelationPcs
    BY <2>1 DEF RelationPcs
  <2> HIDE DEF N
  <2>6. QED
    BY <2>2, <2>3, <2>4, <2>5, VisitCounted
<1>7. CASE RejectTuple \/ InjectIntoMatchingTest \/ InjectIntoDontCareTest \/ AddTest
  <2>1. PICK u \in Tuples :
            /\ <<vx.rel, u>> \in uncovered
            /\ uncovered' = uncovered \ {<<vx.rel, u>>}
            /\ vx'.rel = vx.rel /\ vx'.checked = vx.checked + 1
            /\ \/ ~TupleAllowed(allowed, u) /\ vx'.newly = vx.newly
               \/ /\ \E i \in DOMAIN tests' : Covers(tests'[i], u)
                  /\ vx'.newly = vx.newly + 1
            /\ vx'.totalFull = vx.totalFull /\ vx'.newlyFull = vx.newlyFull
            /\ pc' = AfterTuple
    BY <1>7, CheckedStep
  <2>2. pc \in RelationPcs /\ pc' \in RelationPcs /\ handle' = handle
    BY <1>7, <2>1 DEF RejectTuple, InjectIntoMatchingTest, InjectIntoDontCareTest, AddTest,
                      AfterTuple, RelationPcs
  <2> DEFINE N == {<<vx.rel, u>>}
  <2>3. /\ N \in SUBSET uncovered /\ uncovered' = uncovered \ N
        /\ (\A ru \in N : ru[1] = vx.rel) /\ Cardinality(N) = 1
    <3>1. Cardinality(N) = 1
      BY FS_Singleton, Zenon
    <3>2. QED
      BY <2>1, <3>1
  <2>4. vx'.newly = vx.newly + Cardinality(AllowedOf(N))
    <3>1. CASE ~TupleAllowed(allowed, u) /\ vx'.newly = vx.newly
      <4>1. AllowedOf(N) = {}
        BY <3>1 DEF AllowedOf
      <4>2. QED
        BY <1>3, <3>1, <4>1, FS_EmptySet
    <3>2. CASE /\ \E i \in DOMAIN tests' : Covers(tests'[i], u)
               /\ vx'.newly = vx.newly + 1
      <4>1. PICK i \in DOMAIN tests' : Covers(tests'[i], u)
        BY <3>2
      <4>2. allowed' = allowed /\ IInv' /\ pc' \notin {"init", "filter"}
        BY <2>2, StepIInv, ClientStep DEF RelationPcs
      <4>3. Extendable(allowed, tests'[i]) /\ allowed \subseteq FullTests
        BY <4>1, <4>2, InputAssumption DEF IInv, TestsExtendable, TypeOK
      <4>4. TupleAllowed(allowed, u)
        BY <2>1, <4>1, <4>3, CoveredTupleAllowed
      <4>5. AllowedOf(N) = N
        BY <4>4 DEF AllowedOf
      <4>6. QED
        BY <2>3, <3>2, <4>5
    <3>3. QED
      BY <2>1, <3>1, <3>2
  <2>5. vx'.checked = vx.checked + Cardinality(N)
    BY <2>1, <2>3
  <2> HIDE DEF N
  <2>6. QED
    BY <2>1, <2>2, <2>3, <2>4, <2>5, VisitCounted
<1>8. CASE EndCombo
  <2>1. /\ pc \in RelationPcs /\ pc' \in RelationPcs
        /\ vx' = vx /\ handle' = handle /\ uncovered' = uncovered
    BY <1>8 DEF EndCombo, mapVars, RelationPcs
  <2>2. AtFullStrength(vx.rel)' = AtFullStrength(vx.rel)
    BY <1>2, <2>1, FullKept
  <2>3. /\ UnreportedProcessed' = UnreportedProcessed
        /\ UnreportedCovered' = UnreportedCovered
    BY <2>1, <2>2 DEF UnreportedProcessed, UnreportedCovered, HorizontalPcs, RelationPcs
  <2>4. QED
    BY <1>2, <2>1, <2>3, CountingSame
<1>9. CASE EndRelation
  <2> DEFINE full == AtFullStrength(vx.rel)
             m == vx.totalFull + (IF full THEN vx.checked ELSE 0)
             k == vx.newlyFull + (IF full THEN vx.newly ELSE 0)
  <2>1. /\ vx' = [vx EXCEPT !.total = @ + vx.checked, !.totalFull = @ + (IF full THEN vx.checked ELSE 0),
                            !.newlyFull = @ + (IF full THEN vx.newly ELSE 0)]
        /\ pc = "relationDone" /\ pc' \in {"verticalDone", "relation"}
        /\ handle' = handle /\ uncovered' = uncovered
    BY <1>9 DEF EndRelation, mapVars
  <2>2. \E n : vx' = [vx EXCEPT !.total = n, !.totalFull = m, !.newlyFull = k]
    BY <1>1, <2>1
  <2> HIDE DEF m, k
  <2>3. vx'.totalFull = m /\ vx'.newlyFull = k
    BY <1>1, <2>2, ComboLocals
  <2>4. UnreportedProcessed = m /\ UnreportedCovered = k
    BY <2>1 DEF UnreportedProcessed, UnreportedCovered, HorizontalPcs, RelationPcs, m, k
  <2>5. m \in Nat /\ k \in Nat
    BY <1>3 DEF m, k
  <2>6. UnreportedProcessed' = m /\ UnreportedCovered' = k
    BY <2>1, <2>3, <2>5 DEF UnreportedProcessed, UnreportedCovered, HorizontalPcs, RelationPcs
  <2>7. QED
    BY <1>2, <2>1, <2>4, <2>6, CountingSame
<1>10. CASE UNCHANGED <<pc, vx, handle, uncovered>>
  <2>1. AtFullStrength(vx.rel)' = AtFullStrength(vx.rel)
    BY <1>2, <1>10, FullKept
  <2>2. /\ UnreportedProcessed' = UnreportedProcessed
        /\ UnreportedCovered' = UnreportedCovered
    BY <1>10, <2>1 DEF UnreportedProcessed, UnreportedCovered, HorizontalPcs, VerticalPcs, RelationPcs
  <2>3. QED
    BY <1>2, <1>10, <2>2, CountingSame
<1>11. QED
  <2>1. \/ FinishHorizontal \/ StartRelation \/ NextCombo \/ RejectTuple
        \/ InjectIntoMatchingTest \/ InjectIntoDontCareTest \/ AddTest
        \/ EndCombo \/ EndRelation \/ UNCHANGED <<pc, vx, handle, uncovered>>
    BY StepCases, Zenon
    DEF vars, mapVars, Abort, EnterConstruction, EraseInvalidSeed, CountCombinations,
        CreatePrefixTest, PrefixDone, CountPrefixParameter, LeaveLoop, SingleValuedParameter,
        BeginParameter, SelectSeededValue, SelectBestValue, SelectNoValue, Pick, CommitValue,
        CommitNoValue, AfterCommit, FinishVertical, AdvanceRelations, ReplaceDontCareValues,
        Publish, VerticalPcs, RelationPcs
  <2>2. QED
    BY <1>4, <1>5, <1>6, <1>7, <1>8, <1>9, <1>10, <2>1

\* The counters are exact within a parameter.
LEMMA CountingStep ==
    ASSUME IInv, CountingInv, CountedInv, [Next]_vars
    PROVE  CountingInv'
<1>1. CASE pc' \in VerticalPcs
  BY <1>1, VerticalCounted
<1>2. CASE pc' \in HorizontalPcs
  <2>1. pc \in HorizontalPcs \/ BeginParameter
    BY <1>2, StepCases, Zenon
    DEF vars, Abort, EnterConstruction, EraseInvalidSeed, CountCombinations,
        CreatePrefixTest, PrefixDone, CountPrefixParameter, LeaveLoop, SingleValuedParameter,
        SelectSeededValue, SelectBestValue, SelectNoValue, CommitValue, CommitNoValue,
        FinishHorizontal, StartRelation, NextCombo, RejectTuple,
        InjectIntoMatchingTest, InjectIntoDontCareTest, AddTest, TakeTuple, AfterTuple, EndCombo,
        EndRelation, FinishVertical, AdvanceRelations, ReplaceDontCareValues, Publish,
        HorizontalPcs
  <2>2. QED
    BY <1>2, <2>1, HorizontalCounted, SeedsCounted
<1>3. CASE pc' \notin HorizontalPcs \cup VerticalPcs
  BY <1>3 DEF CountingInv
<1>4. QED
  BY <1>1, <1>2, <1>3

-------------------------------------------------------------------------------
(* Counting from parameter to parameter *)

\* The current parameter adds the pairs of its coverage maps that count.
LEMMA TargetsJoined ==
    ASSUME IInv, RelationsInv, cur <= NumUsed
    PROVE  /\ Cardinality(TargetsUpTo(cur)) =
                  Cardinality(TargetsUpTo(cur - 1)) + Cardinality(FullPairs(MapTuples))
           /\ Cardinality(AllowedOf(TargetsUpTo(cur))) =
                  Cardinality(AllowedOf(TargetsUpTo(cur - 1)))
                      + Cardinality(AllowedOf(FullPairs(MapTuples)))
<1> DEFINE A == TargetsUpTo(cur - 1)
           B == FullPairs(MapTuples)
<1>1. cur - 1 \in Nat /\ cur \in Nat /\ cur - 1 <= cur
  BY UsedFacts DEF IInv, TypeOK
<1>2. A \subseteq TargetsUpTo(cur) /\ TargetsUpTo(cur) \in SUBSET (Rels \X Tuples)
  BY <1>1, TargetsGrow
<1>3. TargetsUpTo(cur) = A \cup B /\ A \cap B = {}
  BY <1>2, NewTargets
<1> HIDE DEF A, B
<1>4. A \in SUBSET (Rels \X Tuples) /\ B \in SUBSET (Rels \X Tuples)
  BY <1>2, <1>3
<1>5. Cardinality(A \cup B) = Cardinality(A) + Cardinality(B)
  BY <1>3, <1>4, DisjointCount
<1>6. AllowedOf(A \cup B) = AllowedOf(A) \cup AllowedOf(B)
  BY DEF AllowedOf
<1>7. /\ AllowedOf(A) \in SUBSET (Rels \X Tuples) /\ AllowedOf(B) \in SUBSET (Rels \X Tuples)
      /\ AllowedOf(A) \cap AllowedOf(B) = {}
  BY <1>3, <1>4 DEF AllowedOf
<1>8. Cardinality(AllowedOf(A) \cup AllowedOf(B)) =
          Cardinality(AllowedOf(A)) + Cardinality(AllowedOf(B))
  BY <1>7, DisjointCount
<1>9. QED
  BY <1>3, <1>5, <1>6, <1>8 DEF A, B

\* What an extension has counted is no more than there is up to the current
\* parameter, and all of it if nothing is left to cover.
LEMMA CountedWithin ==
    ASSUME IInv, RelationsInv, CountingInv, pc \in HorizontalPcs \cup VerticalPcs
    PROVE  /\ handle.processed + UnreportedProcessed <= Cardinality(TargetsUpTo(cur))
           /\ uncovered = {} =>
                /\ handle.processed + UnreportedProcessed = Cardinality(TargetsUpTo(cur))
                /\ handle.covered + UnreportedCovered = Cardinality(AllowedOf(TargetsUpTo(cur)))
<1>1. cur <= NumUsed
  BY DEF IInv, CursorInv, BodyPcs
<1>2. MapTuples \in SUBSET (Rels \X Tuples)
  BY <1>1, MapTuplesNow
<1>3. FullPairs(MapTuples) \in SUBSET (Rels \X Tuples) /\ MarkedFull \in SUBSET FullPairs(MapTuples)
  BY <1>2 DEF MarkedFull, FullPairs
<1>4. uncovered = {} => MarkedFull = FullPairs(MapTuples)
  BY DEF MarkedFull
<1>5. /\ handle.processed + UnreportedProcessed =
             Cardinality(TargetsUpTo(cur - 1)) + Cardinality(MarkedFull)
      /\ handle.covered + UnreportedCovered =
             Cardinality(AllowedOf(TargetsUpTo(cur - 1))) + Cardinality(AllowedOf(MarkedFull))
  BY DEF CountingInv
<1>6. /\ Cardinality(MarkedFull) <= Cardinality(FullPairs(MapTuples))
      /\ Cardinality(MarkedFull) \in Nat /\ Cardinality(FullPairs(MapTuples)) \in Nat
      /\ Cardinality(TargetsUpTo(cur - 1)) \in Nat
  BY <1>3, PartCount, CountingTypes
<1>7. /\ Cardinality(TargetsUpTo(cur)) =
             Cardinality(TargetsUpTo(cur - 1)) + Cardinality(FullPairs(MapTuples))
      /\ Cardinality(AllowedOf(TargetsUpTo(cur))) =
             Cardinality(AllowedOf(TargetsUpTo(cur - 1)))
                 + Cardinality(AllowedOf(FullPairs(MapTuples)))
  BY <1>1, TargetsJoined
<1>8. handle.processed + UnreportedProcessed <= Cardinality(TargetsUpTo(cur))
  BY <1>5, <1>6, <1>7
<1>9. QED
  BY <1>4, <1>5, <1>7, <1>8, Zenon

\* How the handle is written.
LEMMA HandleWritten ==
    ASSUME IInv, [Next]_vars
    PROVE  /\ handle'.toProcess =
                 IF CountCombinations THEN Cardinality(TargetTuples) ELSE handle.toProcess
           /\ \/ CountPrefixParameter \/ SingleValuedParameter \/ BeginParameter
              \/ FinishHorizontal \/ FinishVertical
              \/ handle'.processed = handle.processed /\ handle'.covered = handle.covered
           /\ handle'.size =
                 IF PrefixDone \/ FinishHorizontal \/ FinishVertical
                 THEN Len(tests) ELSE handle.size
<1>1. handle \in Counters
  BY DEF IInv, TypeOK
<1> DEFINE Same == /\ handle'.processed = handle.processed
                   /\ handle'.covered = handle.covered
<1>2. ASSUME EnterConstruction
      PROVE  /\ pc = "init" /\ Same /\ handle'.toProcess = handle.toProcess
             /\ handle'.size = handle.size
  BY <1>1, <1>2, CounterFields DEF EnterConstruction
<1>3. ASSUME CountCombinations
      PROVE  /\ pc = "filter" /\ Same /\ handle'.toProcess = Cardinality(TargetTuples)
             /\ handle'.size = handle.size
  <2> DEFINE n == IF aborted /\ tests # <<>> THEN handle.paramsToProcess ELSE NumUsed
             m == Cardinality(TargetTuples)
  <2>1. handle' = [handle EXCEPT !.toProcess = m, !.paramsToProcess = n] /\ pc = "filter"
    BY <1>3 DEF CountCombinations
  <2> HIDE DEF n, m
  <2>2. Same /\ handle'.toProcess = m /\ handle'.size = handle.size
    BY <1>1, <2>1, CounterFields
  <2>3. QED
    BY <2>1, <2>2 DEF m
<1>4. ASSUME PrefixDone
      PROVE  /\ pc = "prefix" /\ Same /\ handle'.toProcess = handle.toProcess
             /\ handle'.size = Len(tests)
  BY <1>1, <1>4, CounterFields DEF PrefixDone
<1>5. ASSUME AdvanceRelations
      PROVE  /\ pc = "advance" /\ Same /\ handle'.toProcess = handle.toProcess
             /\ handle'.size = handle.size
  BY <1>1, <1>5, CounterFields DEF AdvanceRelations
<1>6. ASSUME CountPrefixParameter
      PROVE  /\ pc = "countPrefix" /\ handle'.toProcess = handle.toProcess
             /\ handle'.size = handle.size
  <2>1. (\E a, b : handle' = [handle EXCEPT !.processed = a, !.covered = b]) /\ pc = "countPrefix"
    BY <1>6, Zenon DEF CountPrefixParameter
  <2>2. QED
    BY <1>1, <2>1, CounterFields
<1>7. ASSUME SingleValuedParameter \/ BeginParameter
      PROVE  /\ pc = "param" /\ handle'.toProcess = handle.toProcess
             /\ handle'.size = handle.size
  <2>1. (\E a, b : handle' = [handle EXCEPT !.processed = a, !.covered = b]) /\ pc = "param"
    BY <1>7, Zenon DEF SingleValuedParameter, BeginParameter
  <2>2. QED
    BY <1>1, <2>1, CounterFields
<1>8. ASSUME FinishHorizontal \/ FinishVertical
      PROVE  /\ pc \in {"horizontalDone", "verticalDone"}
             /\ handle'.toProcess = handle.toProcess /\ handle'.size = Len(tests)
  <2>1. CASE FinishHorizontal
    BY <1>1, <2>1, CounterFields DEF FinishHorizontal
  <2>2. CASE FinishVertical
    BY <1>1, <2>2, CounterFields DEF FinishVertical
  <2>3. QED
    BY <1>8, <2>1, <2>2
<1>9. ASSUME handle' = handle, ~(PrefixDone \/ FinishHorizontal \/ FinishVertical \/ CountCombinations)
      PROVE  /\ Same /\ handle'.toProcess = handle.toProcess /\ handle'.size = handle.size
  BY <1>9
<1> HIDE DEF Same
<1>10. \/ EnterConstruction \/ CountCombinations \/ PrefixDone \/ AdvanceRelations
       \/ CountPrefixParameter \/ SingleValuedParameter \/ BeginParameter
       \/ FinishHorizontal \/ FinishVertical
       \/ handle' = handle /\ ~(PrefixDone \/ FinishHorizontal \/ FinishVertical \/ CountCombinations)
  BY StepCases, Zenon
  DEF vars, Abort, EraseInvalidSeed, CreatePrefixTest, LeaveLoop,
      SelectSeededValue, SelectBestValue, SelectNoValue, CommitValue, CommitNoValue,
      StartRelation, NextCombo, RejectTuple, InjectIntoMatchingTest, InjectIntoDontCareTest,
      AddTest, EndCombo, EndRelation, ReplaceDontCareValues, Publish
<1>11. /\ CountCombinations => pc = "filter"
       /\ PrefixDone => pc = "prefix"
       /\ FinishHorizontal => pc = "horizontalDone"
       /\ FinishVertical => pc = "verticalDone"
  BY DEF CountCombinations, PrefixDone, FinishHorizontal, FinishVertical
<1>12. QED
  <2>1. CASE EnterConstruction
    <3>1. ~(CountCombinations \/ PrefixDone \/ FinishHorizontal \/ FinishVertical)
      BY <1>2, <1>11, <2>1
    <3>2. QED
      BY <1>2, <2>1, <3>1, Zenon DEF Same
  <2>2. CASE CountCombinations
    <3>1. ~(PrefixDone \/ FinishHorizontal \/ FinishVertical)
      BY <1>3, <1>11, <2>2
    <3>2. QED
      BY <1>3, <2>2, <3>1, Zenon DEF Same
  <2>3. CASE PrefixDone
    <3>1. ~CountCombinations
      BY <1>4, <1>11, <2>3
    <3>2. QED
      BY <1>4, <2>3, <3>1, Zenon DEF Same
  <2>4. CASE AdvanceRelations
    <3>1. ~(CountCombinations \/ PrefixDone \/ FinishHorizontal \/ FinishVertical)
      BY <1>5, <1>11, <2>4
    <3>2. QED
      BY <1>5, <2>4, <3>1, Zenon DEF Same
  <2>5. CASE CountPrefixParameter
    <3>1. ~(CountCombinations \/ PrefixDone \/ FinishHorizontal \/ FinishVertical)
      BY <1>6, <1>11, <2>5
    <3>2. QED
      BY <1>6, <2>5, <3>1, Zenon
  <2>6. CASE SingleValuedParameter \/ BeginParameter
    <3>1. ~(CountCombinations \/ PrefixDone \/ FinishHorizontal \/ FinishVertical)
      BY <1>7, <1>11, <2>6
    <3>2. QED
      BY <1>7, <2>6, <3>1, Zenon
  <2>7. CASE FinishHorizontal \/ FinishVertical
    <3>1. ~CountCombinations
      BY <1>8, <1>11, <2>7
    <3>2. QED
      BY <1>8, <2>7, <3>1, Zenon
  <2>8. CASE handle' = handle /\ ~(PrefixDone \/ FinishHorizontal \/ FinishVertical \/ CountCombinations)
    BY <1>9, <2>8, Zenon DEF Same
  <2>9. QED
    BY <1>10, <2>1, <2>2, <2>3, <2>4, <2>5, <2>6, <2>7, <2>8
\* An aborted job stays aborted.
LEMMA AbortStays == [Next]_vars /\ aborted => aborted'
BY StepCases, Zenon
DEF vars, jobVars, Abort, EnterConstruction, EraseInvalidSeed, CountCombinations,
    CreatePrefixTest, PrefixDone, CountPrefixParameter, LeaveLoop, SingleValuedParameter,
    BeginParameter, SelectSeededValue, SelectBestValue, SelectNoValue, CommitValue,
    CommitNoValue, FinishHorizontal, StartRelation, NextCombo, RejectTuple,
    InjectIntoMatchingTest, InjectIntoDontCareTest, AddTest, EndCombo, EndRelation,
    FinishVertical, AdvanceRelations, ReplaceDontCareValues, Publish

\* The pairs that count are counted when a parameter of the prefix is.
LEMMA PrefixCounted ==
    ASSUME NoneReachedEarly, IInv, RelationsInv, CoverageInv, CountedInv, [Next]_vars,
           CountPrefixParameter
    PROVE  /\ handle'.processed = Cardinality(TargetsUpTo(cur))
           /\ ~aborted => handle'.covered = Cardinality(AllowedOf(TargetsUpTo(cur)))
<1>1. /\ pc = "countPrefix" /\ cur <= FirstParamIdx /\ cur \in Nat /\ cur >= 1
      /\ handle \in Counters /\ FirstParamIdx \in Nat
  BY UsedFacts, FirstParamIdxType DEF CountPrefixParameter, IInv, TypeOK, CursorInv
<1>2. TargetsUpTo(cur - 1) = {} /\ PrefixReport = TargetsUpTo(cur)
  BY <1>1, NoneBefore, PrefixTargets
<1>3. AllowedOf(TargetsUpTo(cur - 1)) = {} /\ Cardinality({}) = 0
  BY <1>2, FS_EmptySet DEF AllowedOf
<1>4. /\ handle.processed = 0
      /\ ~aborted => handle.covered = 0
  <2>1. /\ handle.processed <= Cardinality(TargetsUpTo(cur - 1))
        /\ ~aborted => handle.covered = Cardinality(AllowedOf(TargetsUpTo(cur - 1)))
    BY <1>1 DEF CountedInv, TargetsBehind, HorizontalPcs, VerticalPcs, RelationPcs
  <2>2. handle.processed \in Nat
    BY <1>1 DEF Counters
  <2>3. /\ Cardinality(TargetsUpTo(cur - 1)) = 0
        /\ Cardinality(AllowedOf(TargetsUpTo(cur - 1))) = 0
    BY <1>2, <1>3, Zenon
  <2>4. QED
    BY <2>1, <2>2, <2>3
<1> DEFINE T == TargetsUpTo(cur)
           C == CoveredBy(T, DOMAIN tests)
<1>5. T \in SUBSET (Rels \X Tuples) /\ T \subseteq TargetTuples
  BY TargetsGrow
<1>6. handle' = [handle EXCEPT !.processed = @ + Cardinality(T), !.covered = @ + Cardinality(C)]
  <2>1. handle' = [handle EXCEPT
             !.processed = @ + Cardinality(PrefixReport),
             !.covered = @ + Cardinality(CoveredBy(PrefixReport, DOMAIN tests))]
    BY Zenon DEF CountPrefixParameter, PrefixReport
  <2>2. QED
    BY <1>2, <2>1, Zenon
<1>7. ~aborted => C = AllowedOf(T)
  <2> SUFFICES ASSUME ~aborted PROVE C = AllowedOf(T)
    OBVIOUS
  <2>1. CoveredUpTo(allowed, tests, FirstParamIdx)
    BY <1>1 DEF CoverageInv
  <2>2. C \in SUBSET (Rels \X Tuples) /\ C \subseteq T
    BY <1>5 DEF CoveredBy
  <2>3. \A ru \in C : \E i \in DOMAIN tests : Covers(tests[i], ru[2])
    BY DEF CoveredBy
  <2> HIDE DEF C
  <2>4. AllowedOf(C) = C
    BY <1>1, <2>2, <2>3, CoveredAllowed
  <2>5. C \subseteq AllowedOf(T)
    BY <2>2, <2>4 DEF AllowedOf
  <2>6. ASSUME NEW ru \in AllowedOf(T) PROVE ru \in C
    <3>1. ru \in TargetTuples /\ DOMAIN ru[2] \subseteq 1 .. cur /\ TupleAllowed(allowed, ru[2])
      BY <2>6 DEF AllowedOf, TargetsUpTo
    <3>2. /\ ru[1] \in Rels /\ DOMAIN ru[2] \in SUBSET RelParams(ru[1])
          /\ Cardinality(DOMAIN ru[2]) = Relations[ru[1]].strength
          /\ Relations[ru[1]].strength \in Nat
          /\ ru[2] \in TuplesOf(DOMAIN ru[2])
      BY <3>1, TargetPair
    <3>3. DOMAIN ru[2] \in SUBSET (RelParams(ru[1]) \cap (1 .. FirstParamIdx))
      <4>1. 1 .. cur \subseteq 1 .. FirstParamIdx
        BY <1>1
      <4>2. QED
        BY <3>1, <3>2, <4>1
    <3>4. Cardinality(DOMAIN ru[2]) <= Relations[ru[1]].strength
      BY <3>2
    <3>5. \E i \in DOMAIN tests : Covers(tests[i], ru[2])
      BY <2>1, <3>1, <3>2, <3>3, <3>4 DEF CoveredUpTo
    <3>6. QED
      BY <2>6, <3>5 DEF C, CoveredBy, AllowedOf
  <2>7. QED
    BY <2>5, <2>6
<1>8. Cardinality(T) \in Nat /\ (~aborted => Cardinality(C) \in Nat)
  BY <1>5, <1>7, TaggedFinite DEF AllowedOf
<1> HIDE DEF T, C
<1>9. /\ handle'.processed = handle.processed + Cardinality(T)
      /\ handle'.covered = handle.covered + Cardinality(C)
  BY <1>1, <1>6, CounterFields
<1>10. handle'.processed = Cardinality(T) /\ (~aborted => handle'.covered = Cardinality(C))
  BY <1>4, <1>8, <1>9
<1>11. QED
  BY <1>7, <1>10 DEF T

\* A parameter with one value is counted as a whole.
LEMMA SingleCounted ==
    ASSUME IInv, RelationsInv, CoverageInv, CountedInv, [Next]_vars, SingleValuedParameter
    PROVE  /\ handle'.processed = Cardinality(TargetsUpTo(cur))
           /\ handle'.covered = Cardinality(AllowedOf(TargetsUpTo(cur)))
<1>1. /\ pc = "param" /\ ~aborted /\ cur <= NumUsed /\ cur \in Nat /\ cur >= 1
      /\ handle \in Counters /\ pc' = "advance"
  BY UsedFacts DEF SingleValuedParameter, IInv, TypeOK, CursorInv
<1>2. /\ handle.processed = Cardinality(TargetsUpTo(cur - 1))
      /\ handle.covered = Cardinality(AllowedOf(TargetsUpTo(cur - 1)))
  BY <1>1 DEF CountedInv, TargetsBehind, HorizontalPcs, VerticalPcs, RelationPcs
<1> DEFINE F == FullPairs(MapTuples)
           C == {ru \in F : \E i \in DOMAIN tests : Covers(tests'[i], ru[2])}
<1>3. handle' = [handle EXCEPT !.processed = @ + Cardinality(F), !.covered = @ + Cardinality(C)]
  BY Zenon DEF SingleValuedParameter
<1>4. F \in SUBSET (Rels \X Tuples) /\ F = TargetsUpTo(cur) \ TargetsUpTo(cur - 1)
  BY <1>1, NewTargets, TargetsGrow
<1>5. DOMAIN tests' = DOMAIN tests
  BY DEF SingleValuedParameter
<1>6. CoveredUpTo(allowed, tests', cur)
  BY <1>1, SingleValueSuffices DEF CoverageInv, BeforePcs
<1>7. IInv' /\ allowed' = allowed
  BY StepIInv, ClientStep
<1> HIDE DEF F
<1>8. ASSUME NEW ru \in C PROVE ru \in AllowedOf(F)
  <2>1. PICK i \in DOMAIN tests' : Covers(tests'[i], ru[2])
    BY <1>5
  <2>2. Extendable(allowed, tests'[i]) /\ allowed \subseteq FullTests
    BY <1>1, <1>7, <2>1, InputAssumption DEF IInv, TestsExtendable, TypeOK
  <2>3. ru \in F /\ ru[2] \in Tuples
    BY <1>4
  <2>4. TupleAllowed(allowed, ru[2])
    BY <2>1, <2>2, <2>3, CoveredTupleAllowed
  <2>5. QED
    BY <2>3, <2>4 DEF AllowedOf
<1>9. ASSUME NEW ru \in AllowedOf(F) PROVE ru \in C
  <2>1. /\ ru \in F /\ ru \in TargetTuples /\ DOMAIN ru[2] \subseteq 1 .. cur
        /\ TupleAllowed(allowed, ru[2])
    BY <1>4 DEF AllowedOf, TargetsUpTo
  <2>2. /\ ru[1] \in Rels /\ DOMAIN ru[2] \in SUBSET RelParams(ru[1])
        /\ Cardinality(DOMAIN ru[2]) = Relations[ru[1]].strength
        /\ Relations[ru[1]].strength \in Nat
        /\ ru[2] \in TuplesOf(DOMAIN ru[2])
    BY <2>1, TargetPair
  <2>3. DOMAIN ru[2] \in SUBSET (RelParams(ru[1]) \cap (1 .. cur))
    BY <2>1, <2>2
  <2>4. Cardinality(DOMAIN ru[2]) <= Relations[ru[1]].strength
    BY <2>2
  <2>5. \E i \in DOMAIN tests' : Covers(tests'[i], ru[2])
    BY <1>6, <2>1, <2>2, <2>3, <2>4 DEF CoveredUpTo
  <2>6. QED
    BY <1>5, <2>1, <2>5
<1>10. C = AllowedOf(F)
  BY <1>8, <1>9
<1> HIDE DEF C
<1>11. /\ handle'.processed = handle.processed + Cardinality(F)
       /\ handle'.covered = handle.covered + Cardinality(C)
  BY <1>1, <1>3, CounterFields
<1>12. QED
  BY <1>1, <1>2, <1>10, <1>11, TargetsJoined DEF F

\* An extension is over and has counted what it marked covered.
LEMMA ExtensionCounted ==
    ASSUME CInv, CountingInv, [Next]_vars,
           FinishHorizontal \/ FinishVertical, pc' = "advance"
    PROVE  /\ handle'.processed <= Cardinality(TargetsUpTo(cur))
           /\ ~aborted' =>
                /\ handle'.processed = Cardinality(TargetsUpTo(cur))
                /\ handle'.covered = Cardinality(AllowedOf(TargetsUpTo(cur)))
<1>1. /\ IInv /\ RelationsInv /\ MissingInv /\ VisitInv
      /\ handle \in Counters /\ pc \in HorizontalPcs \cup VerticalPcs
  BY DEF CInv, IInv, TypeOK, FinishHorizontal, FinishVertical, HorizontalPcs, VerticalPcs
<1>2. uncovered' = uncovered /\ (~aborted' => uncovered = {})
  BY <1>1, MissingStep DEF MissingInv, FinishHorizontal, FinishVertical
<1>3. /\ handle'.processed = handle.processed + UnreportedProcessed
      /\ handle'.covered = handle.covered + UnreportedCovered
  <2>1. CASE FinishHorizontal
    <3>1. UnreportedProcessed = hx.gainedFull /\ UnreportedCovered = hx.gainedFull
      BY <2>1 DEF FinishHorizontal, UnreportedProcessed, UnreportedCovered, HorizontalPcs
    <3>2. /\ handle'.processed = handle.processed + hx.gainedFull
          /\ handle'.covered = handle.covered + hx.gainedFull
      BY <1>1, <2>1, CounterFields DEF FinishHorizontal
    <3>3. QED
      BY <3>1, <3>2
  <2>2. CASE FinishVertical
    <3>1. vx.totalFull \in Nat /\ vx.newlyFull \in Nat
      BY <1>1, CountingTypes
    <3>2. UnreportedProcessed = vx.totalFull /\ UnreportedCovered = vx.newlyFull
      BY <2>2, <3>1
      DEF FinishVertical, UnreportedProcessed, UnreportedCovered, HorizontalPcs, RelationPcs
    <3>3. /\ handle'.processed = handle.processed + vx.totalFull
          /\ handle'.covered = handle.covered + vx.newlyFull
      BY <1>1, <2>2, CounterFields DEF FinishVertical
    <3>4. QED
      BY <3>2, <3>3
  <2>3. QED
    BY <2>1, <2>2
<1>4. QED
  BY <1>1, <1>2, <1>3, CountedWithin
\* Between parameters the counters are those of the parameters before.
LEMMA CountedStep ==
    ASSUME NoneReachedEarly, CInv, CountingInv, CountedInv, [Next]_vars
    PROVE  CountedInv'
<1>1. /\ IInv /\ RelationsInv /\ CoverageInv /\ pc \in Pcs /\ cur \in Nat /\ cur >= 1
      /\ allowed' = allowed
  BY UsedFacts, ClientStep DEF CInv, IInv, TypeOK
<1>2. /\ pc' \in {"init", "filter"} => handle'.toProcess = 0
      /\ pc' \notin {"init", "filter"} => handle'.toProcess = Cardinality(TargetTuples)
  <2>1. handle'.toProcess = IF CountCombinations THEN Cardinality(TargetTuples) ELSE handle.toProcess
    BY <1>1, HandleWritten
  <2>2. pc' \in {"init", "filter"} => pc \in {"init", "filter"} /\ ~CountCombinations
    BY StepCases, Zenon
    DEF vars, Abort, EnterConstruction, EraseInvalidSeed, CountCombinations,
        CreatePrefixTest, PrefixDone, CountPrefixParameter, LeaveLoop, SingleValuedParameter,
        BeginParameter, SelectSeededValue, SelectBestValue, SelectNoValue, Pick, CommitValue,
        CommitNoValue, AfterCommit, FinishHorizontal, StartRelation, NextCombo, RejectTuple,
        InjectIntoMatchingTest, InjectIntoDontCareTest, AddTest, TakeTuple, AfterTuple, EndCombo,
        EndRelation, FinishVertical, AdvanceRelations, ReplaceDontCareValues, Publish
  <2>3. pc' \notin {"init", "filter"} => pc \notin {"init", "filter"} \/ CountCombinations
    BY <1>1, PcStep
  <2>4. QED
    BY <2>1, <2>2, <2>3 DEF CountedInv
<1> DEFINE Exact(T) == /\ handle'.processed <= Cardinality(T)
                       /\ ~aborted' => /\ handle'.processed = Cardinality(T)
                                       /\ handle'.covered = Cardinality(AllowedOf(T))
<1>3. ASSUME pc' \notin HorizontalPcs \cup VerticalPcs PROVE Exact(TargetsBehind')
  <2>1. ~aborted' => ~aborted
    BY <1>1, AbortStays
  <2>2. handle'.processed \in Nat
    BY <1>1, HandleStep DEF Counters
  <2>3. TargetsBehind' = TargetsUpTo(IF pc' = "advance" THEN cur' ELSE cur' - 1)
    BY DEF TargetsBehind, TargetsUpTo
  <2>4. CASE CountPrefixParameter
    <3>1. TargetsBehind' = TargetsUpTo(cur)
      <4>1. cur' = cur + 1 /\ pc' # "advance" /\ (cur + 1) - 1 = cur
        BY <1>1, <2>4 DEF CountPrefixParameter
      <4>2. QED
        BY <2>3, <4>1
    <3>2. QED
      BY <1>1, <2>1, <2>2, <2>4, <3>1, PrefixCounted
  <2>5. CASE SingleValuedParameter
    <3>1. TargetsBehind' = TargetsUpTo(cur)
      BY <2>3, <2>5 DEF SingleValuedParameter, loopVars
    <3>2. QED
      BY <1>1, <2>2, <2>5, <3>1, SingleCounted
  <2>6. CASE FinishHorizontal \/ FinishVertical
    <3>1. pc' = "advance" /\ cur' = cur
      BY <1>3, <2>6 DEF FinishHorizontal, FinishVertical, loopVars, VerticalPcs, RelationPcs
    <3>2. TargetsBehind' = TargetsUpTo(cur)
      BY <2>3, <3>1
    <3>3. QED
      BY <2>6, <3>1, <3>2, ExtensionCounted
  <2>7. CASE AdvanceRelations
    <3>1. TargetsBehind' = TargetsBehind
      <4>1. cur' = cur + 1 /\ pc' = "param" /\ pc = "advance" /\ (cur + 1) - 1 = cur
        BY <1>1, <2>7 DEF AdvanceRelations
      <4>2. QED
        BY <2>3, <4>1 DEF TargetsBehind
    <3>2. handle'.processed = handle.processed /\ handle'.covered = handle.covered
      <4>1. /\ pc = "advance"
            /\ ~(CountPrefixParameter \/ SingleValuedParameter \/ BeginParameter
                   \/ FinishHorizontal \/ FinishVertical)
        BY <2>7 DEF AdvanceRelations, CountPrefixParameter, SingleValuedParameter,
                    BeginParameter, FinishHorizontal, FinishVertical
      <4>2. QED
        BY <1>1, <4>1, HandleWritten
    <3>3. pc \notin HorizontalPcs \cup VerticalPcs
      BY <2>7 DEF AdvanceRelations, HorizontalPcs, VerticalPcs, RelationPcs
    <3>4. QED
      BY <2>1, <3>1, <3>2, <3>3 DEF CountedInv
  <2>8. CASE /\ ~(CountPrefixParameter \/ SingleValuedParameter \/ BeginParameter
                    \/ FinishHorizontal \/ FinishVertical)
             /\ cur' = cur /\ (pc' = "advance" <=> pc = "advance")
             /\ pc \notin HorizontalPcs \cup VerticalPcs
    <3>1. TargetsBehind' = TargetsBehind
      BY <2>3, <2>8 DEF TargetsBehind
    <3>2. handle'.processed = handle.processed /\ handle'.covered = handle.covered
      BY <1>1, <2>8, HandleWritten
    <3>3. QED
      BY <2>1, <2>8, <3>1, <3>2 DEF CountedInv
  <2>9. QED
    <3>1. ~BeginParameter
      BY <1>3 DEF BeginParameter, HorizontalPcs
    <3>2. \/ CountPrefixParameter \/ SingleValuedParameter \/ FinishHorizontal
          \/ FinishVertical \/ AdvanceRelations
          \/ cur' = cur /\ (pc' = "advance" <=> pc = "advance")
                /\ pc \notin HorizontalPcs \cup VerticalPcs
      BY <1>3, <3>1, StepCases, Zenon
      DEF vars, loopVars, Abort, EnterConstruction, EraseInvalidSeed, CountCombinations,
          CreatePrefixTest, PrefixDone, LeaveLoop, SelectSeededValue, SelectBestValue,
          SelectNoValue, Pick, CommitValue, CommitNoValue, AfterCommit, StartRelation, NextCombo,
          RejectTuple, InjectIntoMatchingTest, InjectIntoDontCareTest, AddTest, TakeTuple,
          AfterTuple, EndCombo, EndRelation, ReplaceDontCareValues, Publish,
          HorizontalPcs, VerticalPcs, RelationPcs
    <3>3. QED
      BY <2>4, <2>5, <2>6, <2>7, <2>8, <3>1, <3>2
<1>4. Exact(TargetsBehind') =>
          /\ handle'.processed <= Cardinality(TargetsBehind')
          /\ ~aborted' => /\ handle'.processed = Cardinality(TargetsBehind')
                          /\ handle'.covered = Cardinality(AllowedOf(TargetsBehind)')
  BY <1>1 DEF AllowedOf
<1> HIDE DEF Exact
<1>5. QED
  BY <1>2, <1>3, <1>4 DEF CountedInv

\* The number of tests is set whenever tests can have been added.
LEMMA SizeStep ==
    ASSUME CInv, SizeInv, [Next]_vars
    PROVE  SizeInv'
<1>1. /\ IInv /\ pc \in Pcs /\ cur \in Nat /\ cur >= 1 /\ Len(tests) \in Nat
      /\ tests \in Seq(PartialTests)
  BY UsedFacts DEF CInv, IInv, TypeOK, TestSeqs
<1>2. handle'.size = IF PrefixDone \/ FinishHorizontal \/ FinishVertical
                     THEN Len(tests) ELSE handle.size
  BY <1>1, HandleWritten
<1>3. DOMAIN tests' = DOMAIN tests \/ EraseInvalidSeed \/ CreatePrefixTest \/ AddTest
  <2>1. CASE tests' = tests
    BY <2>1
  <2>2. CASE SingleValuedParameter \/ ReplaceDontCareValues
    BY <2>2 DEF SingleValuedParameter, ReplaceDontCareValues
  <2>3. CASE CommitValue
    BY <2>3 DEF CommitValue
  <2>4. CASE InjectIntoMatchingTest \/ InjectIntoDontCareTest
    <3>1. \E i, t : tests' = [tests EXCEPT ![i] = t]
      BY <1>1, <2>4, InjectionStep
    <3>2. QED
      BY <3>1
  <2>5. QED
    BY <2>1, <2>2, <2>3, <2>4, StepCases, Zenon
    DEF vars, Abort, EnterConstruction, CountCombinations, PrefixDone, CountPrefixParameter,
        LeaveLoop, BeginParameter, SelectSeededValue, SelectBestValue, SelectNoValue,
        CommitNoValue, FinishHorizontal, StartRelation, NextCombo, RejectTuple, EndCombo,
        EndRelation, FinishVertical, AdvanceRelations, Publish
<1>4. /\ tests' \in Seq(PartialTests)
      /\ DOMAIN tests = 1 .. Len(tests) /\ DOMAIN tests' = 1 .. Len(tests')
      /\ Len(tests') \in Nat
  <2>1. tests' \in Seq(PartialTests)
    BY <1>1, TestsStep DEF TestSeqs
  <2>2. QED
    BY <1>1, <2>1
<1>5. pc' \notin BeforePcs \cup VerticalPcs => Len(tests') = Len(tests)
  <2>1. EraseInvalidSeed \/ CreatePrefixTest => pc' \in BeforePcs
    BY DEF EraseInvalidSeed, CreatePrefixTest, BeforePcs
  <2>2. AddTest => pc' \in VerticalPcs
    BY DEF AddTest, TakeTuple, AfterTuple, VerticalPcs, RelationPcs
  <2>3. DOMAIN tests' = DOMAIN tests => Len(tests') = Len(tests)
    <3>1. \A m, n \in Nat : 1 .. m = 1 .. n => m = n
      <4>1. \A m, n \in Nat : m > n => m \in 1 .. m /\ m \notin 1 .. n
        OBVIOUS
      <4>2. QED
        BY <4>1
    <3>2. QED
      BY <1>1, <1>4, <3>1, Zenon
  <2>4. QED
    BY <1>3, <2>1, <2>2, <2>3
<1>6. CASE PrefixDone \/ FinishHorizontal \/ FinishVertical
  <2>1. pc' \notin BeforePcs \cup VerticalPcs => handle'.size = Len(tests')
    BY <1>2, <1>5, <1>6
  <2>2. QED
    BY <2>1, Zenon DEF SizeInv, BeforePcs, VerticalPcs, RelationPcs
<1>7. CASE ~(PrefixDone \/ FinishHorizontal \/ FinishVertical)
  <2>1. handle'.size = handle.size
    BY <1>2, <1>7
  <2>2. CASE CountCombinations
    <3>1. cur' = cur /\ cur = 1
      BY <1>1, <2>2 DEF CountCombinations, IInv, CursorInv
    <3>2. pc' \notin {"advance", "countPrefix"} /\ \A p \in 1 .. (cur' - 1) : NumValues[p] <= 1
      BY <2>2, <3>1 DEF CountCombinations
    <3>3. QED
      BY <3>2 DEF SizeInv
  <2>3. CASE SingleValuedParameter
    <3>1. /\ cur' = cur /\ pc = "param" /\ pc' = "advance" /\ NumValues[cur] <= 1
      BY <2>3 DEF SingleValuedParameter, loopVars
    <3>2. /\ Len(tests') = Len(tests)
          /\ handle.size = Len(tests) \/ \A p \in 1 .. (cur - 1) : NumValues[p] <= 1
      BY <1>5, <3>1 DEF SizeInv, BeforePcs, VerticalPcs, RelationPcs
    <3>3. QED
      BY <2>1, <3>1, <3>2 DEF SizeInv
  <2>4. CASE AdvanceRelations
    <3>1. /\ cur' = cur + 1 /\ cur' - 1 = cur /\ pc = "advance" /\ pc' = "param"
      BY <1>1, <2>4 DEF AdvanceRelations
    <3>2. Len(tests') = Len(tests)
      BY <1>5, <3>1 DEF BeforePcs, VerticalPcs, RelationPcs
    <3>3. \/ handle.size = Len(tests)
          \/ /\ \A p \in 1 .. (cur - 1) : NumValues[p] <= 1
             /\ NumValues[cur] <= 1
      BY <3>1 DEF SizeInv, BeforePcs, VerticalPcs, RelationPcs
    <3>4. \/ handle.size = Len(tests)
          \/ \A p \in 1 .. cur : NumValues[p] <= 1
      <4>1. \A p \in 1 .. cur : p \in 1 .. (cur - 1) \/ p = cur
        BY <1>1
      <4>2. QED
        BY <3>3, <4>1
    <3>5. QED
      BY <2>1, <3>1, <3>2, <3>4 DEF SizeInv
  <2>5. CASE CountPrefixParameter
    <3>1. /\ pc = "countPrefix" /\ pc' \in {"param", "countPrefix"}
      BY <2>5 DEF CountPrefixParameter
    <3>2. /\ Len(tests') = Len(tests) /\ handle.size = Len(tests)
      BY <1>5, <3>1 DEF SizeInv, BeforePcs, VerticalPcs, RelationPcs
    <3>3. QED
      BY <2>1, <3>1, <3>2 DEF SizeInv
  <2>6. CASE /\ cur' = cur /\ (pc' \in {"advance", "countPrefix"} => pc' = pc)
             /\ pc' \notin BeforePcs \cup VerticalPcs =>
                    pc \notin BeforePcs \cup VerticalPcs
    <3>1. CASE pc' \notin BeforePcs \cup VerticalPcs
      BY <1>5, <2>1, <2>6, <3>1 DEF SizeInv
    <3>2. CASE pc' \in BeforePcs \cup VerticalPcs
      BY <3>2 DEF SizeInv, BeforePcs, VerticalPcs, RelationPcs
    <3>3. QED
      BY <3>1, <3>2
  <2>7. QED
    <3>1. \/ CountCombinations \/ SingleValuedParameter \/ AdvanceRelations
          \/ CountPrefixParameter
          \/ /\ cur' = cur /\ (pc' \in {"advance", "countPrefix"} => pc' = pc)
             /\ pc' \notin BeforePcs \cup VerticalPcs =>
                    pc \notin BeforePcs \cup VerticalPcs
      BY <1>7, StepCases, Zenon
      DEF vars, loopVars, Abort, EnterConstruction, EraseInvalidSeed,
          CreatePrefixTest, LeaveLoop, BeginParameter, SelectSeededValue, SelectBestValue,
          SelectNoValue, Pick, CommitValue, CommitNoValue, AfterCommit, StartRelation, NextCombo,
          RejectTuple, InjectIntoMatchingTest, InjectIntoDontCareTest, AddTest, TakeTuple,
          AfterTuple, EndCombo, EndRelation, ReplaceDontCareValues, Publish,
          BeforePcs, VerticalPcs, RelationPcs
    <3>2. QED
      BY <2>2, <2>3, <2>4, <2>5, <2>6, <3>1
<1>8. QED
  BY <1>6, <1>7
\* What a completed job has told the client stays.
LEMMA DeliveredStep ==
    ASSUME NoneReachedEarly, \E p \in 1 .. NumUsed : NumValues[p] > 1,
           CInv, CountedInv, SizeInv, DeliveredInv, [Next]_vars
    PROVE  DeliveredInv'
<1> SUFFICES ASSUME result'.code = "COMPLETED"
             PROVE  /\ pc' = "done"
                    /\ handle'.processed = Cardinality(TargetTuples)
                    /\ handle'.covered = Cardinality(AllowedOf(TargetTuples))
                    /\ handle'.size = Len(result'.tests)
  <2>1. IInv
    BY DEF CInv
  <2>2. allowed' = allowed
    BY <2>1, ClientStep
  <2>3. QED
    BY <2>2 DEF DeliveredInv, AllowedOf
<1>1. IInv /\ CoverageInv /\ ResultInv /\ cur \in Nat
  BY UsedFacts DEF CInv, IInv, TypeOK
<1>2. CASE Publish
  <2>1. /\ pc = "publish" /\ pc' = "done" /\ ~aborted /\ handle' = handle
        /\ result'.tests = tests
    BY <1>2 DEF Publish, ResultCode
  <2>2. cur = NumUsed + 1 /\ NumUsed \in Nat
    BY <1>1, <2>1, UsedFacts DEF CoverageInv
  <2>3. cur - 1 = NumUsed
    BY <2>2
  <2>4. TargetsBehind = TargetTuples
    BY <2>1, <2>3, TargetsGrow DEF TargetsBehind
  <2>5. /\ handle.processed = Cardinality(TargetTuples)
        /\ handle.covered = Cardinality(AllowedOf(TargetTuples))
    BY <2>1, <2>4 DEF CountedInv, HorizontalPcs, VerticalPcs, RelationPcs
  <2>6. handle.size = Len(tests)
    <3>1. handle.size = Len(tests) \/ \A p \in 1 .. NumUsed : NumValues[p] <= 1
      BY <2>1, <2>3 DEF SizeInv, BeforePcs, VerticalPcs, RelationPcs
    <3>2. ~(\A p \in 1 .. NumUsed : NumValues[p] <= 1)
      <4>1. \A p \in 1 .. NumUsed : NumValues[p] \in Nat
        BY UsedFacts, ModelAssumption
      <4>2. QED
        BY <4>1
    <3>3. QED
      BY <3>1, <3>2
  <2>7. QED
    BY <2>1, <2>5, <2>6
<1>3. CASE result' = result
  <2>1. /\ pc = "done"
        /\ handle.processed = Cardinality(TargetTuples)
        /\ handle.covered = Cardinality(AllowedOf(TargetTuples))
        /\ handle.size = Len(result.tests)
    BY <1>3 DEF DeliveredInv
  <2>2. pc' = pc /\ handle' = handle
    BY <2>1, StepCases, Zenon
    DEF vars, Abort, EnterConstruction, EraseInvalidSeed, CountCombinations, CreatePrefixTest,
        PrefixDone, CountPrefixParameter, LeaveLoop, SingleValuedParameter, BeginParameter,
        SelectSeededValue, SelectBestValue, SelectNoValue, CommitValue, CommitNoValue,
        FinishHorizontal, StartRelation, NextCombo, RejectTuple, InjectIntoMatchingTest,
        InjectIntoDontCareTest, AddTest, EndCombo, EndRelation, FinishVertical,
        AdvanceRelations, ReplaceDontCareValues, Publish
  <2>3. QED
    BY <1>3, <2>1, <2>2
<1>4. QED
  BY <1>2, <1>3, StepCases, Zenon
  DEF vars, jobVars, Abort, EnterConstruction, EraseInvalidSeed, CountCombinations,
      CreatePrefixTest, PrefixDone, CountPrefixParameter, LeaveLoop, SingleValuedParameter,
      BeginParameter, SelectSeededValue, SelectBestValue, SelectNoValue, CommitValue,
      CommitNoValue, FinishHorizontal, StartRelation, NextCombo, RejectTuple,
      InjectIntoMatchingTest, InjectIntoDontCareTest, AddTest, EndCombo, EndRelation,
      FinishVertical, AdvanceRelations, ReplaceDontCareValues

\* Nothing has been counted before the job starts.
LEMMA InitProgress == Init => ProgressInv
<1> SUFFICES ASSUME Init PROVE ProgressInv
  OBVIOUS
<1>1. pc = "init" /\ cur = 1 /\ result.code = "PENDING" /\ ~aborted
  BY DEF Init, Pending
<1>2. handle.toProcess = 0 /\ handle.processed = 0 /\ handle.covered = 0
  BY DEF Init
<1>3. TargetsBehind = {} /\ AllowedOf({}) = {} /\ Cardinality({}) = 0
  BY <1>1, TargetsGrow, FS_EmptySet DEF TargetsBehind, AllowedOf
<1>4. CountedInv
  <2>1. Cardinality(TargetsBehind) = 0 /\ Cardinality(AllowedOf(TargetsBehind)) = 0
    BY <1>3, Zenon
  <2>2. QED
    BY <1>1, <1>2, <2>1 DEF CountedInv
<1>5. CountingInv /\ SizeInv /\ DeliveredInv
  BY <1>1 DEF CountingInv, SizeInv, DeliveredInv, BeforePcs, HorizontalPcs, VerticalPcs, RelationPcs
<1>6. QED
  BY <1>4, <1>5 DEF ProgressInv

\* A client never sees more combinations processed than there are to process.
LEMMA ProgressBounded ==
    ASSUME CInv, CountingInv, CountedInv, pc \notin {"init", "filter"}
    PROVE  handle.processed <= handle.toProcess
<1>1. /\ IInv /\ RelationsInv /\ cur \in 1 .. (NumUsed + 1) /\ NumUsed \in Nat
      /\ handle \in Counters
  BY UsedFacts DEF CInv, IInv, TypeOK
<1>2. handle.toProcess = Cardinality(TargetTuples) /\ handle.processed \in Nat
  BY <1>1 DEF CountedInv, Counters
<1>3. ASSUME NEW k \in Nat, handle.processed <= Cardinality(TargetsUpTo(k))
      PROVE  handle.processed <= handle.toProcess
  <2>1. TargetTuples \in SUBSET (Rels \X Tuples) /\ TargetsUpTo(k) \in SUBSET TargetTuples
    BY TargetsGrow
  <2>2. /\ Cardinality(TargetsUpTo(k)) <= Cardinality(TargetTuples)
        /\ Cardinality(TargetsUpTo(k)) \in Nat /\ Cardinality(TargetTuples) \in Nat
    BY <2>1, PartCount
  <2>3. QED
    BY <1>2, <1>3, <2>2
<1>4. CASE pc \in HorizontalPcs \cup VerticalPcs
  <2>1. handle.processed + UnreportedProcessed <= Cardinality(TargetsUpTo(cur))
    BY <1>1, <1>4, CountedWithin
  <2>2. UnreportedProcessed \in Nat /\ cur \in Nat
    BY <1>1, CountingTypes
  <2>3. Cardinality(TargetsUpTo(cur)) \in Nat
    <3>1. TargetsUpTo(cur) \in SUBSET (Rels \X Tuples)
      BY TargetsGrow
    <3>2. QED
      BY <3>1, TaggedFinite
  <2>4. handle.processed <= Cardinality(TargetsUpTo(cur))
    BY <1>2, <2>1, <2>2, <2>3
  <2>5. QED
    BY <1>3, <2>2, <2>4
<1>5. CASE pc \notin HorizontalPcs \cup VerticalPcs
  <2>1. PICK k \in Nat : TargetsBehind = TargetsUpTo(k)
    BY <1>1 DEF TargetsBehind
  <2>2. handle.processed <= Cardinality(TargetsUpTo(k))
    BY <1>5, <2>1 DEF CountedInv
  <2>3. QED
    BY <1>3, <2>2
<1>6. QED
  BY <1>4, <1>5

\* A client never sees more processed than there is to process, and a completed
\* job has processed everything, has counted every allowed combination as
\* covered exactly once, and reports the number of the tests it delivers: for
\* every model in which no relation has all it needs for its strength before the
\* prefix ends, and in which some parameter has more than one value.  (The
\* number of tests is not set when every parameter has one and tests are seeded.)
THEOREM ProgressAlwaysExact ==
    ASSUME NoneReachedEarly, \E p \in 1 .. NumUsed : NumValues[p] > 1
    PROVE  Spec => []ProgressExact
<1>1. Init => CInv /\ ProgressInv
  BY InitCInv, InitProgress
<1>2. CInv /\ ProgressInv /\ [Next]_vars => (CInv /\ ProgressInv)'
  <2> SUFFICES ASSUME CInv, ProgressInv, [Next]_vars PROVE CInv' /\ ProgressInv'
    OBVIOUS
  <2>1. IInv /\ CountingInv /\ CountedInv /\ SizeInv /\ DeliveredInv
    BY DEF CInv, ProgressInv
  <2>2. CInv'
    BY StepCInv
  <2>3. CountingInv' /\ CountedInv' /\ SizeInv' /\ DeliveredInv'
    BY <2>1, CountingStep, CountedStep, SizeStep, DeliveredStep
  <2>4. QED
    BY <2>2, <2>3 DEF ProgressInv
<1>3. CInv /\ ProgressInv => ProgressExact
  <2> SUFFICES ASSUME CInv, ProgressInv PROVE ProgressExact
    OBVIOUS
  <2>1. pc \notin {"init", "filter"} => handle.processed <= handle.toProcess
    BY ProgressBounded DEF ProgressInv
  <2>2. ASSUME result.code = "COMPLETED"
        PROVE  /\ handle.processed = handle.toProcess
               /\ handle.covered = Cardinality(
                      {ru \in TargetTuples : TupleAllowed(allowed, ru[2])})
               /\ handle.size = Len(result.tests)
    BY <2>2 DEF ProgressInv, DeliveredInv, CountedInv, AllowedOf
  <2>3. QED
    BY <2>1, <2>2 DEF ProgressExact
<1>4. QED
  BY <1>1, <1>2, <1>3, PTL DEF Spec

\* So it is for one relation, and for any number of them of the same strength.
LEMMA EqualStrengths ==
    ASSUME \A q, r \in Rels : Relations[q].strength = Relations[r].strength
    PROVE  NoneReachedEarly
<1> SUFFICES ASSUME NEW r \in Rels, Relations[r].strength <= RelLen(r)
             PROVE  Relations[r].params[Relations[r].strength] >= FirstParamIdx
  BY DEF NoneReachedEarly
<1> DEFINE k == Relations[r].strength
           m == Relations[r].params[k]
<1>1. /\ k \in Nat \ {0} /\ RelLen(r) \in Nat /\ k \in 1 .. RelLen(r) /\ k \in 0 .. RelLen(r)
      /\ FirstParamIdx \in Nat
  BY StrengthPositive, UsedFacts, FirstParamIdxType
<1>2. FirstParamIdx <= k
  <2> DEFINE S == {0} \cup {n \in 1 .. NumUsed :
                      /\ \E q \in Rels : n <= Relations[q].strength
                      /\ \E q \in Rels : SharesPrefix(q, n)}
  <2>1. S \in SUBSET (0 .. NumUsed) /\ S # {}
    BY UsedFacts
  <2>2. Max(S) \in S
    BY <2>1, UsedFacts, BoundedMax
  <2>3. \A n \in S : n <= k
    BY <1>1
  <2>4. QED
    BY <2>2, <2>3 DEF FirstParamIdx
<1>3. m \in Nat
  BY <1>1, Ascending
<1>4. ASSUME NEW i \in 1 .. RelLen(r)
      PROVE  Relations[r].params[i] <= m <=> i <= k
  <2>1. /\ Relations[r].params[i] \in Nat
        /\ i < k => Relations[r].params[i] < m
        /\ k < i => m < Relations[r].params[i]
    BY <1>1, Ascending
  <2> HIDE DEF k
  <2>2. i \in Nat /\ k \in Nat
    BY <1>1
  <2>3. QED
    BY <1>3, <2>1, <2>2
<1> HIDE DEF k, m
<1>5. /\ FirstParams(r, k) = RelParams(r) \cap (1 .. m)
      /\ Cardinality(FirstParams(r, k)) = k
  BY <1>1, <1>3, <1>4, FirstOnes
<1>6. FirstParams(r, k) \in SUBSET (1 .. m) /\ IsFiniteSet(1 .. m) /\ Cardinality(1 .. m) = m
  BY <1>3, <1>5, FS_Interval
<1>7. k <= m
  BY <1>5, <1>6, FS_Subset
<1>8. QED
  BY <1>1, <1>2, <1>3, <1>7 DEF k, m

-------------------------------------------------------------------------------
(* The lists: during the vertical extension every test is in exactly one of the
   intrusive lists, once, and in the right one. *)

\* The list has every element of I once, and nothing else.
OneEach(list, I) ==
    /\ \A k \in DOMAIN list : list[k] \in I
    /\ \A i \in I : \E k \in DOMAIN list : list[k] = i
    /\ \A j, k \in DOMAIN list : list[j] = list[k] => j = k

\* The tests that have been put into a list: those the horizontal extension has
\* been through, and all after it.
ListedTests == IF pc \in HorizontalPcs THEN 1 .. (hx.ti - 1) ELSE DOMAIN tests

TestsWith(v) == {i \in ListedTests : tests[i][cur] = v}

\* The lists are right for the tests listed; a test for which no value is
\* selected has none; and the horizontal extension returns early only if
\* nothing is missing.
ListsInv ==
    /\ pc \in HorizontalPcs \cup VerticalPcs =>
           /\ OneEach(dcRows, TestsWith(DontCare))
           /\ \A v \in Dom(cur) : OneEach(rows[v], TestsWith(v))
    /\ pc \in HorizontalPcs => hx.ti \in 1 .. (Len(tests) + 1)
    /\ pc = "commit" /\ hx.selected = -1 => tests[hx.ti][cur] = DontCare
    /\ pc = "horizontalDone" => hx.ti = Len(tests) + 1 \/ hx.gained >= missing

-------------------------------------------------------------------------------
(* Lists without duplicates *)

LEMMA OneEachAppended ==
    ASSUME NEW list \in Seq(Nat), NEW I, OneEach(list, I), NEW i \in Nat, i \notin I
    PROVE  OneEach(Append(list, i), I \cup {i})
<1> DEFINE new == Append(list, i)
<1>1. /\ DOMAIN list = 1 .. Len(list) /\ Len(list) \in Nat
      /\ DOMAIN new = 1 .. (Len(list) + 1)
      /\ new[Len(list) + 1] = i
      /\ \A k \in DOMAIN list : k \in DOMAIN new /\ new[k] = list[k]
  OBVIOUS
<1>2. \A k \in DOMAIN new : k \in DOMAIN list \/ k = Len(list) + 1
  BY <1>1
<1> HIDE DEF new
<1>3. \A k \in DOMAIN new : new[k] \in I \cup {i}
  BY <1>1, <1>2 DEF OneEach
<1>4. \A j \in I \cup {i} : \E k \in DOMAIN new : new[k] = j
  <2>1. Len(list) + 1 \in DOMAIN new
    BY <1>1
  <2>2. QED
    BY <1>1, <2>1 DEF OneEach
<1>5. ASSUME NEW j \in DOMAIN new, NEW k \in DOMAIN new, new[j] = new[k]
      PROVE  j = k
  BY <1>1, <1>2, <1>5 DEF OneEach
<1>6. QED
  BY <1>3, <1>4, <1>5 DEF OneEach, new

LEMMA OneEachRemoved ==
    ASSUME NEW list \in Seq(Nat), NEW I, OneEach(list, I), NEW k \in DOMAIN list
    PROVE  OneEach(RemoveAtPos(list, k), I \ {list[k]})
<1> DEFINE new == RemoveAtPos(list, k)
<1>1. /\ DOMAIN list = 1 .. Len(list) /\ Len(list) \in Nat /\ k \in 1 .. Len(list)
      /\ DOMAIN new = 1 .. (Len(list) - 1)
      /\ \A j \in 1 .. (Len(list) - 1) : new[j] = IF j < k THEN list[j] ELSE list[j + 1]
  BY DEF RemoveAtPos
<1> DEFINE Old(j) == IF j < k THEN j ELSE j + 1
<1>2. \A j \in DOMAIN new : Old(j) \in DOMAIN list /\ Old(j) # k /\ new[j] = list[Old(j)]
  BY <1>1
<1>3. \A j \in DOMAIN list \ {k} : \E l \in DOMAIN new : Old(l) = j
  <2> TAKE j \in DOMAIN list \ {k}
  <2>1. CASE j < k
    BY <1>1, <2>1
  <2>2. CASE j > k
    <3>1. j - 1 \in DOMAIN new /\ Old(j - 1) = j
      BY <1>1, <2>2
    <3>2. QED
      BY <3>1
  <2>3. QED
    BY <1>1, <2>1, <2>2
<1>4. \A j, l \in DOMAIN new : Old(j) = Old(l) => j = l
  BY <1>1
<1> HIDE DEF new, Old
<1>5. \A j \in DOMAIN new : new[j] \in I \ {list[k]}
  BY <1>2 DEF OneEach
<1>6. ASSUME NEW i \in I \ {list[k]} PROVE \E l \in DOMAIN new : new[l] = i
  <2>1. PICK j \in DOMAIN list : list[j] = i
    BY DEF OneEach
  <2>2. QED
    BY <1>2, <1>3, <2>1
<1>7. \A j, l \in DOMAIN new : new[j] = new[l] => j = l
  BY <1>2, <1>4 DEF OneEach
<1>8. QED
  BY <1>5, <1>6, <1>7 DEF OneEach, new

\* How often a test is in such a list.
LEMMA OneEachCounted ==
    ASSUME NEW list, NEW I, OneEach(list, I), NEW i
    PROVE  Occurrences(list, i) = IF i \in I THEN 1 ELSE 0
<1> DEFINE at == {k \in DOMAIN list : list[k] = i}
<1>1. CASE i \in I
  <2>1. PICK k \in DOMAIN list : list[k] = i
    BY <1>1 DEF OneEach
  <2>2. at = {k}
    BY <2>1 DEF OneEach
  <2>3. Cardinality(at) = 1
    BY <2>2, FS_Singleton
  <2>4. QED
    BY <1>1, <2>3 DEF Occurrences
<1>2. CASE i \notin I
  <2>1. at = {}
    BY <1>2 DEF OneEach
  <2>2. Cardinality(at) = 0
    BY <2>1, FS_EmptySet
  <2>3. QED
    BY <1>2, <2>2 DEF Occurrences
<1>3. QED
  BY <1>1, <1>2

-------------------------------------------------------------------------------
(* The steps *)

\* The facts every step rests on.
LEMMA ListFacts ==
    ASSUME IInv
    PROVE  /\ rows \in [AllValues -> Seq(Nat)] /\ dcRows \in Seq(Nat) /\ hx \in HorizontalLocals
           /\ tests \in Seq(PartialTests) /\ Len(tests) \in Nat
           /\ DOMAIN tests = 1 .. Len(tests)
           /\ \A i \in DOMAIN tests : tests[i] \in [Params -> AllValues \cup {DontCare}]
           /\ pc \in HorizontalPcs \cup VerticalPcs =>
                  /\ cur \in Params /\ Dom(cur) \subseteq AllValues
                  /\ DontCare \notin Dom(cur)
<1>1. /\ rows \in [AllValues -> Seq(Nat)] /\ dcRows \in Seq(Nat) /\ hx \in HorizontalLocals
      /\ tests \in Seq(PartialTests)
  BY DEF IInv, TypeOK, TestSeqs
<1>2. \A i \in DOMAIN tests : tests[i] \in [Params -> AllValues \cup {DontCare}]
  BY <1>1, TestFacts
<1>3. ASSUME pc \in HorizontalPcs \cup VerticalPcs
      PROVE  cur \in Params /\ Dom(cur) \subseteq AllValues /\ DontCare \notin Dom(cur)
  <2>1. cur \in Params
    BY <1>3, MapTuplesNow DEF IInv, CursorInv, BodyPcs
  <2>2. QED
    BY <2>1, DomFacts
<1>4. QED
  BY <1>1, <1>2, <1>3

\* A step that leaves the lists and the current parameter's values of the listed
\* tests alone keeps the lists right.
LEMMA ListsSame ==
    ASSUME UNCHANGED <<cur, rows, dcRows>>, ListedTests' = ListedTests,
           \A i \in ListedTests : tests'[i][cur] = tests[i][cur],
           OneEach(dcRows, TestsWith(DontCare)),
           \A v \in Dom(cur) : OneEach(rows[v], TestsWith(v))
    PROVE  /\ OneEach(dcRows', TestsWith(DontCare)')
           /\ \A v \in Dom(cur') : OneEach(rows'[v], TestsWith(v)')
<1>1. \A v : TestsWith(v)' = TestsWith(v)
  BY DEF TestsWith
<1>2. QED
  BY <1>1

\* A step that lists test i, with value w of the current parameter, and appends
\* it to the list of w, keeps the lists right.
LEMMA ListsGrow ==
    ASSUME IInv, pc \in HorizontalPcs \cup VerticalPcs,
           cur' = cur, NEW i \in Nat, i \notin ListedTests,
           ListedTests' = ListedTests \cup {i},
           \A j \in ListedTests : tests'[j][cur] = tests[j][cur],
           \/ /\ tests'[i][cur] = DontCare
              /\ dcRows' = Append(dcRows, i) /\ rows' = rows
           \/ /\ tests'[i][cur] \in Dom(cur) /\ dcRows' = dcRows
              /\ rows' = [rows EXCEPT ![tests'[i][cur]] = Append(@, i)],
           OneEach(dcRows, TestsWith(DontCare)),
           \A v \in Dom(cur) : OneEach(rows[v], TestsWith(v))
    PROVE  /\ OneEach(dcRows', TestsWith(DontCare)')
           /\ \A v \in Dom(cur') : OneEach(rows'[v], TestsWith(v)')
<1> DEFINE w == tests'[i][cur]
<1>1. \A v : TestsWith(v)' = IF v = w THEN TestsWith(v) \cup {i} ELSE TestsWith(v)
  BY DEF TestsWith
<1>2. \A v : i \notin TestsWith(v)
  BY DEF TestsWith
<1>3. /\ rows \in [AllValues -> Seq(Nat)] /\ dcRows \in Seq(Nat)
      /\ Dom(cur) \subseteq AllValues /\ DontCare \notin Dom(cur)
  BY ListFacts
<1>4. CASE w = DontCare /\ dcRows' = Append(dcRows, i) /\ rows' = rows
  <2>1. OneEach(dcRows', TestsWith(DontCare)')
    BY <1>1, <1>2, <1>3, <1>4, OneEachAppended
  <2>2. QED
    BY <1>1, <1>3, <1>4, <2>1
<1>5. CASE w \in Dom(cur) /\ dcRows' = dcRows /\ rows' = [rows EXCEPT ![w] = Append(@, i)]
  <2>1. OneEach(dcRows', TestsWith(DontCare)')
    BY <1>1, <1>3, <1>5
  <2>2. ASSUME NEW v \in Dom(cur) PROVE OneEach(rows'[v], TestsWith(v)')
    <3>1. rows[v] \in Seq(Nat) /\ v \in AllValues
      BY <1>3
    <3>2. CASE v = w
      <4>1. rows'[v] = Append(rows[v], i) /\ TestsWith(v)' = TestsWith(v) \cup {i}
        BY <1>1, <1>3, <1>5, <3>1, <3>2
      <4>2. QED
        BY <1>2, <3>1, <4>1, OneEachAppended
    <3>3. CASE v # w
      BY <1>1, <1>3, <1>5, <3>1, <3>3
    <3>4. QED
      BY <3>2, <3>3
  <2>3. QED
    BY <2>1, <2>2
<1>6. QED
  BY <1>4, <1>5

\* The horizontal extension lists the tests it goes through.
LEMMA ListsHorizontal ==
    ASSUME IInv, ListsInv, BeginParameter \/ SelectSeededValue \/ SelectBestValue
                           \/ SelectNoValue \/ CommitValue \/ CommitNoValue
    PROVE  ListsInv'
<1>1. /\ rows \in [AllValues -> Seq(Nat)] /\ dcRows \in Seq(Nat) /\ hx \in HorizontalLocals
      /\ tests \in Seq(PartialTests) /\ Len(tests) \in Nat
      /\ DOMAIN tests = 1 .. Len(tests)
      /\ \A i \in DOMAIN tests : tests[i] \in [Params -> AllValues \cup {DontCare}]
  BY ListFacts
<1>2. pc' \in HorizontalPcs /\ pc' \notin VerticalPcs
  BY DEF BeginParameter, SelectSeededValue, SelectBestValue, SelectNoValue, CommitValue,
         CommitNoValue, Pick, AfterCommit, HorizontalPcs, VerticalPcs, RelationPcs
<1>3. CASE BeginParameter
  <2>1. /\ rows' = [v \in AllValues |-> <<>>] /\ dcRows' = <<>> /\ tests' = tests /\ cur' = cur
        /\ hx'.ti = 1
        /\ pc' = IF tests = <<>> THEN "horizontalDone" ELSE "select"
    BY <1>3 DEF BeginParameter, NoRows, NoHorizontal, loopVars
  <2>2. ListedTests' = {} /\ \A v : TestsWith(v)' = {}
    BY <1>2, <2>1 DEF ListedTests, TestsWith
  <2>3. cur \in Params /\ Dom(cur) \subseteq AllValues
    BY <1>3, MapTuplesNow, DomFacts DEF BeginParameter
  <2>4. OneEach(<<>>, {})
    BY DEF OneEach
  <2>5. OneEach(dcRows', TestsWith(DontCare)')
    BY <2>1, <2>2, <2>4
  <2>6. \A v \in Dom(cur') : OneEach(rows'[v], TestsWith(v)')
    BY <2>1, <2>2, <2>3, <2>4
  <2>7. pc' = "horizontalDone" => hx'.ti = Len(tests') + 1
    BY <2>1
  <2>8. hx'.ti \in 1 .. (Len(tests') + 1)
    BY <1>1, <2>1
  <2>9. QED
    BY <2>1, <2>5, <2>6, <2>7, <2>8 DEF ListsInv
<1>4. ASSUME SelectSeededValue \/ SelectBestValue \/ SelectNoValue PROVE ListsInv'
  <2>1. /\ UNCHANGED <<tests, cur, rows, dcRows>> /\ pc = "select" /\ pc' = "commit"
    BY <1>4 DEF SelectSeededValue, SelectBestValue, SelectNoValue, Pick, loopVars, partVars
  <2>2. /\ hx'.ti = hx.ti
        /\ hx'.selected = -1 => tests[hx.ti][cur] = DontCare
    <3>1. CASE SelectSeededValue
      BY <3>1, PickKeeps DEF SelectSeededValue, DontCare
    <3>2. CASE SelectBestValue
      <4>1. tests[hx.ti][cur] = DontCare /\ \E v : Pick(v)
        BY <3>2 DEF SelectBestValue
      <4>2. QED
        BY <4>1, PickKeeps
    <3>3. CASE SelectNoValue
      BY <1>1, <3>3 DEF SelectNoValue, HorizontalLocals
    <3>4. QED
      BY <1>4, <3>1, <3>2, <3>3
  <2>3. ListedTests' = ListedTests
    BY <1>2, <2>1, <2>2 DEF ListedTests, HorizontalPcs
  <2>4. /\ OneEach(dcRows, TestsWith(DontCare))
        /\ \A v \in Dom(cur) : OneEach(rows[v], TestsWith(v))
        /\ hx.ti \in 1 .. (Len(tests) + 1)
    BY <2>1 DEF ListsInv, HorizontalPcs
  <2>5. /\ OneEach(dcRows', TestsWith(DontCare)')
        /\ \A v \in Dom(cur') : OneEach(rows'[v], TestsWith(v)')
    BY <2>1, <2>3, <2>4, ListsSame
  <2>6. QED
    BY <2>1, <2>2, <2>4, <2>5 DEF ListsInv
<1>5. ASSUME CommitValue \/ CommitNoValue PROVE ListsInv'
  <2>1. /\ pc = "commit" /\ cur' = cur /\ missing' = missing
        /\ pc \in HorizontalPcs
    BY <1>5 DEF CommitValue, CommitNoValue, loopVars, mapVars, HorizontalPcs
  <2>2. hx.ti \in DOMAIN tests /\ cur \in Params
    BY <1>5, <2>1, ListFacts DEF IInv, HorizontalInv
  <2>3. /\ hx'.ti = hx.ti + 1
        /\ pc' = "horizontalDone" => hx.ti = Len(tests) \/ hx'.gained >= missing
    <3>1. CASE CommitValue
      <4>1. PICK g, f :
                /\ hx' = [hx EXCEPT !.ti = hx.ti + 1, !.gained = g, !.gainedFull = f]
                /\ pc' = AfterCommit(g)
        BY <3>1, Zenon DEF CommitValue
      <4>2. hx'.ti = hx.ti + 1 /\ hx'.gained = g
        BY <1>1, <4>1 DEF HorizontalLocals
      <4>3. QED
        BY <4>1, <4>2 DEF AfterCommit
    <3>2. CASE CommitNoValue
      <4>1. hx'.ti = hx.ti + 1 /\ hx'.gained = hx.gained
        BY <1>1, <3>2 DEF CommitNoValue, HorizontalLocals
      <4>2. QED
        BY <3>2, <4>1 DEF CommitNoValue, AfterCommit
    <3>3. QED
      BY <1>5, <3>1, <3>2
  <2>4. /\ ListedTests = 1 .. (hx.ti - 1) /\ ListedTests' = 1 .. hx.ti
        /\ hx.ti \in Nat /\ hx.ti >= 1 /\ hx.ti <= Len(tests)
    BY <1>1, <1>2, <2>1, <2>2, <2>3 DEF ListedTests
  <2>5. hx.ti \notin ListedTests /\ ListedTests' = ListedTests \cup {hx.ti}
    BY <2>4
  <2>6. /\ Len(tests') = Len(tests)
        /\ \A j \in ListedTests : tests'[j][cur] = tests[j][cur]
        /\ \/ /\ tests'[hx.ti][cur] = DontCare
              /\ dcRows' = Append(dcRows, hx.ti) /\ rows' = rows
           \/ /\ tests'[hx.ti][cur] \in Dom(cur) /\ dcRows' = dcRows
              /\ rows' = [rows EXCEPT ![tests'[hx.ti][cur]] = Append(@, hx.ti)]
    <3>1. CASE CommitValue
      <4>1. /\ tests' = [tests EXCEPT ![hx.ti] = Assign(tests[hx.ti], cur, hx.selected)]
            /\ rows' = [rows EXCEPT ![hx.selected] = Append(@, hx.ti)]
            /\ dcRows' = dcRows /\ hx.selected # -1
        BY <3>1 DEF CommitValue
      <4>2. hx.selected \in Dom(cur)
        BY <2>1, <4>1 DEF IInv, HorizontalInv
      <4>3. Assign(tests[hx.ti], cur, hx.selected)[cur] = hx.selected
        BY <1>1, <2>2 DEF Assign
      <4>4. tests'[hx.ti][cur] = hx.selected
        BY <2>2, <4>1, <4>3
      <4>5. \A j \in ListedTests : tests'[j] = tests[j]
        BY <1>1, <2>4, <4>1
      <4>6. Len(tests') = Len(tests)
        BY <1>1, <4>1
      <4>7. QED
        BY <4>1, <4>2, <4>4, <4>5, <4>6
    <3>2. CASE CommitNoValue
      BY <2>1, <3>2 DEF CommitNoValue, ListsInv
    <3>3. QED
      BY <1>5, <3>1, <3>2
  <2>7. /\ OneEach(dcRows, TestsWith(DontCare))
        /\ \A v \in Dom(cur) : OneEach(rows[v], TestsWith(v))
    BY <2>1 DEF ListsInv
  <2>8. /\ OneEach(dcRows', TestsWith(DontCare)')
        /\ \A v \in Dom(cur') : OneEach(rows'[v], TestsWith(v)')
    BY <2>1, <2>4, <2>5, <2>6, <2>7, ListsGrow
  <2>9. pc' # "commit"
    BY <1>5 DEF CommitValue, CommitNoValue, AfterCommit
  <2>10. /\ hx'.ti \in 1 .. (Len(tests') + 1)
         /\ pc' = "horizontalDone" => hx'.ti = Len(tests') + 1 \/ hx'.gained >= missing'
    BY <1>1, <2>1, <2>3, <2>4, <2>6
  <2>11. QED
    BY <2>8, <2>9, <2>10 DEF ListsInv
<1>6. QED
  BY <1>3, <1>4, <1>5

\* The horizontal extension is followed by the vertical one only after its last
\* test.
LEMMA ListsFinished ==
    ASSUME IInv, MissingInv, ListsInv, FinishHorizontal
    PROVE  ListsInv'
<1>1. pc = "horizontalDone" /\ pc \in HorizontalPcs /\ pc' \in {"advance", "relation"}
  BY DEF FinishHorizontal, HorizontalPcs
<1>2. CASE pc' = "advance"
  BY <1>2 DEF ListsInv, HorizontalPcs, VerticalPcs, RelationPcs
<1>3. CASE pc' = "relation"
  <2>1. /\ UNCHANGED <<tests, cur, rows, dcRows>> /\ missing - hx.gained # 0
    BY <1>3 DEF FinishHorizontal, loopVars, partVars
  <2>2. missing - hx.gained \in Nat /\ missing \in Int /\ hx.gained \in Nat
    <3>1. uncovered \in SUBSET (Rels \X Tuples) /\ missing \in Int /\ hx \in HorizontalLocals
      BY DEF IInv, TypeOK
    <3>2. IsFiniteSet(uncovered)
      BY <3>1, TaggedFinite
    <3>3. Cardinality(uncovered) \in Nat
      BY <3>2, FS_CardinalityType
    <3>4. QED
      BY <1>1, <3>1, <3>3 DEF MissingInv, HorizontalLocals
  <2>3. hx.ti = Len(tests) + 1
    BY <1>1, <2>1, <2>2 DEF ListsInv
  <2>4. ListedTests = DOMAIN tests
    BY <1>1, <2>3, ListFacts DEF ListedTests
  <2>5. ListedTests' = DOMAIN tests
    BY <1>3, <2>1 DEF ListedTests, HorizontalPcs
  <2>6. /\ OneEach(dcRows, TestsWith(DontCare))
        /\ \A v \in Dom(cur) : OneEach(rows[v], TestsWith(v))
    BY <1>1 DEF ListsInv
  <2>7. /\ OneEach(dcRows', TestsWith(DontCare)')
        /\ \A v \in Dom(cur') : OneEach(rows'[v], TestsWith(v)')
    BY <2>1, <2>4, <2>5, <2>6, ListsSame
  <2>8. QED
    BY <1>3, <2>7 DEF ListsInv, HorizontalPcs
<1>4. QED
  BY <1>1, <1>2, <1>3

\* The vertical extension changes tests without moving them between lists, moves
\* one from the don't care list, or lists a new one.
LEMMA ListsVertical ==
    ASSUME IInv, ListsInv, InjectIntoMatchingTest \/ InjectIntoDontCareTest \/ AddTest
    PROVE  ListsInv'
<1>1. /\ rows \in [AllValues -> Seq(Nat)] /\ dcRows \in Seq(Nat)
      /\ tests \in Seq(PartialTests) /\ Len(tests) \in Nat
      /\ DOMAIN tests = 1 .. Len(tests)
  BY ListFacts
<1>2. /\ pc = "tuple" /\ pc \in VerticalPcs /\ pc \notin HorizontalPcs
      /\ pc' \in {"tuple", "comboDone"} /\ pc' \notin HorizontalPcs
      /\ cur' = cur
  BY DEF InjectIntoMatchingTest, InjectIntoDontCareTest, AddTest, TakeTuple, AfterTuple,
         HorizontalPcs, VerticalPcs, RelationPcs, loopVars
<1>3. cur \in Params /\ Dom(cur) \subseteq AllValues /\ DontCare \notin Dom(cur)
  BY <1>2, ListFacts
<1>4. /\ OneEach(dcRows, TestsWith(DontCare))
      /\ \A v \in Dom(cur) : OneEach(rows[v], TestsWith(v))
      /\ ListedTests = DOMAIN tests /\ ListedTests' = DOMAIN tests'
  BY <1>2 DEF ListsInv, ListedTests
<1>5. ASSUME NEW u \in Tuples, IsNextTuple(u), NEW t
      PROVE  /\ u[cur] \in Dom(cur) /\ u[cur] \in AllValues
             /\ Inject(t, u)[cur] = u[cur]
  <2>1. <<vx.rel, u>> \in MapTuples /\ u[cur] \in Dom(cur) /\ u[cur] \in AllValues
    BY <1>2, <1>5, NextTupleFacts DEF IInv, MapsInv
  <2>2. cur \in DOMAIN u
    BY <1>3, <2>1, MapTuplesCurrent
  <2>3. QED
    BY <1>3, <2>1, <2>2 DEF Inject
<1>6. SUFFICES /\ OneEach(dcRows', TestsWith(DontCare)')
               /\ \A v \in Dom(cur') : OneEach(rows'[v], TestsWith(v)')
  BY <1>2 DEF ListsInv, HorizontalPcs
<1>7. CASE InjectIntoMatchingTest
  <2>1. PICK u \in Tuples :
            /\ IsNextTuple(u)
            /\ \E k \in DOMAIN rows[u[cur]] :
                  tests' = [tests EXCEPT ![rows[u[cur]][k]] = Inject(@, u)]
    BY <1>7 DEF InjectIntoMatchingTest
  <2>2. PICK k \in DOMAIN rows[u[cur]] :
            tests' = [tests EXCEPT ![rows[u[cur]][k]] = Inject(@, u)]
    BY <2>1
  <2>3. u[cur] \in Dom(cur)
    BY <1>5, <2>1
  <2>4. rows[u[cur]][k] \in TestsWith(u[cur])
    BY <1>4, <2>3 DEF OneEach
  <2>5. rows[u[cur]][k] \in DOMAIN tests /\ tests[rows[u[cur]][k]][cur] = u[cur]
    BY <1>4, <2>4 DEF TestsWith
  <2>6. /\ DOMAIN tests' = DOMAIN tests
        /\ \A i \in DOMAIN tests : tests'[i][cur] = tests[i][cur]
    BY <1>5, <2>1, <2>2, <2>5
  <2>7. UNCHANGED <<cur, rows, dcRows>>
    BY <1>2, <1>7 DEF InjectIntoMatchingTest, partVars
  <2>8. QED
    BY <1>4, <2>6, <2>7, ListsSame
<1>8. CASE InjectIntoDontCareTest
  <2>1. PICK u \in Tuples :
            /\ IsNextTuple(u)
            /\ \E k \in DOMAIN dcRows :
                  /\ tests' = [tests EXCEPT ![dcRows[k]] = Inject(@, u)]
                  /\ dcRows' = RemoveAtPos(dcRows, k)
                  /\ rows' = [rows EXCEPT ![u[cur]] = Append(@, dcRows[k])]
    BY <1>8 DEF InjectIntoDontCareTest, RemoveNode
  <2>2. PICK k \in DOMAIN dcRows :
            /\ tests' = [tests EXCEPT ![dcRows[k]] = Inject(@, u)]
            /\ dcRows' = RemoveAtPos(dcRows, k)
            /\ rows' = [rows EXCEPT ![u[cur]] = Append(@, dcRows[k])]
    BY <2>1
  <2> DEFINE i == dcRows[k]
             w == u[cur]
  <2>3. w \in Dom(cur) /\ w \in AllValues
    BY <1>5, <2>1
  <2>4. i \in DOMAIN tests /\ tests[i][cur] = DontCare /\ i \in Nat
    BY <1>1, <1>4 DEF OneEach, TestsWith
  <2>5. /\ DOMAIN tests' = DOMAIN tests
        /\ tests'[i][cur] = w
        /\ \A j \in DOMAIN tests \ {i} : tests'[j] = tests[j]
    BY <1>5, <2>1, <2>2, <2>4
  <2>6. \A v \in Dom(cur) \cup {DontCare} :
            TestsWith(v)' = IF v = w THEN TestsWith(v) \cup {i}
                            ELSE IF v = DontCare THEN TestsWith(v) \ {i} ELSE TestsWith(v)
    BY <1>2, <1>3, <1>4, <2>3, <2>4, <2>5 DEF TestsWith
  <2>7. OneEach(dcRows', TestsWith(DontCare)')
    <3>1. TestsWith(DontCare)' = TestsWith(DontCare) \ {i}
      BY <1>3, <2>3, <2>6
    <3>2. QED
      BY <1>1, <1>4, <2>2, <3>1, OneEachRemoved
  <2>8. ASSUME NEW v \in Dom(cur) PROVE OneEach(rows'[v], TestsWith(v)')
    <3>1. rows[v] \in Seq(Nat) /\ v \in AllValues /\ v # DontCare
      BY <1>1, <1>3
    <3>2. CASE v = w
      <4>1. rows'[v] = Append(rows[v], i) /\ TestsWith(v)' = TestsWith(v) \cup {i}
        BY <1>1, <2>2, <2>3, <2>6, <3>1, <3>2
      <4>2. i \notin TestsWith(v)
        BY <2>4, <3>1 DEF TestsWith
      <4>3. QED
        BY <1>4, <2>4, <3>1, <4>1, <4>2, OneEachAppended
    <3>3. CASE v # w
      <4>1. rows'[v] = rows[v] /\ TestsWith(v)' = TestsWith(v)
        BY <1>1, <2>2, <2>6, <3>1, <3>3
      <4>2. QED
        BY <1>4, <4>1
    <3>4. QED
      BY <3>2, <3>3
  <2>9. QED
    BY <1>2, <2>7, <2>8
<1>9. CASE AddTest
  <2>1. PICK u \in Tuples :
            /\ IsNextTuple(u)
            /\ tests' = Append(tests, Inject(Unassigned, u))
            /\ rows' = [rows EXCEPT ![u[cur]] = Append(@, Len(tests) + 1)]
    BY <1>9 DEF AddTest
  <2> DEFINE i == Len(tests) + 1
  <2>2. i \in Nat /\ i \notin ListedTests /\ ListedTests' = ListedTests \cup {i}
    BY <1>1, <1>4, <2>1
  <2>3. \A j \in ListedTests : tests'[j] = tests[j]
    BY <1>1, <1>4, <2>1
  <2>4. tests'[i] = Inject(Unassigned, u)
    BY <1>1, <2>1
  <2>5. tests'[i][cur] = u[cur] /\ u[cur] \in Dom(cur)
    BY <1>5, <2>1, <2>4
  <2>6. dcRows' = dcRows
    BY <1>9 DEF AddTest
  <2>7. QED
    BY <1>2, <1>4, <2>1, <2>2, <2>3, <2>5, <2>6, ListsGrow
<1>10. QED
  BY <1>7, <1>8, <1>9

\* No step spoils the lists.
LEMMA ListsStep == IInv /\ MissingInv /\ ListsInv /\ [Next]_vars => ListsInv'
<1> SUFFICES ASSUME IInv, MissingInv, ListsInv, [Next]_vars PROVE ListsInv'
  OBVIOUS
<1>1. CASE BeginParameter \/ SelectSeededValue \/ SelectBestValue \/ SelectNoValue
           \/ CommitValue \/ CommitNoValue
  BY <1>1, ListsHorizontal
<1>2. CASE FinishHorizontal
  BY <1>2, ListsFinished
<1>3. CASE InjectIntoMatchingTest \/ InjectIntoDontCareTest \/ AddTest
  BY <1>3, ListsVertical
<1>4. CASE pc' \notin HorizontalPcs \cup VerticalPcs
  BY <1>4 DEF ListsInv, HorizontalPcs
<1>5. CASE /\ pc \in VerticalPcs /\ pc' \in VerticalPcs
           /\ UNCHANGED <<tests, cur, rows, dcRows>>
  <2>1. pc \notin HorizontalPcs /\ pc' \notin HorizontalPcs
    BY <1>5 DEF HorizontalPcs, VerticalPcs, RelationPcs
  <2>2. ListedTests' = ListedTests /\ \A i \in ListedTests : tests'[i][cur] = tests[i][cur]
    BY <1>5, <2>1 DEF ListedTests
  <2>3. /\ OneEach(dcRows, TestsWith(DontCare))
        /\ \A v \in Dom(cur) : OneEach(rows[v], TestsWith(v))
    BY <1>5 DEF ListsInv
  <2>4. /\ OneEach(dcRows', TestsWith(DontCare)')
        /\ \A v \in Dom(cur') : OneEach(rows'[v], TestsWith(v)')
    BY <1>5, <2>2, <2>3, ListsSame
  <2>5. QED
    BY <2>1, <2>4 DEF ListsInv, HorizontalPcs
<1>6. CASE UNCHANGED <<pc, tests, cur, rows, dcRows, hx, missing>>
  <2>1. ListedTests' = ListedTests /\ \A i \in ListedTests : tests'[i][cur] = tests[i][cur]
    BY <1>6 DEF ListedTests
  <2>2. pc' \in HorizontalPcs \cup VerticalPcs =>
            /\ OneEach(dcRows', TestsWith(DontCare)')
            /\ \A v \in Dom(cur') : OneEach(rows'[v], TestsWith(v)')
    BY <1>6, <2>1, ListsSame DEF ListsInv
  <2>3. QED
    BY <1>6, <2>2 DEF ListsInv
<1>7. QED
  <2>1. pc' \in HorizontalPcs \cup VerticalPcs /\ pc \notin HorizontalPcs \cup VerticalPcs =>
            BeginParameter
    BY PcStep DEF IInv, TypeOK
  <2>2. pc \notin HorizontalPcs \cup VerticalPcs \/ pc' \notin HorizontalPcs \cup VerticalPcs
        \/ BeginParameter \/ SelectSeededValue \/ SelectBestValue \/ SelectNoValue
        \/ CommitValue \/ CommitNoValue \/ FinishHorizontal
        \/ InjectIntoMatchingTest \/ InjectIntoDontCareTest \/ AddTest
        \/ StartRelation \/ NextCombo \/ RejectTuple \/ EndCombo \/ EndRelation
        \/ UNCHANGED <<pc, tests, cur, rows, dcRows, hx, missing>>
    BY StepCases, Zenon
    DEF vars, loopVars, mapVars, partVars, Abort, EnterConstruction, EraseInvalidSeed,
        CountCombinations, CreatePrefixTest, PrefixDone, CountPrefixParameter, LeaveLoop,
        SingleValuedParameter, FinishVertical, AdvanceRelations, ReplaceDontCareValues, Publish,
        HorizontalPcs, VerticalPcs, RelationPcs
  <2>3. ASSUME StartRelation \/ NextCombo \/ RejectTuple \/ EndCombo \/ EndRelation
        PROVE  /\ pc \in VerticalPcs /\ pc' \in VerticalPcs
               /\ UNCHANGED <<tests, cur, rows, dcRows>>
    BY <2>3
    DEF StartRelation, NextCombo, RejectTuple, AfterTuple, EndCombo, EndRelation,
        VerticalPcs, RelationPcs, loopVars, partVars, mapVars
  <2>4. QED
    BY <1>1, <1>2, <1>3, <1>4, <1>5, <1>6, <2>1, <2>2, <2>3

-------------------------------------------------------------------------------
(* The theorem *)

\* During the vertical extension every test is in exactly one of the intrusive
\* lists, once, and in the one of its value of the current parameter, however
\* they have been relinked.
THEOREM ListsAlwaysPartition == Spec => []ListsPartitionTests
<1>1. Init => ListsInv
  BY DEF Init, ListsInv, HorizontalPcs, VerticalPcs, RelationPcs
<1>2. CInv /\ ListsInv /\ [Next]_vars => ListsInv'
  BY ListsStep DEF CInv
<1>3. ListsInv => ListsPartitionTests
  <2> SUFFICES ASSUME ListsInv, pc \in VerticalPcs, NEW i \in DOMAIN tests
               PROVE  /\ Occurrences(dcRows, i) = IF tests[i][cur] = DontCare THEN 1 ELSE 0
                      /\ \A v \in Dom(cur) :
                             Occurrences(rows[v], i) = IF tests[i][cur] = v THEN 1 ELSE 0
    BY DEF ListsPartitionTests
  <2>1. \A v : i \in TestsWith(v) <=> tests[i][cur] = v
    BY DEF TestsWith, ListedTests, HorizontalPcs, VerticalPcs, RelationPcs
  <2>2. QED
    BY <2>1, OneEachCounted DEF ListsInv
<1>4. QED
  BY <1>1, <1>2, <1>3, CoverageInvariant, PTL DEF Spec
===============================================================================

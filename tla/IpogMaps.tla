------------------------------- MODULE IpogMaps -------------------------------
(***************************************************************************)
(* The IPOG job with the coverage maps it really has.  Ipog keeps a map as *)
(* the sets of its tuples that are uncovered and that are marked valid;    *)
(* here each of its steps also does to the maps what the code does to      *)
(* them.  That both agree is what Ipog takes for granted.                  *)
(***************************************************************************)
EXTENDS IpogProperties, CoverageMap

VARIABLE maps    \* relation_cov_maps, by relation

mapsVars == <<vars, maps>>

NoMaps == [r \in {} |-> {}]

MapsInit == Init /\ maps = NoMaps

\* The earlier positions of the combination of the parameters S.
CombinationOf(map, S) == {q \in Earlier(map) : Param(map, q) \in S}

TestsOf(I) == {tests[i] : i \in I}

\* The map of r, with the tuples covered by the seeded tests (ipog_measure_testset).
MeasuredMap(r) ==
    LET new == NewCoverageMap(SubSeq(Relations[r].params, 1, idx[r] + 1), CurrentStrength(r))
    IN FoldSet(LAMBDA C, map : CoverTuplesOf(map, C, TestsOf(1 .. numSeeds)),
               new, Combinations(new))

CreateMaps ==
    /\ BeginParameter
    /\ maps' = [r \in Participants |-> MeasuredMap(r)]

CoverByTest ==
    /\ CommitValue
    /\ maps' = [r \in DOMAIN maps |->
                   Cover(maps[r], tests'[hx.ti], tests'[hx.ti][cur], hx.validValues[hx.ti])]

CoverByModifiedTests ==
    /\ NextCombo
    /\ LET C == CombinationOf(maps[vx.rel], vx'.combo)
       IN maps' = [maps EXCEPT ![vx.rel] =
              IF AllCovered(@, C) THEN @
              ELSE CoverTuplesOf(@, C, TestsOf(vx.modified))]

\* The tuple that was visited is covered, or will never be.
VisitTuple ==
    /\ RejectTuple \/ InjectIntoMatchingTest \/ InjectIntoDontCareTest \/ AddTest
    /\ \E ru \in uncovered \ uncovered' :
          maps' = [maps EXCEPT ![vx.rel] =
                      SetCovered(@, CombinationOf(@, vx.combo), ru[2])]

DropMaps ==
    /\ AdvanceRelations
    /\ maps' = NoMaps

LeaveMaps ==
    /\ \/ EnterConstruction \/ EraseInvalidSeed \/ CountCombinations
       \/ CreatePrefixTest \/ PrefixDone \/ CountPrefixParameter
       \/ LeaveLoop \/ SingleValuedParameter
       \/ SelectSeededValue \/ SelectBestValue \/ SelectNoValue
       \/ CommitNoValue \/ FinishHorizontal
       \/ StartRelation \/ EndCombo \/ EndRelation \/ FinishVertical
       \/ ReplaceDontCareValues \/ Publish
       \/ Abort \/ Terminated
    /\ UNCHANGED maps

MapsNext == \/ CreateMaps \/ CoverByTest \/ CoverByModifiedTests
            \/ VisitTuple \/ DropMaps \/ LeaveMaps

MapsSpec == MapsInit /\ [][MapsNext]_mapsVars

-------------------------------------------------------------------------------
(* Properties *)

Marked(r, C) == {u \in TuplesOf(ParamsOf(maps[r], C)) : <<r, u>> \notin uncovered}

\* The bits set are those of the tuples marked, no two tuples share one, and all
\* are within the array.
BitsRepresentMarks(r) ==
    LET map == maps[r]
        bits(C) == {PhysicalIndex(map, C, u) : u \in Marked(r, C)}
    IN /\ map.covered = UNION {bits(C) : C \in Combinations(map)}
       /\ Cardinality(map.covered) =
              SumFunction([C \in Combinations(map) |-> Cardinality(Marked(r, C))])
       /\ map.covered \cup map.valid \subseteq 0 .. TotalNumTuples(map) - 1
       /\ \A C \in Combinations(map) :
              \A u \in TuplesOf(ParamsOf(map, C)) \ Marked(r, C) :
                  IsMarkedValid(map, C, u) <=> <<r, u>> \in valid

\* The combination a covered tuple is accounted to is its own: the rank
\* computed from binomials is the place in the enumeration, and
\* what the operations report is what they mark.
CountsRepresentMarks(r) ==
    LET map == maps[r]
    IN /\ \A C \in Combinations(map) :
              /\ Rank(map, C) = Cardinality({D \in Combinations(map) : ComboBefore(D, C)})
              /\ map.numCovered[Rank(map, C)] = Cardinality(Marked(r, C))
       /\ map.newly = Cardinality(map.covered)

\* The gains of a test, computed a word of a row at a time, are the numbers
\* of uncovered tuples the value would cover.
GainsExact ==
    pc = "select" =>
        \A v \in hx.validValues[hx.ti] :
            Gain(v) = SumFunction([r \in Participants |->
                                      AddedGain(maps[r], tests[hx.ti], v)])

\* Two pieces of code address the tuples of a map, one by combination and values, one by
\* rows of bits over all combinations (coverage_map.hpp:159, coverage_map.cpp:212-311).
\* Whatever order seeded tests, horizontal and vertical extension use them in, they mark,
\* count and look at the same tuples.
MapsExact ==
    /\ pc \in HorizontalPcs \cup VerticalPcs =>
           \A r \in Participants : BitsRepresentMarks(r) /\ CountsRepresentMarks(r)
    /\ GainsExact
===============================================================================

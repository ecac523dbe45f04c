---------------------------- MODULE MeasurementJob ----------------------------
(***************************************************************************)
(* What a coverage measurement promises its client                         *)
(* (covm_exec_handle.hpp, coverage_measurement.hpp): the client hands over *)
(* tests in the values of its own model and may ask for an abort at any    *)
(* time; one result is delivered, once.  It names the tests that violate   *)
(* the constraints, and for each relation it says what the other tests     *)
(* cover: all of it if it is marked completed, and what they cover of some *)
(* of the parameter combinations if it is marked aborted.                  *)
(*                                                                         *)
(* The parameters and tuples of CombinatorialModel are those of the        *)
(* simplified model; KeptValues says which of the client's values each of  *)
(* its values is.                                                          *)
(***************************************************************************)
EXTENDS CombinatorialModel, SequencesExt

CONSTANTS
    KeptValues,   \* KeptValues[p] lists the client's values of p that are kept
    TestSets      \* the test sets the client may have measured

ASSUME MeasurementAssumption ==
    /\ DOMAIN KeptValues = Params
    /\ \A p \in Params : KeptValues[p] \in Seq(Nat) /\ Len(KeptValues[p]) = NumValues[p]
    /\ \A p \in Params : \A i, j \in Dom(p) :
          i < j => KeptValues[p][i + 1] < KeptValues[p][j + 1]
    /\ TestSets \subseteq Seq([Params -> Nat \cup {DontCare}])

NUM_DIFFERENTIATED_COVERAGE_LEVELS == 21

VARIABLES allowed, clientTests, aborted, result

measurementVars == <<allowed, clientTests, aborted, result>>

ClientValue(p, x) == KeptValues[p][x + 1]

\* The values test t has agree with those of an allowed test.
Admissible(t) ==
    \E a \in allowed : \A p \in Params : t[p] = DontCare \/ t[p] = ClientValue(p, a[p])

InvalidIndices == {i \in DOMAIN clientTests : ~Admissible(clientTests[i])}

\* The elements of s at the positions I, in their order.
AtPositions(s, I) ==
    [n \in 1 .. Cardinality(I) |->
        s[CHOOSE i \in I : Cardinality({k \in I : k < i}) = n - 1]]

\* The tests that are measured.
ValidTests == AtPositions(clientTests, DOMAIN clientTests \ InvalidIndices)

Combos == [r \in Rels |-> kSubset(Relations[r].strength, RelParams(r))]

CoversTuple(t, u) == \A p \in DOMAIN u : t[p] = ClientValue(p, u[p])

TuplesOver(S) == UNION {TuplesOf(P) : P \in S}

Forbidden(S) == {u \in TuplesOver(S) : ~TupleAllowed(allowed, u)}

\* The tuples of the combinations S that the first n tests of s cover.
CoveredBy(s, n, S) == {u \in TuplesOver(S) : \E k \in 1 .. n : CoversTuple(s[k], u)}

\* A tuple that no test may have counts as covered.
Settled(s, S) == Forbidden(S) \cup CoveredBy(s, Len(s), S)

\* How many of the combinations S are covered to at least each of the levels.
LevelsOf(s, S) ==
    LET done == [P \in S |-> Cardinality(Settled(s, {P}))]
        reaches(P, l) == (NUM_DIFFERENTIATED_COVERAGE_LEVELS - 1) * done[P]
                             >= l * Cardinality(TuplesOf(P))
    IN [l \in 0 .. NUM_DIFFERENTIATED_COVERAGE_LEVELS - 1 |->
           Cardinality({P \in S : reaches(P, l)})]

\* What the tests s cover of relation r when exactly the combinations S are
\* looked at.
Measured(s, r, S) ==
    [combos  |-> Cardinality(Combos[r]),
     toCover |-> Cardinality(TuplesOver(Combos[r]) \ Forbidden(S)),
     covered |-> [n \in DOMAIN s |-> Cardinality(CoveredBy(s, n, S))],
     levels  |-> LevelsOf(s, S)]

\* Relation r when the measurement ends before it gets to any combination.
NotMeasured(r) == Measured(<<>>, r, {})

Pending == [code |-> "PENDING", invalid |-> {}, relations |-> <<>>]

JobInit ==
    /\ allowed \in ConstraintSets
    /\ clientTests \in TestSets
    /\ aborted = FALSE
    /\ result = Pending

RequestAbort ==
    /\ aborted' = TRUE
    /\ UNCHANGED <<allowed, clientTests, result>>

\* The tests s were held against all combinations of r, or a part of them.
IsWhole(s, r, measure) == measure = Measured(s, r, Combos[r])

IsPart(s, r, measure) ==
    \/ measure = NotMeasured(r)
    \/ \E S \in SUBSET Combos[r] : measure = Measured(s, r, S)

Deliver ==
    /\ result = Pending
    /\ result'.invalid = InvalidIndices
    /\ DOMAIN result'.relations = Rels
    /\ LET s == ValidTests
       IN \/ /\ result'.code = "COMPLETED"
             /\ \A r \in Rels : IsWhole(s, r, result'.relations[r])
          \/ /\ aborted
             /\ result'.code = "ABORTED"
             /\ \A r \in Rels : IsPart(s, r, result'.relations[r])
    /\ UNCHANGED <<allowed, clientTests, aborted>>

JobSafety == JobInit /\ [][RequestAbort \/ Deliver]_measurementVars

\* The client always gets its result.
JobSpec == JobSafety /\ <>(result # Pending)
===============================================================================

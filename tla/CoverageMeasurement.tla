-------------------------- MODULE CoverageMeasurement --------------------------
(***************************************************************************)
(* citcpp_covm: the job behind measure_coverage.  Its thread filters out   *)
(* the invalid tests, counts what there is to cover, and measures one      *)
(* relation after the other.  For each position of a relation there is a   *)
(* functor, a Lace task that visits the parameter combinations whose last  *)
(* parameter is at that position; the functors run concurrently, each with *)
(* its own counters, which the thread sums up when all have ended.  The    *)
(* client may abort at any time: a functor looks at the flag after every   *)
(* combination, the thread once before it measures and once when it        *)
(* decides on the result code.                                             *)
(*                                                                         *)
(* Relations have different names: the job keeps its measurements by name. *)
(***************************************************************************)
EXTENDS MeasurementJob

\* number_of_combinations_to_cover needs n - t + 1 tasks, in unsigned numbers.
ASSUME StrengthAssumption ==
    \A r \in Rels : Relations[r].strength <= RelLen(r) + 1

VARIABLES
    pc,          \* where the thread is in entry_point and main_covm_loop
    tests,       \* tests_, in the values of the simplified model
    invalid,     \* invalid_test_indices
    covm,        \* covm_per_relation
    rel,         \* the relation being counted or measured
    functors,    \* the functors of that relation, by last parameter
    progress,    \* the two counters the client may poll
    code         \* the result code

vars == <<allowed, clientTests, aborted, result,
          pc, tests, invalid, covm, rel, functors, progress, code>>

-------------------------------------------------------------------------------
(* The tests *)

\* A value that is not one of the model's (create_internal_test_set starts from
\* this and overwrites it when it finds the value).
NoSuchValue == -2

\* The client's value v of parameter p as the number of a value of the model.
InternalValue(p, v) ==
    IF v < 0 THEN DontCare
    ELSE IF \E x \in Dom(p) : KeptValues[p][x + 1] = v
         THEN CHOOSE x \in Dom(p) : KeptValues[p][x + 1] = v
         ELSE NoSuchValue

InternalTest(t) == [p \in Params |-> InternalValue(p, t[p])]

HasDontCareValue(t) == \E p \in Params : t[p] < 0

IsValidPartialTest(t) ==
    \E a \in allowed : \A p \in Params : t[p] >= 0 => t[p] = a[p]

\* A complete test is evaluated, a partial one put to the constraint handler.
IsValid(t) == IF HasDontCareValue(t) THEN IsValidPartialTest(t) ELSE t \in allowed

NumTests == Len(tests)

-------------------------------------------------------------------------------
(* One parameter combination *)

ComboSize(P) == Cardinality(TuplesOf(P))

TestsWith(u) == {i \in 1 .. NumTests : \A p \in DOMAIN u : tests[i][p] = u[p]}

\* The tuples the tests cover, and how many of them each test is the first to
\* cover: by a scan of the tests,
ScannedTuple(i, P) == [p \in P |-> tests[i][p]]

ByTestScan(P) ==
    LET has(i) == \A p \in P : tests[i][p] >= 0
        new(i) == has(i) /\ \A k \in 1 .. i - 1 : ScannedTuple(k, P) # ScannedTuple(i, P)
    IN [marked |-> {ScannedTuple(i, P) : i \in {k \in 1 .. NumTests : has(k)}},
        first  |-> [i \in 1 .. NumTests |-> IF new(i) THEN 1 ELSE 0]]

\* Mutant of LowestTest: the words of a conjunction are searched from the end.
HighestTest(u) == Max(TestsWith(u))

LowestTest(u) == Min(TestsWith(u))

\* or by conjunctions of the columns of the transposed tests.
ByTestColumns(P) ==
    LET covered == {u \in TuplesOf(P) : TestsWith(u) # {}}
    IN [marked |-> covered,
        first  |-> [i \in 1 .. NumTests |-> Cardinality({u \in covered : LowestTest(u) = i})]]

NumWords == (NumTests + 63) \div 64

\* The parameters of a combination in the order of its relation.
UpTo(P, p) == {q \in P : q <= p}

\* The conjunctions cost no more than the scan.
UseTestColumns(P) ==
    SumFunction([p \in P |-> ComboSize(UpTo(P, p)) * NumWords])
        <= Cardinality(P) * NumTests

MarkCoveredTuples(P) == IF UseTestColumns(P) THEN ByTestColumns(P) ELSE ByTestScan(P)

InvalidTuples(P, marked) == {u \in TuplesOf(P) \ marked : ~TupleAllowed(allowed, u)}

\* Mutant of CoverageLevel: a combination covered by half reaches the level above.
CoverageLevelRounded(done, size) ==
    (2 * (NUM_DIFFERENTIATED_COVERAGE_LEVELS - 1) * done + size) \div (2 * size)

CoverageLevel(done, size) ==
    ((NUM_DIFFERENTIATED_COVERAGE_LEVELS - 1) * done) \div size

\* covm_per_param_combo_functor::operator(), with combination P.
Visited(f, P) ==
    LET mark == MarkCoveredTuples(P)
        forbidden == InvalidTuples(P, mark.marked)
        level == CoverageLevel(Cardinality(mark.marked \cup forbidden), ComboSize(P))
    IN [left    |-> f.left \ {P},
        stopped |-> aborted,
        invalid |-> f.invalid + Cardinality(forbidden),
        covered |-> [i \in 1 .. NumTests |-> f.covered[i] + mark.first[i]],
        levels  |-> [l \in DOMAIN f.levels |->
                        f.levels[l] + IF l <= level THEN 1 ELSE 0]]

-------------------------------------------------------------------------------
(* The functors of a relation *)

NoLevels == [l \in 0 .. NUM_DIFFERENTIATED_COVERAGE_LEVELS - 1 |-> 0]

LastParams(r) == {Max(P) : P \in Combos[r]}

NewFunctor(r, p) ==
    [left    |-> {P \in Combos[r] : Max(P) = p},
     stopped |-> FALSE,
     invalid |-> 0,
     covered |-> [i \in 1 .. NumTests |-> 0],
     levels  |-> NoLevels]

NewFunctors(r) == [p \in LastParams(r) |-> NewFunctor(r, p)]

NoFunctors == [p \in {} |-> {}]

\* The last parameters change slowest, from the end of the relation down.
VisitedBefore(P, Q) == Max((P \cup Q) \ (P \cap Q)) \in P

NextCombo(left) == CHOOSE P \in left : \A Q \in left \ {P} : VisitedBefore(P, Q)

Ended(f) == f.left = {} \/ f.stopped

\* A sequence of counts, accumulated.
Accumulated(counts) == [i \in DOMAIN counts |-> SumFunctionOnSet(counts, 1 .. i)]

-------------------------------------------------------------------------------
(* The job *)

Init ==
    /\ JobInit
    /\ pc = "filter"
    /\ tests = [i \in DOMAIN clientTests |-> InternalTest(clientTests[i])]
    /\ invalid = {}
    /\ covm = <<>>
    /\ rel = 1
    /\ functors = NoFunctors
    /\ progress = [toProcess |-> 0, processed |-> 0]
    /\ code = "COMPLETED"

\* The client asks for an abort, or drops its handle.
Abort ==
    /\ aborted' = TRUE
    /\ UNCHANGED <<allowed, clientTests, result,
                   pc, tests, invalid, covm, rel, functors, progress, code>>

FilterTests ==
    /\ pc = "filter"
    /\ invalid' = {i \in DOMAIN tests : ~IsValid(tests[i])}
    /\ tests' = AtPositions(tests, DOMAIN tests \ invalid')
    /\ pc' = "count"
    /\ UNCHANGED <<allowed, clientTests, aborted, result,
                   covm, rel, functors, progress, code>>

NumCombinations(r) == SumFunction([P \in Combos[r] |-> ComboSize(P)])

\* Mutant of ToProcess: the counter is set, not added to.
ToProcessOfLast(r) == NumCombinations(r)

ToProcess(r) == progress.toProcess + NumCombinations(r)

CountCombinations ==
    /\ pc = "count"
    /\ rel \in Rels
    /\ covm' = Append(covm, [combos  |-> Cardinality(Combos[rel]),
                             toCover |-> NumCombinations(rel),
                             covered |-> <<>>,
                             levels  |-> NoLevels])
    /\ progress' = [progress EXCEPT !.toProcess = ToProcess(rel)]
    /\ rel' = rel + 1
    /\ UNCHANGED <<allowed, clientTests, aborted, result,
                   pc, tests, invalid, functors, code>>

\* An aborted job is over before it measures.
StartMeasuring ==
    /\ pc = "count"
    /\ rel \notin Rels
    /\ rel' = 1
    /\ IF aborted \/ Rels = {}
       THEN pc' = "decide" /\ UNCHANGED functors
       ELSE pc' = "measure" /\ functors' = NewFunctors(1)
    /\ UNCHANGED <<allowed, clientTests, aborted, result,
                   tests, invalid, covm, progress, code>>

VisitCombo(p) ==
    /\ pc = "measure"
    /\ ~Ended(functors[p])
    /\ LET P == NextCombo(functors[p].left)
       IN /\ functors' = [functors EXCEPT ![p] = Visited(functors[p], P)]
          /\ progress' = [progress EXCEPT !.processed = @ + ComboSize(P)]
    /\ UNCHANGED <<allowed, clientTests, aborted, result,
                   pc, tests, invalid, covm, rel, code>>

\* The counters of the functors are summed up.  The next relation is measured
\* even if the job has been aborted meanwhile.
AggregateFunctors ==
    /\ pc = "measure"
    /\ \A p \in DOMAIN functors : Ended(functors[p])
    /\ LET first == [i \in 1 .. NumTests |->
                        SumFunction([p \in DOMAIN functors |-> functors[p].covered[i]])]
       IN covm' = [covm EXCEPT
              ![rel].toCover = @ - SumFunction([p \in DOMAIN functors |-> functors[p].invalid]),
              ![rel].covered = Accumulated(first),
              ![rel].levels = [l \in DOMAIN NoLevels |->
                                  SumFunction([p \in DOMAIN functors |-> functors[p].levels[l]])]]
    /\ IF rel + 1 \in Rels
       THEN rel' = rel + 1 /\ functors' = NewFunctors(rel + 1) /\ UNCHANGED pc
       ELSE pc' = "decide" /\ functors' = NoFunctors /\ UNCHANGED rel
    /\ UNCHANGED <<allowed, clientTests, aborted, result,
                   tests, invalid, progress, code>>

DecideCode ==
    /\ pc = "decide"
    /\ code' = IF aborted THEN "ABORTED" ELSE "COMPLETED"
    /\ pc' = "deliver"
    /\ UNCHANGED <<allowed, clientTests, aborted, result,
                   tests, invalid, covm, rel, functors, progress>>

SetCoverageMeasurement ==
    /\ pc = "deliver"
    /\ result' = [code |-> code, invalid |-> invalid, relations |-> covm]
    /\ pc' = "done"
    /\ UNCHANGED <<allowed, clientTests, aborted,
                   tests, invalid, covm, rel, functors, progress, code>>

\* The thread of the job and the workers.
Work ==
    \/ FilterTests
    \/ CountCombinations
    \/ StartMeasuring
    \/ \E p \in DOMAIN functors : VisitCombo(p)
    \/ AggregateFunctors
    \/ DecideCode
    \/ SetCoverageMeasurement

Next == Work \/ Abort

\* The thread and the workers are scheduled; nobody has to abort.
Spec == Init /\ [][Next]_vars /\ WF_vars(Work)

-------------------------------------------------------------------------------
(* Properties *)

\* The client gets the promised result: a completed one is the exact coverage,
\* however the functors interleave and whichever way they mark covered tuples; an
\* aborted one, which only a client that asked for it gets, is exactly what a part
\* of the combinations shows (entry_point, measure_coverage).
Job == INSTANCE MeasurementJob WITH
    allowed <- allowed, clientTests <- clientTests, aborted <- aborted, result <- result

ImplementsMeasurement == Job!JobSpec

\* The client never sees more processed than there is to process, and a completed
\* measurement has processed all of it (covm_exec_handle.hpp; the functors add to
\* the counter concurrently, the counting of the relations sets it up).
MeasuredProgress ==
    /\ pc \in {"measure", "decide", "deliver", "done"} =>
          progress.processed <= progress.toProcess
    /\ result.code = "COMPLETED" => progress.processed = progress.toProcess

\* Whenever one looks, the counters of a functor are exactly right for the
\* combinations it has visited, and nobody else visits those: what is summed up
\* after an abort is as exact as after the end.
FunctorCountsExact ==
    LET s == ValidTests
    IN \A p \in DOMAIN functors :
           LET f == functors[p]
               seen == {P \in Combos[rel] : Max(P) = p} \ f.left
           IN /\ f.invalid = Cardinality(Forbidden(seen))
              /\ f.levels = LevelsOf(s, seen)
              /\ Accumulated(f.covered) =
                     [n \in DOMAIN s |-> Cardinality(CoveredBy(s, n, seen))]

\* Every value in the client's tests is one of those that are kept.
OnlyKeptValues ==
    \A s \in TestSets : \A i \in DOMAIN s : \A p \in Params :
        s[i][p] \in ToSet(KeptValues[p]) \cup {DontCare}

\* "Returns a list of indices of tests which are invalid, i.e. violate at least
\* one constraint" (covm_exec_handle.hpp:56-58): a test with a value that no
\* allowed test has is on the list.
InvalidTestsReported ==
    result # Pending =>
        \A i \in DOMAIN clientTests :
            (\E p \in Params : clientTests[i][p] \notin ToSet(KeptValues[p]) \cup {DontCare})
                => i \in result.invalid
===============================================================================

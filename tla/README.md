# A TLA+ verification project for citcpp

citcpp computes covering arrays: given parameters with finite domains, relations
(sets of parameters with an interaction strength) and constraints, it finds a small
set of tests such that every allowed combination of values of any `t` parameters of a
relation of strength `t` occurs in a test. This directory holds TLA+ models of the
library, the TLC instances that check them, and proofs checked by TLAPS.

Paths below are relative to `src/citcpp_lib/src/detail` unless they say otherwise.

## 1. Inventory

| Component | State | Operations | Interacts with |
|---|---|---|---|
| IPOG job (`citcpp_ipog.cpp`, `ipog_*.cpp`) | test set, position in the parameter order, `current_param_idx` of each relation, maps, partition lists | `entry_point`, two main loops, the loop body, horizontal and vertical extension | calls the constraint handler and the coverage maps, writes the counters and the promise of the handle, reads its abort flag |
| Coverage maps (`coverage_map.*`, `param_combo_iteration.hpp`, `bitset.hpp`, `binom_coeff_table.*`) | two bits per tuple (covered, valid), a count per combination | `add_gains`, `cover`, `cover_tuple_of`, `for_each_row` | created per relation and parameter by the IPOG job, and used by its thread only |
| Combinatorial model (`internal_model.*`, `citcpp_algo_common.*`, `parameter_preprocessor.*`) | domain sizes, relations, index map | counting of combinations, parameter order | read by everything |
| Constraint handler (`constraint_handler*.{hpp,cpp}`) | one decision diagram per component of the constraint graph | validity of tests and tuples, valid values of a parameter, first test that admits a tuple, completion of tests | called by both kinds of jobs; runs Lace tasks |
| Sylvan LDD operations (`citcpp_sylvan_ldd.*`) | node table, references, garbage collector | projection, intersection, union, satisfiability under a partial assignment | called by the constraint handler, on Lace workers |
| Lace and Sylvan life cycle (`lace_lifecycle.*`, `constraint_handler_sylvan_ldd.cpp:420-461`) | two global counters, each under its mutex | start on first use, stop on last | every job with constraints, every coverage measurement |
| Execution handle (`cagen_exec_handle_base.hpp`, `*_exec_handle*_impl.hpp`) | atomic counters, abort flag, promise, thread | getters, `abort`, `get_test_set`, destructor | shared by the client's threads and the job's |
| Coverage measurement (`citcpp_covm.cpp`, `covm_algorithm_uniform_strength.tpp`) | counts per strength | `entry_point` | the constraint handler, the Lace executor, its own handle |
| Simplifier, evaluator (`model_simplifier.cpp`, `constraint_evaluator.cpp`) | none | rewriting, evaluation | run before a job and on complete seeds |
| Public API, parsers, command line tool | values | construction, parsing, printing | create jobs |

What is hard, and for which component:

* *One thread works, another aborts at any moment* (IPOG job, handle). The flag is
  looked at in four places; the result code is read from it once more at the end; and
  what was counted and reported until then must describe what was done.
* *Bookkeeping spread over several functions* (IPOG job, coverage maps). A tuple is
  marked covered by the measurement of seeds, by the horizontal extension, by the
  vertical one when it injects it and by `cover_tuple_of` when a test covers it by
  chance, while an unsigned count of missing tuples, on which the loops stop, is
  decreased elsewhere. A mark too many makes the array incomplete, a mark too few makes
  the count wrap around.
* *Answers used after the question has changed* (IPOG job, constraint handler). Valid
  values are asked for all tests at once, before any is changed; marks that come from
  them allow the vertical extension to skip the constraint handler.
* *Intrusive lists relinked while tests change* (vertical extension).
* *Relations of different strength* that join, advance and run out at different
  parameters, in two loops with different code.
* *Task parallelism* (constraint handler, LDD operations): the first test that admits
  a tuple is searched by tasks that see each other's results late.
* *Global counters* that start and stop Lace and Sylvan under several jobs.

What makes a component correct: for the IPOG job, section 3. For the coverage maps,
that the layout keeps tuples apart, and that all operations agree on it. For the constraint handler, that its answers are
those of the conjunction of the constraints. For the first-valid search, that it
returns the lowest index whatever the schedule. For the life cycle, that no job works
without the packages it uses. For the handle, that the thread is joined before what it
uses goes away.

## 2. Plan

Modules, in the order of their importance to what the library promises:

1. `CombinatorialModel`, `CoveringArrayJob`, `Ipog`, `IpogProperties`, `MCIpog`,
   with proofs in `CombinatorialModelProofs` and `IpogProofs`: done.
2. `FirstValidAnswer`, `FirstValidSearch`, with proofs in `FirstValidSearchProofs`: done.
3. `Propositions`, `Constraints`, `Visitors`, `ModelSimplifier`, `ConstraintComponents`, `MCConstraintComponents`,
   with proofs in `ConstraintComponentsProofs`: done.
4. `PackageLifecycle`, `MCPackageLifecycle`, with proofs in `PackageLifecycleProofs`: done.
5. `DiagramNodes`, `IntervalDiagrams`, `DiagramConstruction`, `DiagramQuery`,
   `DiagramSearch`, `DiagramPackage`, `MCDiagrams`, with proofs in
   `DiagramSearchProofs`: done.
6. `MeasurementJob`, `CoverageMeasurement`, `MCMeasurement`, with proofs in
   `CoverageMeasurementProofs`: done.
7. `ExecHandle`: destructor, joining and the getters; the unprotected parameter counters.
8. `CoverageMap`, `IpogMaps`, `MCIpogMaps`, with proofs in `CoverageMapProofs`: done.

## 3. The IPOG job

### Modules

* `CombinatorialModel`: parameters, domains, relations, tuples, tests, and what
  constraints mean. A parameter is named by its position in the index map of the job.
  Constraints are the set of complete tests they allow; `Extendable` is what
  `is_valid_partial_test` decides, `TupleAllowed` what `is_valid_tuple` decides.
* `CoveringArrayJob`: what any job promises its client. It has three variables (the
  constraints, the abort flag, the result) and two actions: the client asks for an abort,
  the job delivers.
* `Ipog`: the algorithm, one action per step of the code that changes shared state.
* `IpogProperties`: the type invariant and the properties.
* `CoverageMap`: the coverage maps as they are: the layout of the tuples, the binomial table
  and the ranks of combinations, and the operations, those of the horizontal extension a word of
  a row at a time. A bit array is the set of the positions of its set bits; a word is a set
  of bits, so that what shifting loses is lost. `WordBits` is the width of a word.
* `IpogMaps`: `Ipog` and the variable `maps`. Each of its actions is actions of `Ipog` together
  with what the code does to the maps then: `CreateMaps` with the measurement of the
  seeds, `CoverByTest`, `CoverByModifiedTests`, `VisitTuple`. `LeaveMaps` are all others.
* `MCIpog`, `MCIpogMaps`: the instances.

### State and actions

| Model | Code |
|---|---|
| `pc` | where the job's thread is in `entry_point` and its callees |
| `tests` | `test_set`, a list of tests; `-1` is a don't care value |
| `cur`, `idx`, `live` | `current_param_idx` of the job and of each relation, the relations not erased |
| `uncovered`, `valid` | the covered (negated) and valid bits of all maps of the parameter, as sets of `<<relation, tuple>>` |
| `missing` | `number_combos_to_process` |
| `hx`, `vx` | locals of the two extensions |
| `rows`, `dcRows` | the intrusive lists, as sequences of test indices |
| `handle`, `aborted`, `result` | `cagen_exec_handle_base` |

`EnterConstruction`, `EraseInvalidSeed`, `CountCombinations`, `ReplaceDontCareValues` and
`Publish` are the steps of `entry_point`; `CreatePrefixTest`, `PrefixDone` and
`CountPrefixParameter` the first main loop before its first extension;
`SingleValuedParameter`, `BeginParameter`, `FinishHorizontal`, `FinishVertical` and
`AdvanceRelations` the loop body; `Select...` and `Commit...` the horizontal extension, a
test at a time; `StartRelation`, `NextCombo`, `RejectTuple`, `InjectInto...`, `AddTest`,
`EndCombo`, `EndRelation` the vertical one, a tuple at a time. `Abort` is the client and can
happen between any two of them. Steps are cut where the abort flag is read and where a
client can see a counter change.

Lists are searched in order by the code, and so does the model: the action takes the
element for which no earlier one fits. Where the code picks a best value, the order by
gain, then remaining options, then cyclic distance from the last value picked is kept.

Abstracted: the per-test diagram cache, which
`constraint_handler.cpp:70` turns off; the conversion of the result to named values; clock
and duration; the Lace tasks below the constraint handler, which return the
same answer in any order; in `Ipog`, but not in `IpogMaps`, the layout of the maps. Counts are mathematical integers: their range is 64 bits, and
`MissingExact` shows that the one that is decreased does not pass zero. `Constrained` says
that a parameter's values are restricted by the constraints, where the code asks whether
the parameter occurs in one that is left after simplification.

Bounds: no counter needs one, since every loop of the job ends. The instances bound the
inputs only.

### Runs

* `uniform`: one relation of strength 2 over five parameters with 3, 2, 2, 2 values and one, and
  72 pairs of constraints that each forbid one pair of values (of the first and another
  parameter, and of another and the fourth), without seeds and with a complete and a partial one, the first of
  which some constraints exclude. Large enough that
  values conflict through two constraints, that the horizontal extension leaves don't care
  values, and that the vertical one injects into tests of both lists and adds new ones.
  Checks types, marks, lists, progress and completability, that tests are only filled in,
  and that the future becomes ready.
* `mixed`, of `IpogMaps`: three overlapping relations (strength 4 over five parameters, 2 over four, 3
  over two only), a single-valued parameter, an unused but constrained one, and seeds: none, an empty
  test, a partial one, and a complete and a partial one, some of which some constraints
  exclude; don't care values are kept. Both main loops run. Checks that processed parameters are
  covered and counts of missing tuples exact, where relations join, advance and end at different
  parameters, that the unguarded `relations[0]` exists, that the job refines
  `CoveringArrayJob`, and `MapsExact`.
  Words have four bits. With 3, 2, 2, 2 and 2 values, rows then have one to three words and
  begin at any bit of one; in the map of strength 4 two levels of positions are chosen above the row,
  and seeds make the maps of one to four parameters, of strengths 1 to 4, be used.
* `overlap` (a violation): two relations, `{1,2,4}` of strength 2 and `{1,2,3}` of strength 3. The loop
  over the prefix parameters counts, on each iteration and for each relation that has reached
  its strength, the combinations of all its parameters so far (`citcpp_ipog.cpp:274`). The
  pairs of the first relation are counted twice, and more is processed than there was to process.
* `aborted_parameters` (a violation): an abort between the extensions. The parameter is
  reported as completely processed (`citcpp_ipog.cpp:400`) after the loop body has returned
  early (line 166).

`ProgressExact` is checked for a job of one relation: it states what `overlap` shows to be
wrong for some models with several. Section 5 says for which models it is proved. The step `Publish` reads the abort flag and delivers; in the code the client
may abort in between and still get a result marked completed, which is the same as an abort after
the delivery, and no property says that the abort comes in time. `get_testset_size` stays zero for
a job whose used parameters all have one value and that has seeds: the size is set after extensions only.

`MapsExact` ties the two ways to address tuples together. Seeds and the vertical extension compute
the position of one tuple from its values (`physical_index`); the horizontal extension walks rows in
which the tuples of all combinations lie side by side, and finds the combination a tuple counts for
from binomials. In every state of both extensions, the set bits must be
those of the tuples that `Ipog` has marked, no two tuples may share one, the numbers kept per combination must
be those of its own tuples, the rank must be the combination's place in the enumeration (what the
constructor throws a `logic_error` for), and the gains of a test must be the numbers of uncovered tuples.

The properties and the hazards they are for are listed in PROJECT.json; each is stated above
its definition in `IpogProperties`. Every property of a passing run is broken by a
mutated definition of the model (the definitions commented as mutants), which is never
used otherwise.

### Fairness

`FairSpec` assumes weak fairness of `Worker`: the job's thread keeps running, which is what an operating
system gives a thread that does not block; between its start and its end it waits only for
Lace tasks it has itself given to the pool. Nothing is assumed of the client. With it `ResultDelivered` holds: all loops
end.

## 4. The search for the first valid test

`get_first_test_valid_for_assignment` is what the vertical extension asks for every tuple.
`FirstValidAnswer` is its interface: one step that returns the position of the first test
that admits the assignment, or none. Which tests admit it is an input (`good`), since the
constraints do not change during a call. `FirstValidSearch` is the code: the empty list, the sequential
search (`Call`, `WriteNext`, `CheckNext`, `SequentialEnd`), and the task tree of the parallel
one (`Split`, `StartLeaf`; `Look`, `Check`, `Compare`, `Lock`, `StoreIndex`, `StoreTest`,
`Unlock` for a leaf; `ParallelEnd` when the root task has been synced with).

Concurrency. Any ready task and any leaf may take the next step, so the model has every
schedule of a pool of any size, including a worker that runs another task while it waits in
`SYNC`. A relaxed read outside the lock may return any value the atomic has had since the call
began (`stored`), which is more than coherence allows. Under the lock the read returns
the last value: all stores happen there. The spin lock is its test-and-set with acquire and release; the
back-off is time only. What `is_valid_partial_test` does below is atomic: no other
leaf looks at the same test.

`first_valid` runs lists of up to six tests with leaves of two, so that lists of three or
more are split, six into four leaves, and all subsets of tests may be good. Mathematical
integers stand for `size_t`: positions are at most the length of the list.
Fairness: `FairSpec` assumes that as long as some worker can take a step one
does. No fairness between leaves is needed: each ends by itself, and the lock is
released in a bounded number of steps of its holder.

Proved in `FirstValidSearchProofs` for every length and leaf size (from `SearchAssumption`, that
leaves are not empty): `TypeCorrect`, `FirstTestAlwaysReturned`, `TestsAlwaysUntouched`,
`PointerAlwaysMatches`, and `Refinement`, that the search implements `FirstValidAnswer`. The inductive
invariant says that the waiting ranges and the leaves are disjoint (`DisjointInv`) and cover the list (`CoverInv`);
that a leaf has passed over tests that are not good only, and that one that has
ended, for whatever reason, leaves no good test below `min` in its range (`LeafInv`): the position it read was
stored, and stored positions are never below `min` (`StoredInv`); and that `test` differs
from `min` only between the two stores of the leaf that holds the lock (`PointerInv`,
`LockInv`). `SearchEnds` is liveness and only model-checked.

## 5. What is proved about the IPOG job

`CombinatorialModelProofs` has the facts about `Covers`, `Fits`, `Inject`, `Assign` and
`Extendable` (for instance: injecting a tuple that fits a test gives a test whose extensions
are those of both). `IpogProofs` proves, for every number of parameters, domains, relations,
constraint sets and seeds that satisfy `ModelAssumption` and `InputAssumption`:

* `TypeCorrect`: `Spec => []TypeOK`.
* `TestsStayExtendable`: `Spec => []TestsExtendable`. Every test can at any time be completed to an allowed one.
* `MarkedTuplesAllowed`: `Spec => []ValidMarksSound`. A tuple marked valid is allowed.

All follow from one inductive invariant, `IInv`. `TestsExtendable` is not inductive
alone: the horizontal extension writes a value from `hx.validValues`, which was computed
earlier, so the invariant has to say that for tests not reached yet these are still the
values that keep the test extendable, and that the selected one is among them; the vertical
extension injects tuples marked valid without asking, but only into tests for which the
handler agreed, or into a new test, so that `ValidMarksSound` is needed for the new
test; and `ValidMarksSound` in turn rests on the tests whose values the marks come
from being extendable. `IInv` also carries that a seed measured as covering a tuple is
extendable, the bounds of the locals (positions, list members, relation indices) that type correctness needs,
and that the maps only hold tuples of the current parameter. TLC checked `IInv` as an invariant of instances
before it was proved.

Its second part proves, under the same assumptions, that the job does what it is for:

* `JobImplemented`: `Spec => ImplementsJob`, the refinement of `CoveringArrayJob`. One result is
  delivered, its tests are allowed or can be completed, and one marked completed is a covering array.
* `ProcessedAlwaysCovered`: `Spec => []ProcessedParametersCovered`.
* `MarksAlwaysSound`: `Spec => []CoveredMarksSound`.
* `MissingAlwaysExact`: `Spec => []MissingExact`.
* `ValuesNeverChange`: `Spec => ValuesKept`.
* `RelationAlwaysLeft`: `Spec => []SomeRelationAtParameter`.

They follow from `CoverageInvariant`, that `CInv` holds. Its parts, beside `IInv`, and why each is there:

* `SelectedInv`: a value selected for a test is the one it has, if it has one; only then does committing
  it keep the values of the test (`ValuesStep`), on which all that has been covered relies.
* `CoveredMarksSound` itself is inductive: what is covered stays so (`CoveredStep`), and each of
  the pieces of code that set marks covers what it marks.
* `VisitInv`: a tuple the vertical extension has not marked covered is of a relation, a combination or a
  value it has still to visit. Hence at its end no tuple is left, unless it was aborted.
* `MissingInv`: `missing`, less what the extension that runs has counted and not yet subtracted, is the number of
  tuples not marked covered. Hence the horizontal extension may skip the vertical one when it
  becomes zero, and `missing` never passes zero. `RemovedCount` and `RemovedOne` count what is unmarked.
* `RelationsInv`: a relation left has exactly the parameters before the current one behind it, and an
  erased one all of its own. Hence the relations that take part in a step are all those the current parameter belongs to
  (`CurrentRelation`).
* `CoverageInv`: unless aborted, the tests cover every allowed tuple of up to as many
  parameters of a relation as its strength, all of them before the current one. It is about tuples of *up to* that size, since
  a relation that has not reached its strength has maps of its first parameters only. The step from
  one parameter to the next is `MapsSuffice`: a tuple with the current parameter that is smaller than the
  combinations of the maps is part of one of theirs (`Padding`), and an allowed test gives the rest its values.
  `PrefixSuffices` is the same for the first main loop, `SingleValueSuffices` for a parameter with one value.
* `ReportInv`: the number of parameters the client sees is not ahead of the job.
* `ResultInv`: the promise is kept for the end.

TLC checked `CInv` as an invariant of instances first.

Another section of the module proves `ListsAlwaysPartition`: `Spec => []ListsPartitionTests`, from `ListsInv`. While the
horizontal extension runs, the lists have the tests it has been through (`ListedTests`), each once and
in the list of its value (`OneEach`); a test for which no value was selected has none. The horizontal
extension may return before it has been through all tests, and those left are in no list. It does so only if
nothing is missing, and then the vertical extension is skipped; that `missing` tells this exactly is
`MissingInv`, so the proof rests on `CInv`. TLC checked `ListsInv` on instances first.

A further one proves `ProgressAlwaysExact`: `Spec => []ProgressExact`, under two hypotheses on the model, each of
which the code needs:

* `NoneReachedEarly`: no relation has as many parameters as its strength before the last parameter of the
  prefix. Otherwise the loop over the prefix counts combinations twice, as `overlap` shows. `EqualStrengths`
  proves that it holds for one relation and for several of the same strength; it also holds for relations of different
  strengths that do not reach the weaker one's within the prefix.
* Some used parameter has more than one value. Otherwise `get_testset_size` may stay zero (section 3).

The invariant is `ProgressInv`, next to `CInv`. `TargetsUpTo(k)` are the tuples to cover with no parameter
after `k`. Between parameters (`CountedInv`) exactly those before the current one have been counted as processed, and
the allowed ones of them as covered; an aborted job has counted no more. Within a parameter (`CountingInv`) the counters,
plus what the extension has counted and not yet reported, are those plus the tuples that are marked
and of full strength. The two meet because the tuples of full strength of a parameter's maps are
the targets that the parameter adds (`NewTargets`, from `RelationsInv`), and all of them are
marked unless the job was aborted (`MissingInv`). That a tuple is counted as covered exactly if it is allowed
needs both directions: a covered one is part of an allowed test (`CoveredAllowed`, from
`TestsExtendable`), and the vertical extension counts one as not covered only if the
constraint handler refused it. `PrefixTargets` says what the loop over the prefix reports, and is where
`NoneReachedEarly` is used. `SizeInv` is about the number of tests, and `DeliveredInv` keeps what holds at the delivery.
TLC checked `ProgressInv` on instances first.

### The coverage maps

`Ipog` keeps a coverage map as two sets of tuples. That the code's bits, words, ranks and counters come to the same is
`MapsAlwaysExact`: `MapsSpec => []MapsExact`, in `CoverageMapProofs`, for every model, every set of
constraints and of seeds, and every width of a word. `MapsFollowJob` (`MapsSpec` implies `Init` and
`[][Next]_vars`) makes all of the above hold for the job with its maps too. The argument goes upwards:

* Words. `LoadBitsExact` and `OrBitsExact`: a word loaded or stored at any position is that of the bits there (`Position`
  splits a position into word and bit, `Shifted` says what the bits of a shifted word are).
* Places. `TupleCounts` and `Coefficient` satisfy their recursive definitions (`Layout`, `CoefficientDefined`), as the finite
  instances of `Recursion`. An index among the tuples of one value is a number whose digits are chosen from the top
  level down: `IndexBetween` bounds the terms below a level by the term of the next position, so two tuples with the same index have
  the same top position and value, and then the same rest (`IndexInjective`). `PlacesDistinct` adds the
  value of the last parameter.
* Ranks. `RankCounts`: the terms of a rank count the combinations that come earlier at each level, by Pascal's rule
  (`Pascal`, `PositionSetsCount`). Hence `RankIsPlace`: the code's check of ranks, which throws a `logic_error`, never fails.
* Rows. `CombinationOfBit` and `BitOfCombination`: each bit of a test's rows is one combination the test has
  values for, each of those is a bit of one word of one row only, at the place of its tuple
  (`PlaceOfBit`) and with its rank. So sums over words count combinations (`WordsCount`).
* Operations. `Reflects(map, Mk, Vd)` says that bits and counters are those of the covered tuples `Mk`, and that the valid
  bits are those of `Vd` where a tuple is not covered; no one looks at the others. `NewMapReflects`, `MeasuredMapReflects`, `CoverTuplesReflects`,
  `SetCoveredReflects` and `CoverReflects` say what each operation makes of it, and `GainReflects` what `add_gains` answers.
  A counter is raised only by tuples not covered before, which is why `AllCovered` can be trusted (`AllCoveredIff`).
* The job. `BInv` has, next to `CInv`, that every relation at the current parameter has a map that reflects `uncovered`
  and `valid` (`StandInv`), and that the vertical extension turns to relations and combinations of these
  maps only (`CombosInv`). `CombosOfMap` matches the positions of a map with the parameters of the relation,
  `HitCovers` the words of a row with `Covers`. Each kind of step keeps it: `CreateStep`, `CoverStep`, `ComboMarksStep`, `VisitMarksStep`,
  `LeaveStep`; all others leave maps and pairs alone. `StandsExact` and `GainsFromMaps` read `MapsExact` off it.

Sums (`SumFunction`, `FoldSet`) and recursive functions are reasoned about by a smallest counterexample (`Smallest`,
`Induction`, `MinimalSet`), since the induction theorems are out of the provers' reach. In `StandInv` the marks `valid` of covered tuples are left open: the
code and `Ipog` may differ there, and neither looks at them. TLC checked `CombosInv` and `StandInv` on the instance of `mixed`.

### Assumptions, and what is only model-checked

Assumptions: `ModelAssumption` (domains are not empty, a relation lists its parameters in
index map order, and the index map starts with the parameters that relations use), and
`InputAssumption` (constraints allow at least one test, and seeds have a value in range or
none); `WordAssumption`, that a word has a bit. The model checker evaluates them for every instance.

Only model-checked: the liveness property `ResultDelivered`, which needs fairness and is out of the prover's reach. Counts are
mathematical integers in the model, so that the proofs say nothing of an overflow in the code.

## 6. Constraints: simplification, components, answers

Section 3 takes the constraints as the set of tests they allow. These modules go from
the expressions the client writes to the answers a job gets:

* `Propositions`: the comparison of a parameter's value with a constant, by the values (`Holds`), and as
  a decision diagram takes it (`Admitted`): an interval of places in the list of values, from one end
  of the list up to the satisfying value that is furthest from it.
* `Constraints`: expressions, and for each visitor what it makes of an expression from what it
  has made of the operands: `EvalNode` (the evaluator), `AdmitsNode` (`constraint_to_xdd_visitor`), `CollectNode`, `ResolveNode`, `FlatNode`, and
  `SimplifyNode`, whose result is the new expression, the limits (`param_to_valid_values_map`) and
  `did_simplify`. A value is an integer; boolean and enumerated propositions are those with the
  operators `EQ` and `NEQ`.
* `Visitors`: the same over all of an expression, by recursion. The model checker uses these.
* `ModelSimplifier`: `simplify_model`. `ResolveImplications` and `FlattenConstraints` are its
  first two loops, `SimplifyConstraint` takes the next constraint of a round and `EndPass`
  removes values from the domains and decides on another round. The visitors are parameters of the
  module, of which the named assumptions say that they do at each expression what `Constraints` says. The
  instance gives them the definitions of `Visitors`, and TLC evaluates the assumptions for all expressions
  that come up in it. A proof can use them for expressions of any depth, where it could not use a
  recursive operator.
* `ConstraintComponents`: `CreateHandler` (the variable order; among domains of
  the same size any order, where the code prefers well connected parameters), `StartPartition` and
  `VisitParameter` (breadth-first search of the constraint graph), `CreateComponent` and `EndComponents`
  (step 3 of `setup_partitioned_idds`, a partition at a time), `ApplyConstraint` (step 4); and the answers as operators. A
  decision diagram is the set of assignments it admits; what a completion picks among them is left open.
  What it admits depends on the order of the values: `listing` has the values of each parameter as the job finds
  them.

The order of values. The visitor takes the last listed value of an integer parameter for its greatest and
the first for its smallest (`constraint_handler_sylvan_ldd.cpp:231`, `:278`), while clients and the parser list
values in any order. Both fit together because every entry of the library sorts the values of integer parameters
first (`sort_parameter_values`, `src/citcpp_lib/src/citcpp.cpp:20`, called at lines 92, 111 and 130), and because
the simplifier, which removes values later, keeps the order of the others (`model_simplifier.cpp:881`). `Listings` are the
orders in which the client may list the values, `SortedValues` what sorting makes of one. Without it
`ValidityExact` is violated: its mutant (`AsListed`) is the library without the sorting. The order that is fixed for
`true` and `false` is taken for one of those given: constraints do not compare them by order.

Runs, all over four parameters with 2, 2, 3 and 2 values:

* `constraints`: the 232 choices of up to three constraints from a pool of eleven, with the values
  of the parameter of three listed as `3, 1, 2` or `2, 3, 1` by the client: nested
  implications, disjunctions that only some operands limit, expressions that always or
  never hold, constraints that chain parameters into one component and some that leave two.
  Three are enough to connect all four parameters, and to have a round of simplification
  enable another. `NoAllowedTestLost` holds in every state, the answers are compared with
  the conjunction of the client's expressions in the end: `ValidityExact`, `ValidValuesExact`,
  `CompletionsAllowed`. This is what `Extendable`, `TupleAllowed` and the valid values of `Ipog` assume of the handler.
  `SetUpEnds` needs weak fairness of the one thread that does all this.
  The three answers are checked for constraints that some test satisfies (`Consistent`);
  some choices have none, and for them the type invariant shows that no
  domain becomes empty.
* `wide_disjunction` (a violation): `A = 2 or (A = 1 and B = 1)` with `A` in `{1, 2}`. The
  operands have limits for `A` in common and together allow all its values; the check
  at `model_simplifier.cpp:699` takes the disjunction for a tautology. The pool of `constraints` has
  no disjunction of this form.
* `contradiction` (a violation): constraints that no test satisfies end as one false literal,
  for which there is no component (`constraint_handler_sylvan_ldd.cpp:801`), so that every
  test is valid and tests are generated that satisfy nothing.

Proved in `ConstraintComponentsProofs`, for all parameters, finite domains, constraints of any depth and
variable orders:

* `AllowedTestsRetained`: `Spec => []NoAllowedTestLost`.
* `TypeCorrect` and `IndependentComponents`: `TypeOK` and `ComponentsIndependent` hold at all times.
* `AllowedNeverRefused`: when the handler is ready, it refuses no partial test and no tuple that agrees with an
  allowed test. This holds whatever the simplifier makes of the constraints.
* `AnswersOfSimplified`: for the constraints as the simplifier has left them, if some test satisfies them, validity,
  valid values and completions are those of their conjunction.
* `ExactValidity`, `ExactValidValues`, `AllowedCompletions`: in every behaviour in which simplification
  keeps the meaning of the constraints (`[]SimplificationKeepsMeaning`), the answers are exactly
  those of the client's constraints. The hypothesis cannot be dropped: `wide_disjunction` refutes it. It is
  about the inputs, and the run `constraints` shows that they are many: for its consistent inputs it is part of
  what `ValidityExact` says of complete tests.

They follow from `InductiveInvariant`, that `IInv` holds. Its parts, and why each is there:

* `SimplifierInv`: every allowed test satisfies, beside the constraints, what the round has still to simplify and
  what it has kept, and lies within the limits collected (`Retained`). The limits are what removes values
  from the domains in `EndPass`, so they must be known to admit all that the constraints do. That the
  visitor's limits do is `SimplifiedSound`, by induction over the expression: a test that satisfies it satisfies the
  simplified expression and lies within the limits. `ResolveKeeps` and `FlatKeeps` say that the
  other two visitors keep the meaning, and `EvalLocal` that it depends on the parameters that occur only.
* `PartitionInv`: a partition has all neighbours of its parameters, no two share one, and when the
  queue is empty all reached parameters are in one. `componentOf` therefore gives all the parameters of a constraint the
  same component (`TargetOwns`).
* `listing \in JobListings`: the values of integers are in ascending order (`JobListed`). Hence the interval that a
  comparison becomes has exactly the values that satisfy it (`AdmittedMeans`), whichever of them the simplifier has removed, and the
  diagram of a constraint admits what satisfies the constraint (`DiagramMeans`, by induction over the expression).
* `ComponentsInv`: a component has the constrained parameters of its partition, and its diagram the
  assignments that satisfy the constraints put into it so far (`ComponentsExact`). A test satisfies all
  constraints if and only if each component admits its part of it (`RestrictedSatisfies`, `ComposedSatisfies`), and parts
  chosen independently make a test (`Combination`).

The library's induction theorems take an operator as a parameter; `StructuralInduction` is instead about a set of
expressions, and takes a least depth of those that are not in it. The named assumptions
are: `ParamsAssumption`, domains are finite and not empty; `ExpressionsAssumption`, expressions are trees of finite depth over the
operators of `Constraints`, and resolving leaves no implication; `ListingsAssumption`, the client lists each value of a
parameter once; `OrderAssumption`, only integers are compared by order; one for each visitor, of which
`AdmitsAssumption` is that of the visitor that makes the diagrams; and `DontCareAssumption`. TLC evaluates them all, and checked `IInv` on the instance before it was proved. `SetUpEnds`
is liveness and only model-checked.

## 7. The life cycle of Lace and Sylvan

Every job of a process runs on a thread of its own and shares two global packages with the
others. `PackageLifecycle` has the thread of each job from the beginning of `entry_point` to
its end: `pc[j]` is where it is, `laceMutex` and `sylvanMutex` who holds the two
mutexes, `laceCount` and `sylvanCount` are the counters, `lace` is the number of workers that run and
`package` how far Sylvan is set up. A job in `Measuring` constructs a `functor_executor_lace`
first and destroys it last; a job in `Constrained` has a `constraint_handler_sylvan_base` in
between, whose first instance takes the Lace mutex while it holds the Sylvan one.

A critical section that starts or stops a package has a step for each call it makes, since
other jobs run meanwhile. One that only changes the counter is one step: nobody else
can see the counter. `LeaveLace` decreases it and decides with it whether to go on.
What happens between construction and destruction is the one location `work`: sections 3, 4
and 6 have what is done there. A start always succeeds; the code has no path for one that
does not.

* `lifecycle`: two generations with constraints, a measurement with constraints and one
  without, configured with one and two threads. Four jobs are enough for one to start
  a package that another one is about to stop while a third keeps it, in both
  packages. The jobs that run need not all begin, and each runs once: a job that runs again is another
  job, so the number of jobs is the only bound. Deadlock is not checked because the system stops when
  all jobs have ended; `JobsEnd` says that no job is blocked before.
The second of two jobs that overlap runs its tasks on the number of workers the first one asked
for, and Sylvan's tables have the size the first one asked for: `WorkersKept` says that this does not
change under a job, not that it is what the job was configured with.

Fairness: `FairSpec` assumes that the thread of a job that has begun keeps running (weak
fairness of `Step(j)`), and nothing about whether jobs begin. Nothing is assumed about who
gets a mutex: each job takes each mutex a bounded number of times, so no job waits for
ever as long as every holder goes on.

Proved in `PackageLifecycleProofs`, for every finite set of jobs of every kind
(`JobsAssumption`): `TypeCorrect`, `LaceAlwaysRuns`, `SylvanAlwaysReady`, `AlternationAlways`,
`NothingEverLeftRunning` and `WorkersAlwaysKept`. None of the invariants is inductive: that a
package runs follows from the counter, and the counter must therefore be known to count the
users. `IInv` says that `laceCount` is the number of executors that are constructed, plus
one while Sylvan uses Lace (`LaceCountInv`); that `sylvanCount` is the number of
handlers (`SylvanCountInv`); who is in which section (`MutexInv`, `KindInv`); that a section that is
not left at once found or made the counter zero (`SectionInv`); and that a
package runs while it is counted, or is about to be stopped (`LaceInv`, `PackageInv`). The lemmas
`ExecutorsMove` and `HandlersMove` say what a job's move does to the two cardinalities; each
action then has a lemma of its own. TLC checked `IInv` on the instance before.
`JobsEnd` is liveness and only model-checked.

## 8. Interval decision diagrams

A component of the constraint handler is an interval decision diagram (`sylvan_idd`): a list
decision diagram of Sylvan whose nodes hold an interval of values, and the levels it is about.
Section 6 takes it for the set of assignments it admits. These modules are what that rests on.

* `DiagramNodes`: a node is its own content, `<<lb, ub, down, right>>`, since Sylvan's table
  holds equal nodes once. `MakeNode` is `lddmc_makenode`, `Down` and `Right` are `lddmc_getdown` and
  `lddmc_getright` of the vendored Sylvan; the packing of an interval into a value is the library's.
* `IntervalDiagrams`: the operations of `citcpp_sylvan_ldd.cpp`: `Intersect`, `Join`, `Union`,
  `InvProject`, `Project` with the projection cubes that steer them, `SatCount`, the
  completion of an assignment, and the methods of `sylvan_idd` made from them. Their caches, which
  only repeat what the operation has returned for the same arguments, are left out.
* `DiagramConstruction`: `constraint_to_xdd_visitor` bottom up. `stack` has the diagrams that wait for
  their operator, each beside its meaning, the set of assignments the expression allows. A
  conjunction and the negation of a disjunction are the same action, as are the other pairs. `Conversion` turns a
  comparison of values into one of indices: it looks for the compared value, or for the last or first listed one that
  satisfies the comparison. The meaning is by the values themselves (`Holds`). `ConstructionAssumption` says what the
  entries of the library have seen to: integer values are sorted (`sort_parameter_values`), and there are at most 65535 values
  (`check_parameters_and_domains`, `src/citcpp_lib/src/citcpp.cpp:53`), so that both ends of an interval fit the 16 bits they
  are packed into and the model may take them for integers.
* `DiagramSearch`: the two searches under a partial assignment,
  `sylvan_idd_sat_with_partial_assignment` (used by `is_valid_partial_test` and `is_valid_tuple`) and
  `sylvan_idd_get_valid_variable_assignments`. Both have the same control, which the module
  has once; where they differ it asks `IsSat(p)`. Each call is a tree of Lace tasks: `Visit` (the end
  of the recursion, stops, one step to the right), `Hit` and `Miss` at the cache, `Sync` with the
  branches, and `Return`. Any task of any call takes the next step, so every schedule of a pool of any
  size is there. `terminate` is the flag the tasks of a call share. `cache` is Sylvan's
  operation cache as far as these searches use it. Sylvan may lose an entry at any time: `Miss` is possible whether
  the cache has an entry or not, so that an entry counts only where it is found.
* `DiagramQuery`: what a search promises: an answer, and the one that the diagram and the assignment
  determine.
* `DiagramPackage`: construction and searches in turn over one cache.

Three things in the code that the model shows not to matter. A search of values returns nothing if the
flag is set and it has not all of the domain; the answer of the call is then all of the domain
from another task. The results of `Join` need not have neighbouring intervals merged, so equal sets
may have different diagrams; only speed depends on this, and `WellFormed` does not ask for it. The search for the
values of a variable that no level of the diagram has is answered without a search. A search of the false
diagram with no assigned value would be answered with true (line 345 is tested before line 349);
the handler never asks it, as a component is false for contradictory constraints only, and
`QuestionAssumption` excludes it.

`diagrams` builds everything that up to three propositions, literals or cubes over levels with 3, 2 and 3
values can be combined to. Three values let intervals be disjoint, adjacent, nested and
overlapping, and three leaves let an operator meet a result of an operator that skips levels. The
first level has the values 1, 3 and 4, the second is no integer and lists 2 before 1, and propositions compare with 0 to 5:
values at both ends, between two values and beyond them. The assumption `ConversionAdmits` of `MCDiagrams` compares
`Conversion` with `Admitted`, by which section 6 takes a diagram, for every order of up to three values, sorted or not.
Searched are a diagram over two levels and one over three that contains its nodes at other levels, with
two calls, of which the satisfiability searches may overlap with any other: the state space of two
overlapping searches for values is beyond TLC, and the proofs below cover it.
`DiagramExact` compares every diagram with its meaning; `CompletionExact` every
completion of every partial assignment; `CacheSound` the cache with the solutions of the
problems; `ImplementsQuery` is the refinement, liveness included.

Fairness: weak fairness of each call's tasks together, as Lace runs every task that was spawned and
a worker that waits runs others meanwhile. Nothing is assumed of the calls' beginning.
Deadlock is not checked: the system stops when the calls have returned and the stack is full.

Proved in `DiagramSearchProofs`, for any set of problems closed under the recursion and any
solution of its equations (`SolutionAssumption`, `ProblemAssumption`, `QuestionAssumption`), any number
of calls and every interleaving: `TypeCorrect`, `CacheAlwaysSound` and `Refinement`
(the safety part of `ImplementsQuery`). They are stated about `SearchSpec`. A step of the run's `PackageSpec`
is a step of `SearchSpec` or leaves its variables alone. `CacheSound` is not
inductive: a task that the flag of its call has stopped returns less than its solution. The invariant
(`IInv`) has for each task that a step to the right has not changed its solution (`SameSolution`), that it
works for the question of its call (`Serves`), that beyond the checks of a visit they hold (`Passed`),
that it ends with all of its solution, or with nothing and then the flag is set (`Honest`), and that
the tasks above it wait and those below work on its branches (`InTree`). It has for each call that
the flag is set only if some task has ended with all there is to find for the question, and that
one such task remains until the call returns (`FlagInv`): this is why a result that has been cut short
is never taken for a complete one on the way up. TLC checked it first. What the operations compute is defined by recursion and
only model-checked.

## 9. Coverage measurement

`CoverageMeasurement` is `citcpp_covm`, one thread that filters invalid tests, counts, and measures
one relation after the other on the worker pool. `MeasurementJob` is what its client gets,
in the terms of the client: its own values and tests, the indices of invalid tests, and per relation
what is covered, all of it if marked completed, and if marked aborted what a part of the
parameter combinations shows. The client may abort between any two steps.

| Model | Code |
|---|---|
| `pc` | where the thread is in `entry_point` and `main_covm_loop` |
| `tests`, `invalid` | `tests_`, `invalid_test_indices` |
| `covm`, `rel` | `covm_per_relation`, the loop variable |
| `functors` | the `covm_per_param_combo_functor` of each Lace task: combinations left, whether the flag has stopped it, its counters |
| `progress` | the two counters of the handle |
| `code` | the result code, between the reading of the flag and the delivery |

A functor visits one combination per step: it marks what the tests cover, by
columns or by a scan of the tests (`UseTestColumns` is the code's cost rule; the instance has combinations of
both kinds), puts the rest to the constraint handler, and adds to its own counters only. The
counters the client polls are atomics. The conversion of the tests (`InternalValue`) looks client values up
in the simplified domains. Coverage levels use integer division where the code multiplies a quotient of
doubles; for the domain sizes of the instance both give the same level for every count.

* `measurement`: relations of strength 2 over four parameters and 3 over three, which run on up to three
  functors, and one with fewer parameters than its strength; with and without
  constraints; and no test, tests with a duplicate and an invalid one, and tests with don't care values.
  `FunctorCountsExact` says that the counters of each functor are at any time those of the
  combinations it has visited; `MeasuredProgress` relates the two counters; `ImplementsMeasurement`
  is the refinement with the delivery. Columns have one word of 64 tests in the instance.
* `removed_value` (a violation): simplification removes a value that no allowed test has. A test with that value
  is converted to one that misses the value, is taken for a partial test, judged
  valid, measured, and not on the list of invalid tests.

Also visible in the model, and allowed by the abstract job: an abort after the last combination marks a
measurement aborted although all of it was done; the relations after the one that was aborted
are still begun, with one combination per functor; the counts of covered tuples have one entry per valid
test, so their indices are not those of the tests the client gave.

Fairness: weak fairness of `Work`, the thread and its workers together. They wait for nobody else.

Assumed: relations have different names, as the measurements are kept by name and would overwrite each
other (`citcpp_covm.cpp:118`); and no strength exceeds the number of parameters by more than one
(`StrengthAssumption`), since `number_of_combinations_to_cover` computes `n - t + 1` in
unsigned numbers (`citcpp_algo_common.tpp:151`).

Proved in `CoverageMeasurementProofs`, for every model, every set of constraints and every set of
tests: `ProgressIsMeasured`, `FunctorsCount`, and `MeasurementKeepsPromise`, that every step of the job is one of
`MeasurementJob` or a stutter (the safety part of `ImplementsMeasurement`; that a result comes is liveness and
only model-checked). The theorems have one hypothesis, `OnlyKeptValues`: each value in the client's
tests is one that simplification has kept, or a don't care value. It is what the code needs: `removed_value` shows
what becomes of other tests. TLC evaluates it for the instance (`SharedTestsKept`), and no assumption is made of the
instance's sizes or of which way of marking a combination gets.

They follow from `Measuring`, that `MInv` holds at all times. Its parts, and why each is there:

* `TestsInv`: once filtered, the job's tests are the admissible ones of the client, in the values of the
  model (`ValidIsAdmissible`, `AtPositionsFacts`).
* `FunctorInv`: the counters of a functor are those of the combinations it has seen: `VisitedCounts` adds one.
  It rests on `ColumnsAreExact` and `ScanIsExact`, that both ways of marking find what the tests cover and
  which test covers it first; on `InvalidIsForbidden`, that the tuples the constraint handler is asked about are all that may be
  forbidden, since a covered one is in an admissible test; and on `LevelIsFloor`, that integer division
  gives the highest level reached.
* `RelationsInv`: relations before the one measured are measured, and all of them unless aborted, the others
  only counted. `SumsAreCounts` makes one measurement of the functors' counters: no two see the
  same combination, and no tuple belongs to two. `AccumulatedIsExact` turns first coverings into coverings.
* the counter of processed tuples and what the functors have left (`Left`) give the tuples of the
  relations so far (`Totals`), or less after an abort: a functor stops only if there was one.
* `MeasuredInv`: the code is read from the flag, and without an abort all is measured (`Complete`).

`NextComboExists` shows that the order of the combinations is total, so that a functor goes on until none is left.
The library has no theorems about sums: `CombinatorialModelProofs` has those that are needed (`SumByFirst`, `SumRemove`,
`SumUnion`, `CardinalityOfUnion`), each by contradiction from a smallest set (`MinimalSet`), as
the induction theorems are out of the provers' reach. TLC checked `MInv` on the instance before.

## 10. Not modelled

Parsers, printing, the public value classes and the converters: no order of calls
matters, and their inputs are unbounded text. Third-party code: Lace, Sylvan, CLI11 and doctest
make up more than three quarters of the repository's lines; Lace and Sylvan are modelled as far as the library
uses them (tasks and their joining, the node table, the operation cache, start and stop), and the other two
take no part in what the library computes. Item 7 of the plan in section 2 is not modelled
yet, nor are which diagram nodes are protected from Sylvan's garbage collector and the
per-test diagrams, which `create_constraint_handler` turns off; the hazards in PROJECT.json that no property
covers are theirs. Constraints that allow no test are outside `InputAssumption` of
section 3 and covered by the run `contradiction`.

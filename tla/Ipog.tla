--------------------------------- MODULE Ipog ---------------------------------
(***************************************************************************)
(* The IPOG job: citcpp_ipog::entry_point and all it calls, on the thread  *)
(* of the execution handle, while a client may abort it at any moment.     *)
(*                                                                         *)
(* The constraint handler appears by what its operations answer about the  *)
(* set `allowed'.  A coverage map appears as the set of its tuples not yet *)
(* marked covered (`uncovered') and of those marked valid (`valid'), each  *)
(* tagged with its relation; a count the code accumulates tuple by tuple   *)
(* is the cardinality of the set of those tuples.                          *)
(*                                                                         *)
(* Where the code takes the first fitting element of a list, an action     *)
(* picks the element of which no earlier one fits.                         *)
(***************************************************************************)
EXTENDS CombinatorialModel

CONSTANT ReplaceDontCare    \* config_.replace_dont_care_values()

VARIABLES
    allowed,    \* the complete tests that satisfy the constraints
    pc,         \* what the thread does next
    tests,      \* test_set: the tests built so far
    numSeeds,   \* num_seeded_tests
    cur,        \* current_param_idx, counted from 1
    idx,        \* idx[r] is the current_param_idx of relation r
    live,       \* the relations not erased yet
    uncovered,  \* <<relation, tuple>> pairs of the maps not marked covered
    valid,      \* the pairs marked valid
    missing,    \* number_combos_to_process
    hx,         \* the locals of ipog_horizontal_extension
    rows,       \* value_to_row_mapping: indices of tests
    dcRows,     \* rows_with_current_parameter_dont_care_value
    vx,         \* the locals of ipog_vertical_extension
    handle,     \* the counters of the execution handle
    aborted,    \* is_aborted_
    result      \* the promise test_set_

vars == <<allowed, pc, tests, numSeeds, cur, idx, live, uncovered, valid,
          missing, hx, rows, dcRows, vx, handle, aborted, result>>

loopVars == <<numSeeds, cur, idx, live>>
mapVars == <<uncovered, valid, missing>>
partVars == <<rows, dcRows>>
jobVars == <<allowed, aborted, result>>

Pending == [code |-> "PENDING", tests |-> <<>>]

NoHorizontal == [ti |-> 0, selected |-> 0, gained |-> 0, gainedFull |-> 0,
                 validValues |-> <<>>, lastPicked |-> 0,
                 options |-> [v \in AllValues |-> 0]]

NoRows == [v \in AllValues |-> <<>>]

NoVertical == [pending |-> {}, rel |-> 0, combos |-> {}, combo |-> {},
               modified |-> {}, checked |-> 0, newly |-> 0,
               total |-> 0, totalFull |-> 0, newlyFull |-> 0]

-------------------------------------------------------------------------------
(* Relations and coverage maps *)

\* get_current_interaction_strength
CurrentStrength(r) ==
    IF Relations[r].strength <= idx[r] + 1 THEN Relations[r].strength ELSE idx[r] + 1

\* Mutant of AtFullStrength: the comparison is strict.
AboveFullStrength(r) == CurrentStrength(r) > Relations[r].strength

AtFullStrength(r) == CurrentStrength(r) >= Relations[r].strength

\* The relations whose next parameter is the current one.
Participants == {r \in live : Relations[r].params[idx[r] + 1] = cur}

FirstParams(r, n) == {Relations[r].params[i] : i \in 1 .. n}

\* Mutant of MapCombos: the latest of the earlier parameters is left out.
MapCombosOffByOne(r) ==
    {S \cup {cur} : S \in kSubset(CurrentStrength(r) - 1, FirstParams(r, idx[r] - 1))}

\* The parameter combinations of r's coverage map: all with the current
\* parameter, and enough earlier ones of the relation.
MapCombos(r) ==
    {S \cup {cur} : S \in kSubset(CurrentStrength(r) - 1, FirstParams(r, idx[r]))}

MapTuples ==
    UNION {{<<r, u>> : u \in UNION {TuplesOf(S) : S \in MapCombos(r)}} :
              r \in Participants}

\* The pairs of T some test of the set I of indices covers.
CoveredBy(T, I) == {ru \in T : \E i \in I : Covers(tests[i], ru[2])}

FullPairs(T) == {ru \in T : AtFullStrength(ru[1])}

\* Coverage maps list combinations by their latest parameter first, and tuples
\* by the value of their last parameter first, both descending.
ComboBefore(S, T) == LET d == SymDiff(S, T) IN d # {} /\ Max(d) \in S

TupleBefore(u, v) ==
    \E p \in DOMAIN u :
        u[p] > v[p] /\ \A q \in DOMAIN u : q > p => u[q] = v[q]

-------------------------------------------------------------------------------
(* The constraint handler *)

\* Mutant of ValidValues: the values are checked without those of the test.
ValuesValidAlone(t, p) ==
    IF t[p] # DontCare THEN {t[p]}
    ELSE {v \in Dom(p) : Extendable(allowed, Assign(Unassigned, p, v))}

\* get_valid_parameter_assignments
ValidValues(t, p) ==
    IF ~Constrained(allowed, p) THEN Dom(p)
    ELSE IF t[p] # DontCare THEN {t[p]}
    ELSE {v \in Dom(p) : Extendable(allowed, Assign(t, p, v))}

\* Mutant of Completion: one past the last value is taken.
CompletionPastDomain(t) ==
    [p \in Params |-> IF t[p] = DontCare THEN NumValues[p] ELSE t[p]]

\* replace_dont_care_values
Completion(t) == CHOOSE a \in allowed : Fits(t, a)

-------------------------------------------------------------------------------
Init ==
    /\ allowed \in ConstraintSets
    /\ tests \in SeedSets
    /\ pc = "init"
    /\ numSeeds = 0
    /\ cur = 1
    /\ idx = [r \in Rels |-> 0]
    /\ live = Rels
    /\ uncovered = {} /\ valid = {} /\ missing = 0
    /\ hx = NoHorizontal
    /\ rows = NoRows /\ dcRows = <<>>
    /\ vx = NoVertical
    /\ handle = [toProcess |-> 0, processed |-> 0, covered |-> 0, size |-> 0,
                 paramsToProcess |-> 0, params |-> 0, phase |-> "HANDLER_INIT"]
    /\ aborted = FALSE
    /\ result = Pending

\* The client calls abort() on the handle, or destroys it.
Abort ==
    /\ aborted' = TRUE
    /\ UNCHANGED <<allowed, pc, tests, loopVars, mapVars, hx, partVars, vx,
                   handle, result>>

-------------------------------------------------------------------------------
(* Before the main loop *)

\* The constraint handler has been created.
EnterConstruction ==
    /\ pc = "init"
    /\ pc' = "filter"
    /\ handle' = [handle EXCEPT !.phase = "CONSTRUCTION"]
    /\ UNCHANGED <<tests, loopVars, mapVars, hx, partVars, vx, jobVars>>

\* One step of the loop that erases the seeded tests that are not valid.
EraseInvalidSeed ==
    /\ pc = "filter"
    /\ \E i \in DOMAIN tests :
          /\ ~Extendable(allowed, tests[i])
          /\ \A j \in 1 .. (i - 1) : Extendable(allowed, tests[j])
          /\ tests' = RemoveAtPos(tests, i)
    /\ UNCHANGED <<pc, loopVars, mapVars, hx, partVars, vx, handle, jobVars>>

\* The seeds are filtered; which of the two main loops runs depends on
\* whether any is left.  Both start by publishing the number of combinations,
\* and the first checks the abort flag only after publishing the number of
\* parameters too.
CountCombinations ==
    /\ pc = "filter"
    /\ \A i \in DOMAIN tests : Extendable(allowed, tests[i])
    /\ numSeeds' = Len(tests)
    /\ handle' = [handle EXCEPT
                     !.toProcess = Cardinality(TargetTuples),
                     !.paramsToProcess = IF aborted /\ tests # <<>> THEN @ ELSE NumUsed]
    /\ pc' = IF aborted THEN "replace"
             ELSE IF tests = <<>> THEN "prefix" ELSE "param"
    /\ UNCHANGED <<tests, cur, idx, live, mapVars, hx, partVars, vx, jobVars>>

\* The first n parameters of r are the first n of all (length_of_common_param_prefix).
SharesPrefix(r, n) ==
    n <= RelLen(r) /\ \A i \in 1 .. n : Relations[r].params[i] = i

\* The minimum of the largest strength and of the longest shared prefix.
FirstParamIdx ==
    Max({0} \cup {n \in 1 .. NumUsed :
                      /\ \E r \in Rels : n <= Relations[r].strength
                      /\ \E r \in Rels : SharesPrefix(r, n)})

\* The valid combinations of the first parameters no test has yet.
PrefixCombosLeft ==
    {u \in TuplesOf(1 .. FirstParamIdx) :
        /\ Extendable(allowed, Inject(Unassigned, u))
        /\ \A i \in DOMAIN tests : ~Covers(tests[i], u)}

LexBefore(u, v) ==
    \E p \in DOMAIN u :
        u[p] < v[p] /\ \A q \in DOMAIN u : q < p => u[q] = v[q]

\* create_all_value_combinations, one test at a time: it lists all
\* combinations in lexicographic order and then drops those not valid.
CreatePrefixTest ==
    /\ pc = "prefix"
    /\ \E u \in PrefixCombosLeft :
          /\ {v \in PrefixCombosLeft \ {u} : ~LexBefore(u, v)} = {}
          /\ tests' = Append(tests, Inject(Unassigned, u))
    /\ UNCHANGED <<pc, loopVars, mapVars, hx, partVars, vx, handle, jobVars>>

PrefixDone ==
    /\ pc = "prefix"
    /\ PrefixCombosLeft = {}
    /\ handle' = [handle EXCEPT !.size = Len(tests), !.params = FirstParamIdx]
    /\ pc' = IF FirstParamIdx = 0 THEN "param" ELSE "countPrefix"
    /\ UNCHANGED <<tests, loopVars, mapVars, hx, partVars, vx, jobVars>>

\* The relations r with current_param_idx increased, if their next parameter
\* is the current one.
Advanced ==
    [r \in Rels |-> IF r \in Participants THEN idx[r] + 1 ELSE idx[r]]

\* Mutant of LiveAfter: a relation is erased one parameter early.
LiveAfterEarly == {r \in live : Advanced[r] + 1 < RelLen(r)}

\* The relations that have a parameter left then; the others are erased.
LiveAfter == {r \in live : Advanced[r] < RelLen(r)}

\* One iteration of the loop over the parameters of the prefix: every relation
\* left that has reached its strength reports the combinations of all of its
\* parameters so far.
CountPrefixParameter ==
    /\ pc = "countPrefix"
    /\ LET counted == {r \in live : Advanced[r] >= Relations[r].strength}
           combos == UNION {{<<r, u>> : u \in TuplesOf(FirstParams(r, Advanced[r]))} :
                               r \in counted}
       IN handle' = [handle EXCEPT
                        !.processed = @ + Cardinality(combos),
                        !.covered = @ + Cardinality(CoveredBy(combos, DOMAIN tests))]
    /\ idx' = Advanced
    /\ live' = LiveAfter
    /\ cur' = cur + 1
    /\ pc' = IF cur = FirstParamIdx THEN "param" ELSE "countPrefix"
    /\ UNCHANGED <<tests, numSeeds, mapVars, hx, partVars, vx, jobVars>>

-------------------------------------------------------------------------------
(* One parameter: main_ipog_loop_body *)

\* Mutant of LoopEnds: only the iterations look at the abort flag.
LoopEndsWithoutAbort == cur > NumUsed

LoopEnds == cur > NumUsed \/ aborted

\* The loop over the parameters ends, or sees that the job is aborted.
LeaveLoop ==
    /\ pc = "param"
    /\ LoopEnds
    /\ pc' = "replace"
    /\ UNCHANGED <<tests, loopVars, mapVars, hx, partVars, vx, handle, jobVars>>

SingleValuedParameter ==
    /\ pc = "param"
    /\ cur <= NumUsed /\ ~aborted
    /\ NumValues[cur] <= 1
    /\ tests' = [i \in DOMAIN tests |-> Assign(tests[i], cur, 0)]
    /\ LET reported == FullPairs(MapTuples)
       IN handle' = [handle EXCEPT
              !.processed = @ + Cardinality(reported),
              !.covered = @ + Cardinality(
                  {ru \in reported : \E i \in DOMAIN tests : Covers(tests'[i], ru[2])})]
    /\ pc' = "advance"
    /\ UNCHANGED <<loopVars, mapVars, hx, partVars, vx, jobVars>>

\* The coverage maps of the parameter are created, the seeded tests measured
\* (ipog_measure_testset), and the horizontal extension asks for the valid
\* values of the parameter in each test.
BeginParameter ==
    /\ pc = "param"
    /\ cur <= NumUsed /\ ~aborted
    /\ NumValues[cur] > 1
    /\ LET seeded == CoveredBy(MapTuples, 1 .. numSeeds)
           valids == [i \in DOMAIN tests |-> ValidValues(tests[i], cur)]
       IN /\ uncovered' = MapTuples \ seeded
          /\ valid' = seeded
          /\ missing' = Cardinality(MapTuples) - Cardinality(seeded)
          /\ handle' = [handle EXCEPT
                 !.processed = @ + Cardinality(FullPairs(seeded)),
                 !.covered = @ + Cardinality(FullPairs(seeded))]
          /\ hx' = [NoHorizontal EXCEPT
                 !.ti = 1,
                 !.validValues = valids,
                 !.options = [v \in AllValues |->
                                 Cardinality({i \in DOMAIN tests : v \in valids[i]})]]
    /\ rows' = NoRows
    /\ dcRows' = <<>>
    /\ pc' = IF tests = <<>> THEN "horizontalDone" ELSE "select"
    /\ UNCHANGED <<tests, loopVars, vx, jobVars>>

-------------------------------------------------------------------------------
(* Horizontal extension *)

\* add_gains: the uncovered tuples with value v of the current parameter whose
\* other values test t has, if v is valid for it.
Gain(v) ==
    IF v \in hx.validValues[hx.ti]
    THEN Cardinality({ru \in uncovered :
             ru[2][cur] = v /\ Covers(Assign(tests[hx.ti], cur, v), ru[2])})
    ELSE 0

\* Where the cyclic search for the best value starts.
LastPicked ==
    IF \E r \in Participants : CurrentStrength(r) > 2
    THEN NumValues[cur] - 1 ELSE hx.lastPicked

CyclicDistance(v) == (v - LastPicked - 1) % NumValues[cur]

\* ipog_horizontal_select_best_value prefers w to v.
Preferred(w, v) ==
    \/ Gain(w) > Gain(v)
    \/ /\ Gain(w) = Gain(v)
       /\ \/ hx.options[w] > hx.options[v]
          \/ /\ hx.options[w] = hx.options[v]
             /\ CyclicDistance(w) < CyclicDistance(v)

Pick(v) ==
    /\ hx' = [hx EXCEPT !.selected = v, !.lastPicked = v, !.options[v] = @ - 1]
    /\ pc' = "commit"

\* A seeded test keeps its value of the current parameter.
SelectSeededValue ==
    /\ pc = "select"
    /\ tests[hx.ti][cur] # DontCare
    /\ Pick(tests[hx.ti][cur])
    /\ UNCHANGED <<tests, loopVars, mapVars, partVars, vx, handle, jobVars>>

SelectBestValue ==
    /\ pc = "select"
    /\ tests[hx.ti][cur] = DontCare
    /\ \E v \in Dom(cur) :
          /\ Gain(v) > 0
          /\ \A w \in Dom(cur) : ~Preferred(w, v)
          /\ Pick(v)
    /\ UNCHANGED <<tests, loopVars, mapVars, partVars, vx, handle, jobVars>>

\* No value covers anything new: the test keeps its don't care value, for the
\* vertical extension to use.
SelectNoValue ==
    /\ pc = "select"
    /\ tests[hx.ti][cur] = DontCare
    /\ \A v \in Dom(cur) : Gain(v) = 0
    /\ hx' = [hx EXCEPT !.selected = -1, !.lastPicked = LastPicked]
    /\ pc' = "commit"
    /\ UNCHANGED <<tests, loopVars, mapVars, partVars, vx, handle, jobVars>>

\* After the last test, or when nothing is missing any more, the horizontal
\* extension returns.  (The code looks for the latter after it has selected
\* a value for the next test, which it then drops.)
AfterCommit(gained) ==
    IF hx.ti = Len(tests) \/ gained >= missing THEN "horizontalDone" ELSE "select"

\* The selected value is set, and the maps updated: the tuples the test now
\* covers are marked covered, those it would cover with another value valid for
\* it are marked valid.  (The valid marks of covered tuples are never looked at.)
CommitValue ==
    /\ pc = "commit"
    /\ hx.selected # -1
    /\ LET t == Assign(tests[hx.ti], cur, hx.selected)
           newly == {ru \in uncovered : Covers(t, ru[2])}
           gained == hx.gained + Cardinality(newly)
       IN /\ tests' = [tests EXCEPT ![hx.ti] = t]
          /\ uncovered' = uncovered \ newly
          /\ valid' = valid \cup
                 {ru \in MapTuples :
                     \E v \in hx.validValues[hx.ti] \ {hx.selected} :
                         Covers(Assign(t, cur, v), ru[2])}
          /\ hx' = [hx EXCEPT !.ti = @ + 1, !.gained = gained,
                              !.gainedFull = @ + Cardinality(FullPairs(newly))]
          /\ pc' = AfterCommit(gained)
    /\ rows' = [rows EXCEPT ![hx.selected] = Append(@, hx.ti)]
    /\ UNCHANGED <<loopVars, missing, dcRows, vx, handle, jobVars>>

CommitNoValue ==
    /\ pc = "commit"
    /\ hx.selected = -1
    /\ dcRows' = Append(dcRows, hx.ti)
    /\ hx' = [hx EXCEPT !.ti = @ + 1]
    /\ pc' = AfterCommit(hx.gained)
    /\ UNCHANGED <<tests, loopVars, mapVars, rows, vx, handle, jobVars>>

\* The rest of the body between the two extensions.  An aborted job returns
\* from it and skips the vertical extension.
FinishHorizontal ==
    /\ pc = "horizontalDone"
    /\ missing' = missing - hx.gained
    /\ handle' = [handle EXCEPT
           !.processed = @ + hx.gainedFull,
           !.covered = @ + hx.gainedFull,
           !.size = Len(tests)]
    /\ hx' = NoHorizontal
    /\ IF aborted \/ missing' = 0
       THEN pc' = "advance" /\ vx' = NoVertical
       ELSE pc' = "relation" /\ vx' = [NoVertical EXCEPT !.pending = Participants]
    /\ UNCHANGED <<tests, loopVars, uncovered, valid, partVars, jobVars>>

-------------------------------------------------------------------------------
(* Vertical extension *)

\* ipog_vertical_extension turns to its next coverage map.
StartRelation ==
    /\ pc = "relation"
    /\ \E r \in vx.pending :
          /\ \A q \in vx.pending : r <= q
          /\ vx' = [vx EXCEPT !.pending = @ \ {r}, !.rel = r,
                              !.combos = MapCombos(r), !.checked = 0, !.newly = 0]
    /\ pc' = "combo"
    /\ UNCHANGED <<tests, loopVars, mapVars, hx, partVars, handle, jobVars>>

UncoveredOf(S) == {ru \in uncovered : ru[1] = vx.rel /\ DOMAIN ru[2] = S}

\* The next combination, whose tuples the tests modified so far may already
\* cover (cover_tuple_of).  A combination that is all covered is skipped.
NextCombo ==
    /\ pc = "combo"
    /\ \E S \in vx.combos :
          /\ \A T \in vx.combos \ {S} : ComboBefore(S, T)
          /\ LET newly == CoveredBy(UncoveredOf(S), vx.modified)
                 n == Cardinality(newly)
             IN /\ uncovered' = uncovered \ newly
                /\ valid' = IF UncoveredOf(S) = {} THEN valid
                            ELSE valid \cup
                                {ru \in CoveredBy(MapTuples, vx.modified) :
                                    ru[1] = vx.rel /\ DOMAIN ru[2] = S}
                /\ vx' = [vx EXCEPT !.combos = @ \ {S}, !.combo = S,
                                    !.checked = @ + n, !.newly = @ + n]
    /\ pc' = "tuple"
    /\ UNCHANGED <<tests, loopVars, missing, hx, partVars, handle, jobVars>>

\* <<vx.rel, u>> is the next tuple of the combination to visit.  Covered ones
\* are passed over.
IsNextTuple(u) ==
    /\ <<vx.rel, u>> \in uncovered
    /\ DOMAIN u = vx.combo
    /\ \A ru \in UncoveredOf(vx.combo) : ru[2] = u \/ TupleBefore(u, ru[2])

\* Mutant of AfterTuple: the visit stops one tuple early.
AfterTupleEarly == IF vx.checked + 2 < missing THEN "tuple" ELSE "comboDone"

\* A tuple was checked; the visit goes on while not all missing tuples have
\* been checked for this relation.
AfterTuple == IF vx.checked + 1 < missing THEN "tuple" ELSE "comboDone"

\* Mutant of IsRejected: the constraint handler is not asked.
IsNotMarkedValid(u) == <<vx.rel, u>> \notin valid

IsRejected(u) ==
    <<vx.rel, u>> \notin valid /\ ~TupleAllowed(allowed, u)

RejectTuple ==
    /\ pc = "tuple"
    /\ \E u \in Tuples :
          /\ IsNextTuple(u)
          /\ IsRejected(u)
          /\ uncovered' = uncovered \ {<<vx.rel, u>>}
    /\ vx' = [vx EXCEPT !.checked = @ + 1]
    /\ pc' = AfterTuple
    /\ UNCHANGED <<tests, loopVars, valid, missing, hx, partVars, handle, jobVars>>

\* Mutants of Accepts: the test is not checked against the constraints, or its
\* values are not compared.
AcceptsUnchecked(i, u) == Fits(tests[i], u)
AcceptsOverwriting(i, u) == Extendable(allowed, Inject(tests[i], u))

\* get_first_test_valid_for_assignment: u can be injected into test i.
Accepts(i, u) ==
    Fits(tests[i], u) /\ Extendable(allowed, Inject(tests[i], u))

IsFirstAccepting(list, k, u) ==
    /\ Accepts(list[k], u)
    /\ \A j \in 1 .. (k - 1) : ~Accepts(list[j], u)

NoneAccepts(list, u) == \A k \in DOMAIN list : ~Accepts(list[k], u)

\* u is checked and newly covered; the changed tests are remembered as modified.
TakeTuple(u, modified) ==
    /\ uncovered' = uncovered \ {<<vx.rel, u>>}
    /\ vx' = [vx EXCEPT !.checked = @ + 1, !.newly = @ + 1,
                        !.modified = @ \cup modified]
    /\ pc' = AfterTuple

\* The tuple goes into the first test that has its value of the current
\* parameter and admits its other values.
InjectIntoMatchingTest ==
    /\ pc = "tuple"
    /\ \E u \in Tuples :
          /\ IsNextTuple(u)
          /\ ~IsRejected(u)
          /\ \E k \in DOMAIN rows[u[cur]] :
                LET i == rows[u[cur]][k] IN
                /\ IsFirstAccepting(rows[u[cur]], k, u)
                /\ tests' = [tests EXCEPT ![i] = Inject(@, u)]
                /\ TakeTuple(u, {i})
    /\ UNCHANGED <<loopVars, valid, missing, hx, partVars, handle, jobVars>>

\* Mutant of RemoveNode: the node stays linked.
KeepNode(list, k) == list

\* list_intrusive::erase
RemoveNode(list, k) == RemoveAtPos(list, k)

\* Failing that, into the first test without a value of the current parameter,
\* which so gets one and moves to the list of that value.
InjectIntoDontCareTest ==
    /\ pc = "tuple"
    /\ \E u \in Tuples :
          /\ IsNextTuple(u)
          /\ ~IsRejected(u)
          /\ NoneAccepts(rows[u[cur]], u)
          /\ \E k \in DOMAIN dcRows :
                LET i == dcRows[k] IN
                /\ IsFirstAccepting(dcRows, k, u)
                /\ tests' = [tests EXCEPT ![i] = Inject(@, u)]
                /\ dcRows' = RemoveNode(dcRows, k)
                /\ rows' = [rows EXCEPT ![u[cur]] = Append(@, i)]
                /\ TakeTuple(u, {i})
    /\ UNCHANGED <<loopVars, valid, missing, hx, handle, jobVars>>

\* Failing that too, into a new test, which is not looked at again when the
\* next combinations are checked for tuples covered on the way.
AddTest ==
    /\ pc = "tuple"
    /\ \E u \in Tuples :
          /\ IsNextTuple(u)
          /\ ~IsRejected(u)
          /\ NoneAccepts(rows[u[cur]], u)
          /\ NoneAccepts(dcRows, u)
          /\ tests' = Append(tests, Inject(Unassigned, u))
          /\ rows' = [rows EXCEPT ![u[cur]] = Append(@, Len(tests) + 1)]
          /\ TakeTuple(u, {})
    /\ UNCHANGED <<loopVars, valid, missing, hx, dcRows, handle, jobVars>>

\* All tuples of the combination are covered, or as many have been checked as
\* were missing: then the rest of the map is not looked at.
EndCombo ==
    /\ pc = "comboDone" \/ (pc = "tuple" /\ UncoveredOf(vx.combo) = {})
    /\ pc' = IF vx.checked < missing /\ vx.combos # {} THEN "combo" ELSE "relationDone"
    /\ UNCHANGED <<tests, loopVars, mapVars, hx, partVars, vx, handle, jobVars>>

\* The results of a relation are noted.
EndRelation ==
    /\ pc = "relationDone"
    /\ LET full == AtFullStrength(vx.rel)
       IN vx' = [vx EXCEPT
              !.total = @ + vx.checked,
              !.totalFull = @ + (IF full THEN vx.checked ELSE 0),
              !.newlyFull = @ + (IF full THEN vx.newly ELSE 0)]
    /\ pc' = IF vx.pending = {} THEN "verticalDone" ELSE "relation"
    /\ UNCHANGED <<tests, loopVars, mapVars, hx, partVars, handle, jobVars>>

FinishVertical ==
    /\ pc = "verticalDone"
    /\ missing' = missing - vx.total
    /\ handle' = [handle EXCEPT
           !.processed = @ + vx.totalFull,
           !.covered = @ + vx.newlyFull,
           !.size = Len(tests)]
    /\ pc' = "advance"
    /\ UNCHANGED <<tests, loopVars, uncovered, valid, hx, partVars, vx, jobVars>>

-------------------------------------------------------------------------------
(* After a parameter, and after the last one *)

\* The parameter is reported as processed, the relations move on, and those
\* that have no parameter left are erased.
AdvanceRelations ==
    /\ pc = "advance"
    /\ handle' = [handle EXCEPT !.params = cur]
    /\ idx' = Advanced
    /\ live' = LiveAfter
    /\ cur' = cur + 1
    /\ uncovered' = {} /\ valid' = {} /\ missing' = 0
    /\ rows' = NoRows /\ dcRows' = <<>>
    /\ vx' = NoVertical
    /\ pc' = "param"
    /\ UNCHANGED <<tests, numSeeds, hx, jobVars>>

ReplaceDontCareValues ==
    /\ pc = "replace"
    /\ tests' = IF ReplaceDontCare
                THEN [i \in DOMAIN tests |-> Completion(tests[i])] ELSE tests
    /\ pc' = "publish"
    /\ UNCHANGED <<loopVars, mapVars, hx, partVars, vx, handle, jobVars>>

\* Mutant of ResultCode: the abort flag is ignored.
ResultCodeCompleted == "COMPLETED"

ResultCode == IF aborted THEN "ABORTED" ELSE "COMPLETED"

\* The result code is read from the abort flag only now.  An abort between this
\* read and the delivery has no effect: it is one after this step.
Publish ==
    /\ pc = "publish"
    /\ result' = [code |-> ResultCode, tests |-> tests]
    /\ pc' = "done"
    /\ UNCHANGED <<tests, loopVars, mapVars, hx, partVars, vx, handle,
                   allowed, aborted>>

\* The thread has ended; the handle stays.
Terminated == pc = "done" /\ UNCHANGED vars

Horizontal == \/ SelectSeededValue \/ SelectBestValue \/ SelectNoValue
              \/ CommitValue \/ CommitNoValue \/ FinishHorizontal

Vertical == \/ StartRelation \/ NextCombo \/ RejectTuple
            \/ InjectIntoMatchingTest \/ InjectIntoDontCareTest \/ AddTest
            \/ EndCombo \/ EndRelation \/ FinishVertical

Worker == \/ EnterConstruction \/ EraseInvalidSeed \/ CountCombinations
          \/ CreatePrefixTest \/ PrefixDone \/ CountPrefixParameter
          \/ LeaveLoop \/ SingleValuedParameter \/ BeginParameter
          \/ Horizontal \/ Vertical
          \/ AdvanceRelations \/ ReplaceDontCareValues \/ Publish

Next == Worker \/ Abort \/ Terminated

Spec == Init /\ [][Next]_vars

\* The thread is never blocked, so it keeps taking steps; the client need not
\* ever abort.
FairSpec == Spec /\ WF_vars(Worker)
===============================================================================

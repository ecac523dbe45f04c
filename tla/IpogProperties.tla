---------------------------- MODULE IpogProperties ----------------------------
(***************************************************************************)
(* What an IPOG job has to guarantee: of the tests it builds, of the       *)
(* bookkeeping the guarantee rests on, of what it tells a client that      *)
(* watches, and of its ending.                                             *)
(***************************************************************************)
EXTENDS Ipog

HorizontalPcs == {"select", "commit", "horizontalDone"}

RelationPcs == {"combo", "tuple", "comboDone", "relationDone"}

VerticalPcs == RelationPcs \cup {"relation", "verticalDone"}

Pcs == HorizontalPcs \cup VerticalPcs \cup
       {"init", "filter", "prefix", "countPrefix", "param", "advance",
        "replace", "publish", "done"}

TestSeqs == Seq(PartialTests)

HorizontalLocals ==
    [ti : Nat, selected : Nat \cup {-1}, gained : Nat, gainedFull : Nat,
     validValues : Seq(SUBSET AllValues), lastPicked : Int,
     options : [AllValues -> Int]]

VerticalLocals ==
    [pending : SUBSET Rels, rel : Rels \cup {0},
     combos : SUBSET (SUBSET Params), combo : SUBSET Params,
     modified : SUBSET Nat, checked : Nat, newly : Nat,
     total : Nat, totalFull : Nat, newlyFull : Nat]

Counters ==
    [toProcess : Nat, processed : Nat, covered : Nat, size : Nat,
     paramsToProcess : Nat, params : Nat,
     phase : {"HANDLER_INIT", "CONSTRUCTION"}]

\* Every variable holds a value of its kind.
TypeOK ==
    /\ allowed \in ConstraintSets
    /\ pc \in Pcs
    /\ tests \in TestSeqs
    /\ numSeeds \in Nat
    /\ cur \in 1 .. (NumUsed + 1)
    /\ idx \in [Rels -> Nat]
    /\ live \subseteq Rels
    /\ uncovered \subseteq Rels \X Tuples
    /\ valid \subseteq Rels \X Tuples
    /\ missing \in Int
    /\ hx \in HorizontalLocals
    /\ rows \in [AllValues -> Seq(Nat)]
    /\ dcRows \in Seq(Nat)
    /\ vx \in VerticalLocals
    /\ handle \in Counters
    /\ aborted \in BOOLEAN
    /\ result \in [code : {"PENDING", "ABORTED", "COMPLETED"}, tests : TestSeqs]

-------------------------------------------------------------------------------
(* The tests *)

\* README.md:136.  Once the invalid seeds are out, every test can at any time be
\* completed to one that satisfies the constraints, although values are set by
\* four different pieces of code, each from what it asked the constraint handler
\* at another moment; and once don't care values are replaced, every test is
\* complete and satisfies the constraints.
TestsExtendable ==
    /\ pc \notin {"init", "filter"} =>
           \A i \in DOMAIN tests : Extendable(allowed, tests[i])
    /\ ReplaceDontCare /\ pc \in {"publish", "done"} =>
           \A i \in DOMAIN tests : tests[i] \in allowed

\* A job that reports k parameters as completely processed and was not
\* aborted has tests for every allowed tuple among them.  With k all
\* parameters, this is the covering array.
ProcessedParametersCovered ==
    ~aborted =>
        \A ru \in TargetTuples :
            /\ DOMAIN ru[2] \subseteq 1 .. handle.params
            /\ TupleAllowed(allowed, ru[2])
            => \E i \in DOMAIN tests : Covers(tests[i], ru[2])

\* Tests are only ever filled in: after the invalid seeds have been erased, no
\* step removes a test, or changes a value a test already has.  The vertical
\* extension and the replacement of don't care values work on tests whose
\* values later steps rely on.
ValuesKept ==
    [][pc # "filter" =>
          \A i \in DOMAIN tests :
              /\ i \in DOMAIN tests'
              /\ \A p \in Params :
                     tests[i][p] # DontCare => tests'[i][p] = tests[i][p]]_vars

-------------------------------------------------------------------------------
(* The bookkeeping *)

\* A tuple marked covered in a coverage map is covered by a test, or excluded
\* by the constraints.  The marks are set ahead of, together with, and after
\* the change of a test, by four pieces of code.
CoveredMarksSound ==
    pc \in HorizontalPcs \cup VerticalPcs =>
        \A ru \in MapTuples \ uncovered :
            TupleAllowed(allowed, ru[2]) =>
                \E i \in DOMAIN tests : Covers(tests[i], ru[2])

\* A tuple marked valid is allowed: the vertical extension injects it without
\* asking the constraint handler.  The marks derive from the answers for whole
\* tests the horizontal extension got before it changed any test.
ValidMarksSound == \A ru \in valid : TupleAllowed(allowed, ru[2])

\* number_combos_to_process, an unsigned number several functions subtract
\* from, is exactly the number of tuples not marked covered: it never wraps
\* around, and comparing with it neither stops an extension early nor skips
\* the vertical one.
MissingExact ==
    /\ pc \in HorizontalPcs => missing - hx.gained = Cardinality(uncovered)
    /\ pc \in VerticalPcs =>
           Cardinality(uncovered) =
               missing - vx.total - (IF pc \in RelationPcs THEN vx.checked ELSE 0)
    /\ pc = "advance" /\ ~aborted => missing = 0 /\ uncovered = {}

Occurrences(list, i) == Cardinality({k \in DOMAIN list : list[k] = i})

\* During the vertical extension every test is in exactly one of the intrusive
\* lists, once, and in the one of its value of the current parameter.  The
\* nodes are relinked while lists are searched, and the horizontal extension
\* may have returned before it put every test into a list.
ListsPartitionTests ==
    pc \in VerticalPcs =>
        \A i \in DOMAIN tests :
            /\ Occurrences(dcRows, i) = IF tests[i][cur] = DontCare THEN 1 ELSE 0
            /\ \A v \in Dom(cur) :
                   Occurrences(rows[v], i) = IF tests[i][cur] = v THEN 1 ELSE 0

\* The horizontal extension reads relations[0]: some relation left has the
\* current parameter as its next one, whatever has been erased or advanced
\* in the prefix loop, which moves relations in another way.
SomeRelationAtParameter ==
    pc \in {"param", "select", "commit", "horizontalDone"} /\ cur <= NumUsed =>
        Participants # {}

-------------------------------------------------------------------------------
(* What the client sees *)

\* The counters of a job for one relation, or for several none of which has
\* all the parameters its strength needs before the prefix ends: a client never
\* sees more processed than there is to process; a completed job has processed
\* everything and has counted every allowed combination as covered, exactly once.
ProgressExact ==
    /\ pc \notin {"init", "filter"} => handle.processed <= handle.toProcess
    /\ result.code = "COMPLETED" =>
           /\ handle.processed = handle.toProcess
           /\ handle.covered = Cardinality(
                  {ru \in TargetTuples : TupleAllowed(allowed, ru[2])})
           /\ handle.size = Len(result.tests)

\* cagen_exec_handle.hpp:149-155: the number of processed combinations can be
\* compared with the number of combinations to process to show the progress;
\* it does not exceed it.
ProcessedWithinTarget ==
    pc \notin {"init", "filter"} => handle.processed <= handle.toProcess

\* cagen_exec_handle_ipog.hpp:30-33: the number of parameters is that of the
\* parameters completely processed so far, also while the job is being aborted.
ReportedParametersAreComplete ==
    \A ru \in TargetTuples :
        /\ DOMAIN ru[2] \subseteq 1 .. handle.params
        /\ TupleAllowed(allowed, ru[2])
        => \E i \in DOMAIN tests : Covers(tests[i], ru[2])

Job == INSTANCE CoveringArrayJob
       WITH allowed <- allowed, aborted <- aborted, result <- result

\* The job does what a client may expect of any covering array job.
ImplementsJob == Job!JobSpec

\* The client's future becomes ready, aborted or not.
ResultDelivered == <>(result.code # "PENDING")
===============================================================================

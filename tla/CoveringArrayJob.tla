--------------------------- MODULE CoveringArrayJob ---------------------------
(***************************************************************************)
(* What a covering array job promises its client, whatever algorithm does  *)
(* the work (cagen_exec_handle.hpp and the README): the client may ask for *)
(* an abort at any time; the job delivers one result, once; a result       *)
(* marked completed is a covering array, and one marked aborted is only    *)
(* delivered to a client that asked for it.  Either way every delivered    *)
(* test satisfies the constraints.                                         *)
(***************************************************************************)
EXTENDS CombinatorialModel

CONSTANT ReplaceDontCare    \* config_.replace_dont_care_values()

VARIABLES allowed, aborted, result

jobVars == <<allowed, aborted, result>>

Pending == [code |-> "PENDING", tests |-> <<>>]

\* A test the client may be given: complete and allowed if the job replaces
\* don't care values, and otherwise completable to an allowed test.
Deliverable(t) ==
    IF ReplaceDontCare THEN t \in allowed ELSE Extendable(allowed, t)

JobInit ==
    /\ allowed \in ConstraintSets
    /\ aborted = FALSE
    /\ result = Pending

RequestAbort ==
    /\ aborted' = TRUE
    /\ UNCHANGED <<allowed, result>>

Deliver ==
    /\ result = Pending
    /\ result'.tests \in Seq(PartialTests)
    /\ \A i \in DOMAIN result'.tests : Deliverable(result'.tests[i])
    /\ \/ /\ aborted
          /\ result' = [code |-> "ABORTED", tests |-> result'.tests]
       \/ /\ ~aborted
          /\ result' = [code |-> "COMPLETED", tests |-> result'.tests]
          /\ IsCoveringArray(allowed, result'.tests)
    /\ UNCHANGED <<allowed, aborted>>

JobNext == RequestAbort \/ Deliver

JobSpec == JobInit /\ [][JobNext]_jobVars
===============================================================================

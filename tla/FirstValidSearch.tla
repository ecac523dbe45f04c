--------------------------- MODULE FirstValidSearch ---------------------------
(***************************************************************************)
(* The search of constraint_handler_sylvan_idd for the first test of a     *)
(* list that admits an assignment.  A long list is halved recursively, one *)
(* half spawned as a Lace task and the other called, and its leaves are    *)
(* searched by the workers in any order.  The leaves share the lowest      *)
(* position found so far, an atomic that is read without the lock and with *)
(* relaxed ordering, and the pointer to that test, a plain variable.       *)
(*                                                                         *)
(* A leaf is named by its first position.  Any leaf may take the next      *)
(* step: the tasks of a pool of any size, stolen in any order, and         *)
(* suspended in favour of each other while the diagram operations below    *)
(* is_valid_partial_test wait for theirs.                                  *)
(***************************************************************************)
EXTENDS Integers

CONSTANTS
    MaxTests,    \* longest list considered
    LeafSize     \* 64 in the code, for leaves and for the sequential search

ASSUME SearchAssumption ==
    /\ MaxTests \in Nat
    /\ LeafSize \in Nat \ {0}

VARIABLES
    size,       \* test_list.size()
    parallel,   \* lace_workers() > 1
    good,       \* the tests that admit the assignment
    pc,         \* where the caller is
    next,       \* the position the sequential search has come to
    waiting,    \* the task ranges <<start, end>> not started yet
    at,         \* where each leaf is
    pos,        \* i, per leaf
    stop,       \* end, per leaf
    min,        \* ctx.min_valid_index
    stored,     \* the values min_valid_index has had
    test,       \* ctx.test
    holder,     \* the leaf that holds ctx.lock
    written,    \* tests that hold the values of the assignment
    answer      \* what the call returned

vars == <<size, parallel, good, pc, next, waiting, at, pos, stop, min, stored,
          test, holder, written, answer>>

input == <<size, parallel, good>>
shared == <<min, stored, test, holder>>

Positions == 0 .. (MaxTests - 1)

Unanswered == -2

\* nullptr
NoTest == -1

NoLeaf == -1

Init ==
    /\ size \in 0 .. MaxTests
    /\ parallel \in BOOLEAN
    /\ good \in SUBSET Positions
    /\ \A i \in good : i < size
    /\ pc = "call"
    /\ next = 0
    /\ waiting = {}
    /\ at = [s \in Positions |-> "none"]
    /\ pos = [s \in Positions |-> 0]
    /\ stop = [s \in Positions |-> 0]
    /\ min = size /\ stored = {size} /\ test = NoTest /\ holder = NoLeaf
    /\ written = {}
    /\ answer = Unanswered

\* get_first_test_valid_for_assignment: an empty list is answered at once, a
\* short one, or any list if there is one worker, searched sequentially.
Call ==
    /\ pc = "call"
    /\ IF size = 0
       THEN pc' = "done" /\ answer' = NoTest /\ UNCHANGED waiting
       ELSE IF ~parallel \/ size < LeafSize
            THEN pc' = "sequential" /\ UNCHANGED <<waiting, answer>>
            ELSE pc' = "parallel" /\ waiting' = {<<0, size>>} /\ UNCHANGED answer
    /\ UNCHANGED <<input, next, at, pos, stop, shared, written>>

\* The sequential search writes the assignment into a test, checks it, takes
\* the values back, and returns the test or goes on.
WriteNext ==
    /\ pc = "sequential"
    /\ next < size /\ written = {}
    /\ written' = {next}
    /\ UNCHANGED <<input, pc, next, waiting, at, pos, stop, shared, answer>>

CheckNext ==
    /\ pc = "sequential"
    /\ written # {}
    /\ written' = {}
    /\ IF next \in good
       THEN pc' = "done" /\ answer' = next /\ UNCHANGED next
       ELSE next' = next + 1 /\ UNCHANGED <<pc, answer>>
    /\ UNCHANGED <<input, waiting, at, pos, stop, shared>>

SequentialEnd ==
    /\ pc = "sequential"
    /\ next = size
    /\ pc' = "done"
    /\ answer' = NoTest
    /\ UNCHANGED <<input, next, waiting, at, pos, stop, shared, written>>

-------------------------------------------------------------------------------
(* The task lace_get_first_test_valid_for_assignment_task *)

\* Mutants of Halves: the middle test is in both, or the one before in none.
HalvesOverlapping(r) ==
    LET mid == r[1] + (r[2] - r[1]) \div 2
    IN {<<r[1], mid + 1>>, <<mid, r[2]>>}
HalvesApart(r) ==
    LET mid == r[1] + (r[2] - r[1]) \div 2
    IN {<<r[1], mid - 1>>, <<mid, r[2]>>}

Halves(r) ==
    LET mid == r[1] + (r[2] - r[1]) \div 2
    IN {<<r[1], mid>>, <<mid, r[2]>>}

Split(r) ==
    /\ r[2] - r[1] > LeafSize
    /\ waiting' = (waiting \ {r}) \cup Halves(r)
    /\ UNCHANGED <<input, pc, next, at, pos, stop, shared, written, answer>>

StartLeaf(r) ==
    /\ r[2] - r[1] <= LeafSize
    /\ waiting' = waiting \ {r}
    /\ at' = [at EXCEPT ![r[1]] = "look"]
    /\ pos' = [pos EXCEPT ![r[1]] = r[1]]
    /\ stop' = [stop EXCEPT ![r[1]] = r[2]]
    /\ UNCHANGED <<input, pc, next, shared, written, answer>>

Goto(s, l) == at' = [at EXCEPT ![s] = l]

\* Mutant of Passed: positions after the next test are given up as well.
PassedEarly(s, m) == pos[s] + 1 >= m

\* A lower test has been found: the leaf gives up.
Passed(s, m) == pos[s] >= m

\* The top of the loop.  The relaxed read may return any value stored so far.
\* If the leaf goes on, it writes the assignment into the test.
Look(s) ==
    /\ at[s] = "look"
    /\ \/ /\ pos[s] = stop[s]
          /\ Goto(s, "ended")
          /\ UNCHANGED written
       \/ /\ pos[s] < stop[s]
          /\ \E m \in stored :
                IF Passed(s, m)
                THEN Goto(s, "ended") /\ UNCHANGED written
                ELSE Goto(s, "check") /\ written' = written \cup {pos[s]}
    /\ UNCHANGED <<input, pc, next, waiting, pos, stop, shared, answer>>

\* is_valid_partial_test has answered; the values are taken back.
Check(s) ==
    /\ at[s] = "check"
    /\ written' = written \ {pos[s]}
    /\ IF pos[s] \in good
       THEN Goto(s, "compare") /\ UNCHANGED pos
       ELSE Goto(s, "look") /\ pos' = [pos EXCEPT ![s] = @ + 1]
    /\ UNCHANGED <<input, pc, next, waiting, stop, shared, answer>>

\* The comparison before the lock is taken, again with a relaxed read.
Compare(s) ==
    /\ at[s] = "compare"
    /\ \E m \in stored : Goto(s, IF pos[s] < m THEN "lock" ELSE "ended")
    /\ UNCHANGED <<input, pc, next, waiting, pos, stop, shared, written, answer>>

Lock(s) ==
    /\ at[s] = "lock"
    /\ holder = NoLeaf
    /\ holder' = s
    /\ Goto(s, "locked")
    /\ UNCHANGED <<input, pc, next, waiting, pos, stop, min, stored, test, written,
                   answer>>

\* Mutant of StillLower: the comparison is not repeated under the lock.
LowerOnce(s) == TRUE

\* All stores happen under the lock, so the read here returns the last one.
StillLower(s) == pos[s] < min

StoreIndex(s) ==
    /\ at[s] = "locked"
    /\ IF StillLower(s)
       THEN /\ min' = pos[s]
            /\ stored' = stored \cup {pos[s]}
            /\ Goto(s, "stored")
       ELSE /\ Goto(s, "unlock")
            /\ UNCHANGED <<min, stored>>
    /\ UNCHANGED <<input, pc, next, waiting, pos, stop, test, holder, written, answer>>

StoreTest(s) ==
    /\ at[s] = "stored"
    /\ test' = pos[s]
    /\ Goto(s, "unlock")
    /\ UNCHANGED <<input, pc, next, waiting, pos, stop, min, stored, holder, written,
                   answer>>

\* Mutant of Unlock: the leaf ends with the lock held.
UnlockForgotten(s) ==
    /\ at[s] = "unlock"
    /\ Goto(s, "ended")
    /\ UNCHANGED <<input, pc, next, waiting, pos, stop, shared, written, answer>>

Unlock(s) ==
    /\ at[s] = "unlock"
    /\ holder' = NoLeaf
    /\ Goto(s, "ended")
    /\ UNCHANGED <<input, pc, next, waiting, pos, stop, min, stored, test, written,
                   answer>>

\* Every spawned task has been synced with: the call returns.
ParallelEnd ==
    /\ pc = "parallel"
    /\ waiting = {}
    /\ \A s \in Positions : at[s] \in {"none", "ended"}
    /\ pc' = "done"
    /\ answer' = test
    /\ UNCHANGED <<input, next, waiting, at, pos, stop, shared, written>>

Leaf(s) == \/ Look(s) \/ Check(s) \/ Compare(s) \/ Lock(s) \/ StoreIndex(s)
           \/ StoreTest(s) \/ Unlock(s)

Search == \/ Call \/ WriteNext \/ CheckNext \/ SequentialEnd
          \/ \E r \in waiting : Split(r) \/ StartLeaf(r)
          \/ \E s \in Positions : Leaf(s)
          \/ ParallelEnd

Terminated == pc = "done" /\ UNCHANGED vars

Next == Search \/ Terminated

\* The workers of the pool keep taking steps as long as there is one to take.
Spec == Init /\ [][Next]_vars

FairSpec == Spec /\ WF_vars(Search)

-------------------------------------------------------------------------------
LeafPcs == {"none", "look", "check", "compare", "lock", "locked", "stored",
            "unlock", "ended"}

Ranges == {r \in (0 .. MaxTests) \X (0 .. MaxTests) : r[1] < r[2]}

\* Every variable holds a value of its kind.
TypeOK ==
    /\ size \in 0 .. MaxTests
    /\ parallel \in BOOLEAN
    /\ good \subseteq Positions
    /\ pc \in {"call", "sequential", "parallel", "done"}
    /\ next \in 0 .. MaxTests
    /\ waiting \subseteq Ranges
    /\ at \in [Positions -> LeafPcs]
    /\ pos \in [Positions -> 0 .. MaxTests]
    /\ stop \in [Positions -> 0 .. MaxTests]
    /\ min \in 0 .. MaxTests
    /\ stored \subseteq 0 .. MaxTests
    /\ test \in Positions \cup {NoTest}
    /\ holder \in Positions \cup {NoLeaf}
    /\ written \subseteq Positions
    /\ answer \in Positions \cup {NoTest, Unanswered}

\* constraint_handler.hpp:94-102.  The answer is the first test that admits the
\* assignment, although leaves stop on what they read of the others' results,
\* and the position and the pointer are stored separately.
FirstTestReturned ==
    pc = "done" =>
        \/ good = {} /\ answer = NoTest
        \/ answer \in good /\ \A j \in good : answer <= j

\* No two leaves write their assignment into the same test, and when the call
\* returns all tests are as they were.
TestsUntouched ==
    /\ \A s, t \in Positions :
           at[s] = "check" /\ at[t] = "check" /\ s # t => pos[s] # pos[t]
    /\ pc = "done" => written = {}

\* Outside the critical section, the pointer is that of the test at the lowest
\* position found; and no test found stays unreported by a leaf that has ended.
PointerMatchesIndex ==
    /\ holder = NoLeaf => test = IF min = size THEN NoTest ELSE min
    /\ \A s \in Positions :
           at[s] = "ended" => \A i \in good : i \in s .. (stop[s] - 1) => min <= i

\* The call returns.
SearchEnds == <>(pc = "done")

Answer == INSTANCE FirstValidAnswer
          WITH MaxTests <- MaxTests, good <- good, answer <- answer

\* The search does what callers of it may expect.
ImplementsAnswer == Answer!AnswerSpec
===============================================================================

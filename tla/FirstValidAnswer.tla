--------------------------- MODULE FirstValidAnswer ---------------------------
(***************************************************************************)
(* What get_first_test_valid_for_assignment promises                       *)
(* (constraint_handler.hpp:94-102): the first test of the list that admits  *)
(* the assignment, and none if no test does.  A test is its position in    *)
(* the list.  The IPOG job relies on the answer being the first one, and   *)
(* so on the order of the list, in what it builds.                         *)
(***************************************************************************)
EXTENDS Integers

CONSTANT MaxTests    \* longest list considered

VARIABLES
    good,      \* the tests that admit the assignment
    answer     \* what the call returned, once it has

Unanswered == -2

\* nullptr
NoTest == -1

IsFirst(i, S) ==
    \/ S = {} /\ i = NoTest
    \/ i \in S /\ \A j \in S : i <= j

AnswerInit ==
    /\ good \in SUBSET (0 .. (MaxTests - 1))
    /\ answer = Unanswered

Return ==
    /\ answer = Unanswered
    /\ IsFirst(answer', good)
    /\ UNCHANGED good

AnswerSpec == AnswerInit /\ [][Return]_<<good, answer>>
===============================================================================

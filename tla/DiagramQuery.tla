----------------------------- MODULE DiagramQuery -----------------------------
(***************************************************************************)
(* What a search in a decision diagram promises: each call asks one        *)
(* question, and is answered with what the diagram and the partial         *)
(* assignment determine, whatever other calls there are or have been.      *)
(***************************************************************************)
EXTENDS Integers

CONSTANTS
    Calls,
    Questions,
    Exact(_)    \* the right answer to a question, a set

VARIABLES question, answer

vars == <<question, answer>>

Unasked == [full |-> {}]
Unanswered == {-2}

Init ==
    /\ question = [c \in Calls |-> Unasked]
    /\ answer = [c \in Calls |-> Unanswered]

Ask(c) ==
    /\ question[c] = Unasked
    /\ \E q \in Questions : question' = [question EXCEPT ![c] = q]
    /\ UNCHANGED answer

Answer(c) ==
    /\ question[c] # Unasked
    /\ answer[c] = Unanswered
    /\ answer' = [answer EXCEPT ![c] = Exact(question[c])]
    /\ UNCHANGED question

Next == \E c \in Calls : Ask(c) \/ Answer(c)

QuerySafety == Init /\ [][Next]_vars

\* A call that has asked is answered.
Spec ==
    /\ QuerySafety
    /\ \A c \in Calls : question[c] # Unasked ~> answer[c] # Unanswered
===============================================================================

----------------------------- MODULE DiagramNodes -----------------------------
(***************************************************************************)
(* The nodes of an interval decision diagram: those of a list decision     *)
(* diagram of Sylvan, with an interval of values in the place of a value.  *)
(* A node tests one variable: its value lies in the interval and the       *)
(* search goes down, or it is greater and the search goes right.  Sylvan's *)
(* table holds equal nodes once, so a node is its own content here.        *)
(***************************************************************************)
EXTENDS Integers

lddFalse == <<0>>
lddTrue == <<1>>

Terminals == {lddFalse, lddTrue}

\* lddmc_makenode: a node whose down edge leads to false is not created.
MakeNode(lb, ub, down, right) ==
    IF down = lddFalse THEN right ELSE <<lb, ub, down, right>>

Lb(n) == n[1]
Ub(n) == n[2]
Down(n) == n[3]
Right(n) == n[4]
===============================================================================

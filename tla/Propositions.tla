------------------------------ MODULE Propositions ------------------------------
(***************************************************************************)
(* Propositions about one parameter: by the values themselves, as the      *)
(* constraints are evaluated and simplified, and by the places of the      *)
(* values in the list of the parameter, as constraint_to_xdd_visitor turns *)
(* them into diagrams.  LE, LT, GE and GT become an interval of places     *)
(* there, from one end of the list up to the satisfying value that is      *)
(* furthest from it.                                                       *)
(***************************************************************************)
EXTENDS Integers, Sequences

Holds(op, x, v) ==
    CASE op = "EQ"  -> x = v
      [] op = "NEQ" -> x # v
      [] op = "LT"  -> x < v
      [] op = "LE"  -> x <= v
      [] op = "GE"  -> x >= v
      [] op = "GT"  -> x > v

NegatedOp == [EQ |-> "NEQ", NEQ |-> "EQ", LT |-> "GE", GE |-> "LT",
              GT |-> "LE", LE |-> "GT"]

\* x is listed before y.
Precedes(list, x, y) ==
    \E i, j \in DOMAIN list : i < j /\ list[i] = x /\ list[j] = y

Sorted(list) == \A i, j \in DOMAIN list : i < j => list[i] < list[j]

\* The values of dom, listed in the order of list, that the diagram of a
\* comparison with v admits.
Admitted(op, v, dom, list) ==
    {x \in dom : \E y \in dom :
        /\ Holds(op, y, v)
        /\ \/ x = y
           \/ op \in {"LE", "LT"} /\ Precedes(list, x, y)
           \/ op \in {"GE", "GT"} /\ Precedes(list, y, x)}
===============================================================================

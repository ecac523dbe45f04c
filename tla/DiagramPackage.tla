---------------------------- MODULE DiagramPackage ----------------------------
(***************************************************************************)
(* Diagrams that are built and searched in turn, as the constraint handler *)
(* does: the diagrams of its components first, then searches, then         *)
(* diagrams of single tests derived from those, and searches again, all    *)
(* over one table of nodes and one operation cache.                        *)
(***************************************************************************)
EXTENDS DiagramConstruction, DiagramSearch

CONSTANT MayOverlap    \* bound: the questions asked while another call runs

ASSUME MayOverlap \subseteq Questions

packageVars == <<stack, leaves, question, answer, tasks, terminate, cache>>

PackageInit == ConstructionInit /\ SearchInit

\* What a search of a diagram asks: the cubes name the levels by their position
\* among the diagram's, and so does the index of the variable.
PositionOf(idd, v) ==
    IF Contains(idd.variables, v)
    THEN CHOOSE i \in DOMAIN idd.variables : idd.variables[i] = v ELSE 0

CubeOf(idd, partial) ==
    [i \in {j \in DOMAIN idd.variables : partial[idd.variables[j]] >= 0}
        |-> partial[idd.variables[i]]]

SatQuestion(idd, partial) ==
    [problem |-> [node |-> idd.node, level |-> 1, cube |-> CubeOf(idd, partial),
                  target |-> 0],
     full |-> {Yes}]

ValuesQuestion(idd, partial, v) ==
    [problem |-> [node |-> idd.node, level |-> 1, cube |-> CubeOf(idd, partial),
                  target |-> PositionOf(idd, v)],
     full |-> Values(v)]

\* A variable that has a value, or is none of the diagram's, is not searched for.
Ask(c, q) ==
    /\ tasks = <<>> \/ q \in MayOverlap
    /\ q.problem.node = Top.idd.node
    /\ \E partial \in PartialAssignments :
          \/ q = SatQuestion(Top.idd, partial)
          \/ \E v \in ToSet(Top.idd.variables) :
                partial[v] < 0 /\ q = ValuesQuestion(Top.idd, partial, v)
    /\ Begin(c, q)

Build == tasks = <<>> /\ ConstructionNext /\ UNCHANGED vars

PackageNext ==
    \/ Build
    \/ /\ \E c \in Calls :
             \/ Advance(c)
             \/ stack # <<>> /\ \E q \in Questions : Ask(c, q)
       /\ UNCHANGED <<stack, leaves>>

PackageSpec ==
    /\ PackageInit
    /\ [][PackageNext]_packageVars
    /\ \A c \in Calls : WF_packageVars(Advance(c) /\ UNCHANGED <<stack, leaves>>)

(***************************************************************************)
(* Every diagram the library works with accepts exactly the assignments    *)
(* that its expression allows: the operations on diagrams skip, split and  *)
(* merge intervals, and lift diagrams over different levels to common      *)
(* ones.  (Searches leave the diagrams alone: it is enough to look when    *)
(* none is running.)                                                       *)
(***************************************************************************)
DiagramExact ==
    tasks = <<>> =>
        \A i \in DOMAIN stack : Represents(stack[i].idd, stack[i].meaning)

(***************************************************************************)
(* Completing an assignment with a diagram gives a value to every level of *)
(* the diagram and to no other, so that whatever the values of the other   *)
(* levels the expression allows the result - if any completion does.       *)
(***************************************************************************)
CompletionExact ==
    tasks = <<>> /\ stack # <<>> =>
        \A partial \in PartialAssignments :
            Completes(Top.idd, Top.meaning, partial)
===============================================================================

--------------------------- MODULE IntervalDiagrams ---------------------------
(***************************************************************************)
(* The operations of citcpp_sylvan_ldd.cpp on interval decision diagrams,  *)
(* and what a diagram means.  The caches of these operations, which only   *)
(* repeat what the operation has returned for the same arguments, are left *)
(* out; DiagramSearch has the searches, whose results depend on more.      *)
(***************************************************************************)
EXTENDS DiagramNodes, FiniteSetsExt, SequencesExt

MaxOf(x, y) == IF x > y THEN x ELSE y
MinOf(x, y) == IF x < y THEN x ELSE y

Overlap(a, b) == MaxOf(Lb(a), Lb(b)) <= MinOf(Ub(a), Ub(b))

\* is_intervals_connected
Connected(lb, ub, n) == lb <= Ub(n) + 1 /\ Lb(n) <= ub + 1

\* The order of the encoded intervals, the upper bound in the high half.
Before(a, b) == Ub(a) < Ub(b) \/ (Ub(a) = Ub(b) /\ Lb(a) < Lb(b))

\* sylvan_idd_makenode: as above, merged with the node to the right if that
\* one continues the interval and leads to the same diagram.
IddMakeNode(lb, ub, down, right) ==
    IF right # lddFalse /\ Down(right) = down /\ Connected(lb, ub, right)
    THEN MakeNode(MinOf(lb, Lb(right)), MaxOf(ub, Ub(right)), down, Right(right))
    ELSE MakeNode(lb, ub, down, right)

Proposition(op, value, size) ==
    LET Values(lb, ub, right) ==
            IF lb > ub THEN right ELSE MakeNode(lb, ub, lddTrue, right)
    IN CASE op = "NEQ" -> Values(0, value - 1, Values(value + 1, size - 1, lddFalse))
         [] op = "LT"  -> Values(0, value - 1, lddFalse)
         [] op = "LE"  -> MakeNode(0, value, lddTrue, lddFalse)
         [] op = "GE"  -> MakeNode(value, size - 1, lddTrue, lddFalse)
         [] op = "GT"  -> Values(value + 1, size - 1, lddFalse)
         [] op = "EQ"  -> MakeNode(value, value, lddTrue, lddFalse)

\* A diagram with the levels it is about, sorted: the class sylvan_idd.
Idd(node, variables) == [node |-> node, variables |-> variables]
iddTrue == Idd(lddTrue, <<>>)
iddFalse == Idd(lddFalse, <<>>)

(***************************************************************************)
(* The projection cube: which of the target levels are local to a diagram. *)
(* 1 keep, 0 quantify, -1 keep this and the rest, -2 quantify this and the *)
(* rest.                                                                   *)
(***************************************************************************)
ProjectionCube(targets, locals) ==
    LET Local(i) == Contains(locals, targets[i])
    IN [i \in DOMAIN targets |->
          IF Local(i)
          THEN IF \A j \in DOMAIN targets : j > i => Local(j) THEN -1 ELSE 1
          ELSE IF \E j \in DOMAIN targets : j > i /\ Local(j) THEN 0 ELSE -2]

\* get_common_variables: the levels of either diagram.
CommonVariables(l, r) == SetToSortSeq(ToSet(l) \union ToSet(r), <)

\* The skipping loop: the first pair of nodes with values in common, or false.
RECURSIVE Meet(_, _)
Meet(a, b) ==
    IF a = lddFalse \/ b = lddFalse THEN <<lddFalse, lddFalse>>
    ELSE IF Overlap(a, b) THEN <<a, b>>
    ELSE IF Before(a, b) THEN Meet(Right(a), b) ELSE Meet(a, Right(b))

\* Mutant: both move on, also when one of them reaches further.
RestOfNeither(a, b) == <<Right(a), Right(b)>>

\* The pair of nodes to go on with, of a pair that meets: whichever ends first
\* moves to the right.
Rest(a, b) ==
    << IF Ub(a) <= Ub(b) THEN Right(a) ELSE a,
       IF Ub(b) <= Ub(a) THEN Right(b) ELSE b >>

RECURSIVE Intersect(_, _)
Intersect(a, b) ==
    IF a = b THEN a
    ELSE LET m == Meet(a, b)
             x == m[1]
             y == m[2]
             rest == Rest(x, y)
         IN IF x = lddFalse THEN lddFalse
            ELSE IddMakeNode(MaxOf(Lb(x), Lb(y)), MinOf(Ub(x), Ub(y)),
                             Intersect(Down(x), Down(y)),
                             Intersect(rest[1], rest[2]))

\* The cube one level down; an entry for the rest of the levels stays.
Under(cube) == IF Head(cube) = -1 THEN cube ELSE Tail(cube)

RECURSIVE Join(_, _, _, _)
Join(a, b, aProj, bProj) ==
    LET pa == Head(aProj)
        pb == Head(bProj)
    IN IF a = lddFalse \/ b = lddFalse THEN lddFalse
       ELSE IF pa = -2 THEN b
       ELSE IF pb = -2 THEN a
       ELSE IF pa = -1 /\ pb = -1 THEN Intersect(a, b)
       ELSE IF pb = 0
       THEN MakeNode(Lb(a), Ub(a), Join(Down(a), b, Under(aProj), Under(bProj)),
                     Join(Right(a), b, aProj, bProj))
       ELSE IF pa = 0
       THEN MakeNode(Lb(b), Ub(b), Join(a, Down(b), Under(aProj), Under(bProj)),
                     Join(a, Right(b), aProj, bProj))
       ELSE LET m == Meet(a, b)
                x == m[1]
                y == m[2]
                rest == Rest(x, y)
            IN IF x = lddFalse THEN lddFalse
               ELSE MakeNode(MaxOf(Lb(x), Lb(y)), MinOf(Ub(x), Ub(y)),
                             Join(Down(x), Down(y), Under(aProj), Under(bProj)),
                             Join(rest[1], rest[2], aProj, bProj))

\* sylvan_idd_inv_project: the assignments of a whose projection is in b.
RECURSIVE InvProject(_, _, _)
InvProject(a, b, proj) ==
    IF a = b THEN a
    ELSE IF a = lddFalse \/ b = lddFalse THEN lddFalse
    ELSE IF Head(proj) = -2 THEN a
    ELSE IF Head(proj) = -1 THEN b
    ELSE IF Head(proj) = 0
    THEN IddMakeNode(Lb(a), Ub(a), InvProject(Down(a), b, Tail(proj)),
                     InvProject(Right(a), b, proj))
    ELSE LET m == Meet(a, b)
             x == m[1]
             y == m[2]
             rest == Rest(x, y)
         IN IF x = lddFalse THEN lddFalse
            ELSE IddMakeNode(MaxOf(Lb(x), Lb(y)), MinOf(Ub(x), Ub(y)),
                             InvProject(Down(x), Down(y), Tail(proj)),
                             InvProject(rest[1], rest[2], proj))

\* sylvan_idd_union: of two nodes, the one that starts first is kept up to
\* where the other one starts; nodes that start together are united up to where
\* the first of them ends.
RECURSIVE Union(_, _)
Union(a, b) ==
    IF a = b THEN a
    ELSE IF a = lddFalse THEN b
    ELSE IF b = lddFalse THEN a
    ELSE IF Lb(b) < Lb(a) THEN Union(b, a)
    ELSE IF Ub(a) < Lb(b)
    THEN IddMakeNode(Lb(a), Ub(a), Down(a), Union(Right(a), b))
    ELSE IF Lb(a) < Lb(b)
    THEN IddMakeNode(Lb(a), Lb(b) - 1, Down(a),
                     Union(MakeNode(Lb(b), Ub(a), Down(a), Right(a)), b))
    ELSE LET ub == MinOf(Ub(a), Ub(b))
             From(n) == IF Ub(n) = ub THEN Right(n)
                        ELSE MakeNode(ub + 1, Ub(n), Down(n), Right(n))
         IN IddMakeNode(Lb(a), ub, Union(Down(a), Down(b)), Union(From(a), From(b)))

RECURSIVE Project(_, _)
Project(n, proj) ==
    IF n \in Terminals THEN n
    ELSE IF Head(proj) = -1 THEN n
    ELSE IF Head(proj) = -2 THEN lddTrue
    ELSE LET down == Project(Down(n), Tail(proj))
             right == Project(Right(n), proj)
         IN IF Head(proj) = 1
            THEN IddMakeNode(Lb(n), Ub(n), down, right)
            ELSE Union(right, down)

RECURSIVE SatCount(_)
SatCount(n) ==
    IF n = lddFalse THEN 0
    ELSE IF n = lddTrue THEN 1
    ELSE SatCount(Right(n)) + SatCount(Down(n)) * (Ub(n) - Lb(n) + 1)

\* sylvan_idd_create_universe, for levels with the given domain sizes.
Universe(variables, sizes) ==
    FoldRight(LAMBDA v, n : MakeNode(0, sizes[v] - 1, n, lddFalse), variables, lddTrue)

(***************************************************************************)
(* The operations of sylvan_idd.                                           *)
(***************************************************************************)
ProjectIntersect(l, r) ==
    IF l.node = lddFalse \/ r.node = lddFalse THEN iddFalse
    ELSE IF l.node = lddTrue THEN r
    ELSE IF r.node = lddTrue THEN l
    ELSE LET common == CommonVariables(l.variables, r.variables)
         IN Idd(Join(l.node, r.node, ProjectionCube(common, l.variables),
                     ProjectionCube(common, r.variables)), common)

ProjectUnion(l, r, sizes) ==
    IF l.node = lddFalse THEN r
    ELSE IF r.node = lddFalse THEN l
    ELSE LET common == CommonVariables(l.variables, r.variables)
             Lift(d) == InvProject(Universe(common, sizes), d.node,
                                   ProjectionCube(common, d.variables))
         IN Idd(Union(Lift(l), Lift(r)), common)

ProjectTo(d, targets) ==
    LET kept == SelectSeq(d.variables, LAMBDA v : v \in targets)
    IN IF d.node \in Terminals \/ kept = d.variables THEN d
       ELSE IF kept = <<>> THEN iddTrue
       ELSE Idd(Project(d.node, ProjectionCube(d.variables, kept)), kept)

\* The diagram of one partial assignment, negative values left out.
Cube(assignment, levels) ==
    LET kept == SelectSeq(levels, LAMBDA v : assignment[v] >= 0)
    IN Idd(FoldRight(LAMBDA v, n : MakeNode(assignment[v], assignment[v], n, lddFalse),
                     kept, lddTrue), kept)

\* The node to the right that holds a value, or false.
RECURSIVE NodeOf(_, _)
NodeOf(n, value) ==
    IF n = lddFalse \/ value < Lb(n) THEN lddFalse
    ELSE IF value <= Ub(n) THEN n ELSE NodeOf(Right(n), value)

\* sylvan_idd_full_sat_one_under_partial_assignment_recursive: the lowest values
\* of the intervals along one path that agrees with the assignment, as a set
\* that is empty if there is no such path.
RECURSIVE FullSatOne(_, _, _)
FullSatOne(n, variables, assignment) ==
    IF n = lddTrue THEN {<<>>}
    ELSE IF n = lddFalse THEN {}
    ELSE LET value == assignment[Head(variables)]
             x == IF value >= 0 THEN NodeOf(n, value) ELSE n
             below == IF x = lddFalse THEN {}
                      ELSE FullSatOne(Down(x), Tail(variables), assignment)
         IN IF below # {} THEN {<<Lb(x)>> \o path : path \in below}
            ELSE IF value >= 0 THEN {}
            ELSE FullSatOne(Right(n), variables, assignment)

\* Mutant: the values of the path also replace values the assignment has.
CompleteOver(d, assignment) ==
    LET paths == FullSatOne(d.node, d.variables, assignment)
    IN [v \in DOMAIN assignment |->
          IF paths # {} /\ Contains(d.variables, v)
          THEN (CHOOSE path \in paths : TRUE)[CHOOSE i \in DOMAIN d.variables :
                                                 d.variables[i] = v]
          ELSE assignment[v]]

\* get_sat_one_under_partial_assignment: missing values are filled with the
\* lowest values along the path.
Complete(d, assignment) ==
    LET paths == FullSatOne(d.node, d.variables, assignment)
    IN [v \in DOMAIN assignment |->
          IF assignment[v] < 0 /\ paths # {} /\ Contains(d.variables, v)
          THEN (CHOOSE path \in paths : TRUE)[CHOOSE i \in DOMAIN d.variables :
                                                 d.variables[i] = v]
          ELSE assignment[v]]

(***************************************************************************)
(* What a diagram means.                                                   *)
(***************************************************************************)
RECURSIVE Accepts(_, _, _)
Accepts(n, variables, f) ==
    IF n \in Terminals THEN n = lddTrue
    ELSE LET x == NodeOf(n, f[Head(variables)])
         IN x # lddFalse /\ Accepts(Down(x), Tail(variables), f)

\* A chain of nodes to the right has disjoint ascending intervals of the
\* domain, and every path down has one node per level.
RECURSIVE WellFormedNode(_, _, _, _)
WellFormedNode(n, variables, sizes, lowest) ==
    IF variables = <<>> THEN n = lddTrue
    ELSE /\ n \notin Terminals
         /\ lowest <= Lb(n) /\ Lb(n) <= Ub(n) /\ Ub(n) < sizes[Head(variables)]
         /\ WellFormedNode(Down(n), Tail(variables), sizes, 0)
         /\ \/ Right(n) = lddFalse
            \/ WellFormedNode(Right(n), variables, sizes, Ub(n) + 1)

WellFormed(d, sizes) ==
    \/ d.node = lddFalse
    \/ WellFormedNode(d.node, d.variables, sizes, 0)
===============================================================================

------------------------------ MODULE MCDiagrams ------------------------------
(***************************************************************************)
(* DiagramPackage on three levels.  Everything that can be built from the  *)
(* propositions is built; searched are a diagram of two levels and one of  *)
(* three levels that contains it.                                          *)
(***************************************************************************)
EXTENDS DiagramPackage

CONSTANTS c1, c2

\* Levels of an integer parameter, of one with names, and of another integer one.
MCListed == <<<<1, 3, 4>>, <<2, 1>>, <<1, 2, 3>>>>

MCIntLevels == {1, 3}

MCCompared == 0 .. 5

\* Also for values that are not sorted, a comparison becomes the interval that the
\* module ConstraintComponents works with, and its negation the complement.
ASSUME ConversionAdmits ==
    \A S \in (SUBSET (1 .. 3)) \ {{}} : \A list \in SetToSeqs(S) :
        \A op \in DOMAIN NegatedOp, value \in 0 .. 4, negate \in BOOLEAN :
            LET idd == Conversion(1, list, op, value, negate)
                accepted == {i \in DOMAIN list :
                                Accepts(idd.node, idd.variables, <<i - 1>>)}
                admitted == Admitted(op, value, S, list)
            IN {list[i] : i \in accepted} = IF negate THEN S \ admitted ELSE admitted

MCCalls == {c1, c2}

NoValues == <<-1, -1, -1>>

MCTests == {<<-1, 1, 2>>, <<0, -1, 1>>}

\* Level 2 is 0 and level 3 is not; and that, or level 1 is 0.
Small == ProjectIntersect(Idd(Proposition("EQ", 0, 2), <<2>>),
                          Idd(Proposition("NEQ", 0, 3), <<3>>))
Large == ProjectUnion(Small, Idd(Proposition("EQ", 0, 3), <<1>>), Sizes)

MCQuestions ==
    { SatQuestion(Small, [NoValues EXCEPT ![3] = 0]),
      SatQuestion(Large, [NoValues EXCEPT ![1] = 1, ![2] = 0]),
      ValuesQuestion(Large, NoValues, 3),
      ValuesQuestion(Large, [NoValues EXCEPT ![1] = 1], 3) }

MCMayOverlap == {q \in MCQuestions : IsSat(q.problem)}

\* The problems that follow from a problem.
RECURSIVE ProblemsOf(_)
ProblemsOf(p) ==
    {p} \union
    IF Solved(p) \/ p.node = lddFalse THEN {}
    ELSE ProblemsOf(Below(p)) \union ProblemsOf(At(p, Right(p.node)))

MCProblems == UNION {ProblemsOf(q.problem) : q \in MCQuestions}

RECURSIVE Depth(_)
Depth(n) == IF n \in Terminals THEN 0 ELSE 1 + Depth(Down(n))

\* What is to be found, by what the diagram accepts.
MCSolution ==
    [p \in MCProblems |->
        LET below == [i \in 1 .. Depth(p.node) |-> p.level + i - 1]
            accepted == {f \in [ToSet(below) -> 0 .. 2] : Accepts(p.node, below, f)}
            agreeing == {f \in accepted : \A l \in DOMAIN p.cube : f[l] = p.cube[l]}
        IN IF Solved(p) THEN {Yes}
           ELSE IF p.target >= p.level THEN {f[p.target] : f \in agreeing}
           ELSE {Yes : f \in agreeing}]
===============================================================================

------------------------- MODULE DiagramConstruction -------------------------
(***************************************************************************)
(* How constraint_to_xdd_visitor and the constraint handler use the        *)
(* diagrams: a constraint is visited bottom up, its propositions become    *)
(* diagrams over one level each, and its operators combine what their      *)
(* operands have become.  The operands not combined yet are a stack, as    *)
(* they are the locals of the visitor's calls.  Beside each diagram stands *)
(* what it has to mean: the set of assignments the expression allows.      *)
(***************************************************************************)
EXTENDS IntervalDiagrams, Propositions

CONSTANTS
    Listed,     \* the values of each level, in the order of the domain
    IntLevels,  \* the levels of integer parameters
    Compared,   \* bound: the values that propositions compare with
    MaxLeaves,  \* bound: propositions, literals and cubes of one expression
    Tests       \* partial assignments whose cubes are used

\* The bounds of an interval have 16 bits each.
MaxValues == 2^16 - 1

\* check_parameters_and_domains and sort_parameter_values.
ASSUME ConstructionAssumption ==
    /\ Listed \in Seq(Seq(Int))
    /\ \A v \in DOMAIN Listed :
           /\ Len(Listed[v]) \in 1 .. MaxValues
           /\ \A i, j \in DOMAIN Listed[v] : i # j => Listed[v][i] # Listed[v][j]
    /\ IntLevels \subseteq DOMAIN Listed
    /\ \A v \in IntLevels : Sorted(Listed[v])
    /\ Compared \subseteq Int
    /\ MaxLeaves \in Nat \ {0}
    /\ Tests \subseteq [DOMAIN Listed -> Int]

Sizes == [v \in DOMAIN Listed |-> Len(Listed[v])]

VARIABLES
    stack,    \* [idd, meaning] for each operand that waits for its operator
    leaves    \* how many leaves have been visited

Levels == DOMAIN Sizes

Values(v) == 0 .. Sizes[v] - 1

\* Assignments of all levels, and those that miss some of the values.
Assignments == { f \in [Levels -> 0 .. Max(ToSet(Sizes))] :
                    \A v \in Levels : f[v] \in Values(v) }
PartialAssignments == { f \in [Levels -> -1 .. Max(ToSet(Sizes))] :
                           \A v \in Levels : f[v] \in Values(v) \union {-1} }

Agree(f, partial) == \A v \in Levels : partial[v] >= 0 => f[v] = partial[v]

ConstructionInit == stack = <<>> /\ leaves = 0

Push(idd, meaning) ==
    /\ leaves < MaxLeaves
    /\ leaves' = leaves + 1
    /\ stack' = Append(stack, [idd |-> idd, meaning |-> meaning])

\* The diagram of a comparison of the values in list, those of level v: of the
\* interval of indices from one end of the list to the satisfying value that is
\* furthest from it.
Conversion(v, list, op, value, negate) ==
    LET Truth(b) == IF b # negate THEN iddTrue ELSE iddFalse
        Interval(o, i) == Idd(Proposition(IF negate THEN NegatedOp[o] ELSE o, i - 1,
                                          Len(list)), <<v>>)
        first == SelectInSeq(list, LAMBDA x : Holds(op, x, value))
        last == SelectLastInSeq(list, LAMBDA x : Holds(op, x, value))
        same == SelectInSeq(list, LAMBDA x : x = value)
    IN CASE op \in {"EQ", "NEQ"} ->
              IF same = 0 THEN Truth(op = "NEQ") ELSE Interval(op, same)
         [] op \in {"LE", "LT"} ->
              IF last \in {0, Len(list)} THEN Truth(last # 0) ELSE Interval("LE", last)
         [] op \in {"GE", "GT"} ->
              IF first \in {0, 1} THEN Truth(first # 0) ELSE Interval("GE", first)

\* Values of levels that are no integers are compared for equality only.
Comparisons ==
    {c \in [level : Levels, op : DOMAIN NegatedOp, value : Compared] :
        c.op \in {"EQ", "NEQ"} \/ c.level \in IntLevels}

\* What a comparison or its negation becomes, and what it means: by the values.
Converted(c, negate) ==
    LET list == Listed[c.level]
    IN [idd |-> Conversion(c.level, list, c.op, c.value, negate),
        meaning |-> {f \in Assignments :
                        Holds(c.op, list[f[c.level] + 1], c.value) # negate}]

AllConverted == {Converted(c, negate) : c \in Comparisons, negate \in BOOLEAN}

VisitProposition == \E p \in AllConverted : Push(p.idd, p.meaning)

VisitLiteral ==
    \/ Push(iddTrue, Assignments)
    \/ Push(iddFalse, {})

\* The assignment of a test, to be conjoined with the diagram of its component.
VisitCube ==
    \E partial \in Tests :
        Push(Cube(partial, SetToSortSeq(Levels, <)),
             {f \in Assignments : Agree(f, partial)})

Left == stack[Len(stack) - 1]
Top == stack[Len(stack)]

Combine(idd, meaning) ==
    /\ stack' = Append(SubSeq(stack, 1, Len(stack) - 2),
                       [idd |-> idd, meaning |-> meaning])
    /\ UNCHANGED leaves

\* A conjunction, or the negation of a disjunction.  The first operand, and one
\* after operands that are all true, is taken over as it is.
VisitAnd ==
    /\ Len(stack) > 1
    /\ Combine(IF Left.idd = iddTrue THEN Top.idd
               ELSE ProjectIntersect(Left.idd, Top.idd),
               Left.meaning \intersect Top.meaning)

\* A disjunction or an implication, or the negation of a conjunction.
VisitOr ==
    /\ Len(stack) > 1
    /\ Combine(IF Left.idd = iddFalse THEN Top.idd
               ELSE ProjectUnion(Left.idd, Top.idd, Sizes),
               Left.meaning \union Top.meaning)

\* sylvan_idd::project: the values of the remaining levels that some values of
\* the levels projected away complete.
VisitProject ==
    \E targets \in SUBSET Levels :
        /\ stack # <<>>
        /\ leaves = MaxLeaves
        /\ stack' = [stack EXCEPT ![Len(stack)] =
              [idd |-> ProjectTo(Top.idd, targets),
               meaning |-> {f \in Assignments :
                              \E g \in Top.meaning : \A v \in targets : f[v] = g[v]}]]
        /\ UNCHANGED leaves

ConstructionNext ==
    \/ VisitProposition \/ VisitLiteral \/ VisitCube
    \/ VisitAnd \/ VisitOr \/ VisitProject

Holding(idd) == {f \in Assignments : Accepts(idd.node, idd.variables, f)}

\* A diagram is well formed, accepts what it has to mean, and is counted right:
\* the number of values on its paths is that of the assignments of its levels.
Represents(idd, meaning) ==
    /\ WellFormed(idd, Sizes)
    /\ Holding(idd) = meaning
    /\ SatCount(idd.node) =
          Cardinality({[v \in ToSet(idd.variables) |-> f[v]] : f \in meaning})

\* An assignment is completed for all levels of the diagram and for no other
\* level, to what the diagram means, if it can be.
Completes(idd, meaning, partial) ==
    LET completed == Complete(idd, partial)
        changed == {v \in Levels : completed[v] # partial[v]}
        missing == {v \in ToSet(idd.variables) : partial[v] < 0}
    IN IF \E f \in meaning : Agree(f, partial)
       THEN /\ changed = missing
            /\ \A v \in changed : completed[v] >= 0 /\ partial[v] < 0
            /\ \A f \in Assignments : Agree(f, completed) => f \in meaning
       ELSE changed = {}
===============================================================================

------------------------- MODULE MCConstraintComponents -------------------------
(* Instances of ConstraintComponents. *)
EXTENDS ConstraintComponents, Visitors

MCParams == 1 .. 4
MCDom == <<{1, 2}, {1, 2}, {1, 2, 3}, {1, 2}>>

A(op, v) == Prop(1, op, v)
B(op, v) == Prop(2, op, v)
C(op, v) == Prop(3, op, v)
D(op, v) == Prop(4, op, v)

\* Constraints as clients write them: propositions, implications nested on either
\* side, disjunctions of conjunctions, some that hold or fail whatever the test.
Pool == <<
    A("EQ", 1),
    Implication(A("EQ", 1), B("EQ", 2)),
    Implication(And(<<A("EQ", 1), C("GE", 2)>>), D("EQ", 1)),
    Or(<<C("LE", 1), C("EQ", 2)>>),
    Or(<<C("LE", 1), C("GE", 2)>>),
    And(<<B("EQ", 1), Implication(C("EQ", 3), D("NEQ", 1))>>),
    Implication(Implication(A("EQ", 1), B("EQ", 1)), C("LT", 3)),
    Or(<<A("EQ", 2), And(<<B("EQ", 1), C("EQ", 3)>>)>>),
    Or(<<And(<<C("EQ", 1), D("EQ", 1)>>), And(<<C("EQ", 2), D("EQ", 1)>>)>>),
    Implication(D("EQ", 2), And(<<C("GT", 1), C("LT", 2)>>)),
    Or(<<Literal(FALSE), Or(<<A("NEQ", 1), D("EQ", 3)>>)>>)>>

\* The only parameter whose values are compared by order.
MCIntParams == {3}

\* The client may list its values in any order.
MCListings == {<<<<2, 1>>, <<1, 2>>, c, <<1, 2>>>> : c \in {<<3, 1, 2>>, <<2, 3, 1>>}}

\* Up to three of them, in the order above.
MCInputs ==
    {[k \in DOMAIN s |-> Pool[s[k]]] : s \in
        {SetToSortSeq(chosen, <) : chosen \in UNION {kSubset(k, DOMAIN Pool) : k \in 0 .. 3}}}

\* A disjunction whose operands limit one parameter in common, and together
\* leave it all its values.
MCWideDisjunction == {<<Or(<<A("EQ", 2), And(<<A("EQ", 1), B("EQ", 1)>>)>>)>>}

\* Two constraints no value satisfies.
MCContradiction == {<<A("EQ", 1), Implication(A("EQ", 1), A("EQ", 2))>>}

-------------------------------------------------------------------------------
(* The expressions that come of these. *)

RECURSIVE MCDepth(_)
MCDepth(e) == 1 + Max({0} \cup {MCDepth(o) : o \in ToSet(Operands(e))})

RECURSIVE WithOperands(_)
WithOperands(e) == {e} \cup UNION {WithOperands(o) : o \in ToSet(Operands(e))}

FromPlain(e) ==
    ToSet(Operands(e)) \cup {ResolveAll(e, negate) : negate \in BOOLEAN}
        \cup {FlattenAll(e)} \cup {SimplifyAll(e, dom).expr : dom \in Domains}

\* What comes of the expressions S, and of what comes of them.
RECURSIVE Closure(_, _)
Closure(S, found) ==
    IF S = {} THEN found
    ELSE LET new == UNION {FromPlain(e) : e \in S} \ found
         IN Closure(new, found \cup new)

Given == UNION {ToSet(cs) : cs \in MCInputs \cup MCWideDisjunction \cup MCContradiction}

AsGiven == UNION {WithOperands(e) : e \in Given}

WithoutImplications ==
    LET start == {ResolveAll(e, negate) : e \in AsGiven, negate \in BOOLEAN}
                     \cup {Literal(TRUE), Literal(FALSE)}
    IN Closure(start, start)

MCPlain == WithoutImplications
MCExprs == AsGiven \cup WithoutImplications
===============================================================================

------------------------------ MODULE Constraints ------------------------------
(***************************************************************************)
(* Constraints: expressions over propositions that compare the value of a  *)
(* parameter with a constant, and what the library derives from them by    *)
(* visiting them.  Values are integers; boolean and enumerated parameters  *)
(* use EQ and NEQ only.                                                    *)
(*                                                                         *)
(* A visitor is given by what it makes of an expression from what it has   *)
(* made of the operands, one definition ...Node for each visitor.  Module  *)
(* Visitors has the recursion.                                             *)
(***************************************************************************)
EXTENDS Propositions, SequencesExt

CONSTANTS
    Params,    \* the parameters, 1 .. n
    Dom        \* the values of each parameter

Literal(b) == [type |-> "LITERAL", value |-> b]
Prop(p, op, v) == [type |-> "PROP", param |-> p, op |-> op, value |-> v]
Implication(l, r) == [type |-> "IMPLICATION", left |-> l, right |-> r]
And(operands) == [type |-> "AND", operands |-> operands]
Or(operands) == [type |-> "OR", operands |-> operands]

Operands(e) ==
    CASE e.type = "IMPLICATION" -> <<e.left, e.right>>
      [] e.type \in {"AND", "OR"} -> e.operands
      [] e.type \in {"LITERAL", "PROP"} -> <<>>

\* constraint_evaluator: what a constraint says of a test, a function from
\* parameters to values.
EvalNode(e, t, results) ==
    CASE e.type = "LITERAL"     -> e.value
      [] e.type = "PROP"        -> Holds(e.op, t[e.param], e.value)
      [] e.type = "IMPLICATION" -> results[1] => results[2]
      [] e.type = "AND"         -> \A i \in DOMAIN results : results[i]
      [] e.type = "OR"          -> \E i \in DOMAIN results : results[i]

\* constraint_to_xdd_visitor, for expressions without implications: whether the
\* diagram of a constraint admits an assignment of values from dom, listed in
\* the orders of listing.
AdmitsNode(e, a, dom, listing, results) ==
    IF e.type = "PROP"
    THEN a[e.param] \in Admitted(e.op, e.value, dom[e.param], listing[e.param])
    ELSE EvalNode(e, a, results)

\* parameter_collector_visitor: the parameters of a constraint as they occur.
CollectNode(e, results) ==
    IF e.type = "PROP" THEN <<e.param>> ELSE FlattenSeq(results)

\* implication_resolving_visitor: implications become disjunctions, negations
\* move down to the propositions.
ResolveNode(e, negate, results) ==
    CASE e.type = "LITERAL" -> Literal(e.value # negate)
      [] e.type = "PROP"    -> IF negate THEN [e EXCEPT !.op = NegatedOp[@]] ELSE e
      [] e.type = "AND"     -> IF negate THEN Or(results) ELSE And(results)
      [] e.type \in {"OR", "IMPLICATION"} -> IF negate THEN And(results) ELSE Or(results)

\* The left side of an implication is negated.
Negates(e, i, negate) == negate # (e.type = "IMPLICATION" /\ i = 1)

\* constraint_flattening_visitor: an operand of the same kind as its parent
\* gives way to its own operands.  There are no implications any more.
FlatNode(e, results) ==
    LET Splice(o) == IF o.type = e.type THEN o.operands ELSE <<o>>
    IN IF e.type \in {"AND", "OR"}
       THEN [e EXCEPT !.operands = FlattenSeq([i \in DOMAIN results |-> Splice(results[i])])]
       ELSE e

-------------------------------------------------------------------------------
(* simplification_visitor *)

\* A map from parameters to the values a constraint leaves them.
NoLimits == [p \in {} |-> {}]

Result(e, valid, did) == [expr |-> e, valid |-> valid, did |-> did]

IsLiteral(e, b) == e.type = "LITERAL" /\ e.value = b

SimplifyProp(e, dom) ==
    LET valid == {x \in dom[e.param] : Holds(e.op, x, e.value)}
    IN IF valid = {} THEN Result(Literal(FALSE), NoLimits, TRUE)
       ELSE IF valid = dom[e.param] THEN Result(Literal(TRUE), NoLimits, TRUE)
       ELSE Result(e, [p \in {e.param} |-> valid], FALSE)

\* Limits of a conjunction: those of any operand, values that all admit.
Meet(limits) ==
    [p \in UNION {DOMAIN f : f \in limits} |->
        {x \in Dom[p] : \A f \in limits : p \in DOMAIN f => x \in f[p]}]

\* Mutant of Join: a parameter limited by one operand only stays limited.
JoinAny(limits) ==
    [p \in UNION {DOMAIN f : f \in limits} |->
        UNION {f[p] : f \in {g \in limits : p \in DOMAIN g}}]

\* Limits of a disjunction: those of all operands, values that any admits.
Join(limits) ==
    [p \in {q \in Params : \A f \in limits : q \in DOMAIN f} |->
        UNION {f[p] : f \in limits}]

\* Mutant of NoValueLeft: a parameter without values goes unnoticed.
NoValueMissed(valid) == FALSE

NoValueLeft(valid) == \E p \in DOMAIN valid : valid[p] = {}

\* "this expression only talks about this single parameter, but in effect does
\* not restrict it in any way" (model_simplifier.cpp:704)
OneFullParameter(valid, dom) ==
    \E p \in DOMAIN valid : DOMAIN valid = {p} /\ valid[p] = dom[p]

\* The results that are not literals, in their order.
NonLiterals(results) ==
    FlattenSeq([i \in DOMAIN results |->
        IF results[i].expr.type = "LITERAL" THEN <<>> ELSE <<results[i]>>])

\* A literal equal to the absorbing one ends the loop over the operands, and so
\* does, in a conjunction, a parameter that is left no value.
Combine(e, results, dom) ==
    LET isOr == e.type = "OR"
        kept == NonLiterals(results)
        limits == {kept[i].valid : i \in DOMAIN kept}
        valid == IF isOr THEN Join(limits) ELSE Meet(limits)
        Did(k) == \E j \in 1 .. k : results[j].did
        Absorbs(k) == \/ IsLiteral(results[k].expr, isOr)
                      \/ ~isOr /\ NoValueLeft(Meet({results[j].valid : j \in 1 .. k}))
        Breaks(k) == Absorbs(k) /\ \A j \in 1 .. k - 1 : ~Absorbs(j)
    IN IF \E k \in DOMAIN results : Absorbs(k)
       THEN LET k == CHOOSE k \in DOMAIN results : Breaks(k)
            IN Result(Literal(isOr), NoLimits, Did(k) \/ results[k].expr.type # "LITERAL")
       ELSE IF kept = <<>> THEN Result(Literal(~isOr), NoLimits, TRUE)
       ELSE IF OneFullParameter(valid, dom) THEN Result(Literal(TRUE), NoLimits, TRUE)
       ELSE Result([e EXCEPT !.operands = [i \in DOMAIN kept |-> kept[i].expr]], valid,
                   Did(Len(results)))

SimplifyNode(e, results, dom) ==
    CASE e.type = "LITERAL" -> Result(e, NoLimits, FALSE)
      [] e.type = "PROP"    -> SimplifyProp(e, dom)
      [] e.type \in {"AND", "OR"} -> Combine(e, results, dom)
===============================================================================

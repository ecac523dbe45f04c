---------------------------- MODULE ModelSimplifier ----------------------------
(***************************************************************************)
(* simplify_model, which every job runs on its model before it does        *)
(* anything else: implications are resolved, nested expressions flattened, *)
(* and then, until nothing changes, propositions that cannot fail or hold  *)
(* are replaced by literals, literals are absorbed, and values that no     *)
(* constraint admits are removed from the domains.                         *)
(***************************************************************************)
EXTENDS Constraints

CONSTANTS
    Inputs,              \* the lists of constraints considered
    Exprs,               \* the expressions that may occur
    Plain,               \* those of them without implications
    Depth(_),            \* how deeply an expression is nested
    Eval(_, _),          \* the visitors
    CollectedParams(_),
    Resolve(_, _),
    Flat(_),
    Simplified(_, _)

ASSUME ParamsAssumption ==
    /\ IsFiniteSet(Params) /\ Params = 1 .. Cardinality(Params)
    /\ Dom \in [Params -> SUBSET Int]
    /\ \A p \in Params : IsFiniteSet(Dom[p]) /\ Dom[p] # {}

Naries(S) == [type : {"AND", "OR"}, operands : Seq(S)]

Leaves ==
    [type : {"LITERAL"}, value : BOOLEAN] \cup
    [type : {"PROP"}, param : Params, op : DOMAIN NegatedOp, value : Int]

\* Expressions are trees of finite depth.
ASSUME ExpressionsAssumption ==
    /\ Exprs \subseteq Leaves \cup Naries(Exprs) \cup
                       [type : {"IMPLICATION"}, left : Exprs, right : Exprs]
    /\ Plain \subseteq Exprs \cap (Leaves \cup Naries(Plain))
    /\ {Literal(TRUE), Literal(FALSE)} \subseteq Plain
    /\ Inputs \subseteq Seq(Exprs)
    /\ \A e \in Exprs :
           /\ Depth(e) \in Nat
           /\ \A i \in DOMAIN Operands(e) : Depth(Operands(e)[i]) < Depth(e)

\* Assignments of values from dom to the parameters of S.
AssignmentsOver(S, dom) ==
    {a \in [S -> UNION {dom[p] : p \in S}] : \A p \in S : a[p] \in dom[p]}

TestsOver(dom) == AssignmentsOver(Params, dom)

\* The domains that values may have been removed from.
Domains ==
    {dom \in [Params -> SUBSET UNION {Dom[p] : p \in Params}] :
        \A p \in Params : dom[p] \subseteq Dom[p] /\ dom[p] # {}}

Occurring(c) == ToSet(CollectedParams(c))

\* The visitors do at each expression what module Constraints says.
ASSUME CollectAssumption ==
    \A e \in Exprs :
        CollectedParams(e) =
            CollectNode(e, [i \in DOMAIN Operands(e) |-> CollectedParams(Operands(e)[i])])

ASSUME EvalAssumption ==
    \A e \in Exprs : \A S \in SUBSET Params : Occurring(e) \subseteq S =>
        \A t \in AssignmentsOver(S, Dom) :
            Eval(e, t) = EvalNode(e, t, [i \in DOMAIN Operands(e) |-> Eval(Operands(e)[i], t)])

ASSUME ResolveAssumption ==
    \A e \in Exprs : \A negate \in BOOLEAN :
        /\ Resolve(e, negate) =
               ResolveNode(e, negate,
                   [i \in DOMAIN Operands(e) |->
                       Resolve(Operands(e)[i], Negates(e, i, negate))])
        /\ Resolve(e, negate) \in Plain

ASSUME FlatAssumption ==
    \A e \in Plain :
        /\ Flat(e) = FlatNode(e, [i \in DOMAIN Operands(e) |-> Flat(Operands(e)[i])])
        /\ Flat(e) \in Plain

ASSUME SimplifiedAssumption ==
    \A e \in Plain : \A dom \in Domains :
        /\ Simplified(e, dom) =
               SimplifyNode(e, [i \in DOMAIN Operands(e) |-> Simplified(Operands(e)[i], dom)],
                            dom)
        /\ Simplified(e, dom).expr \in Plain

SatisfiesAll(cs, t) == \A i \in DOMAIN cs : Eval(cs[i], t)

VARIABLES
    input,          \* the constraints of the client's model
    pc,
    constraints,    \* m.get_constraints()
    domain,         \* the values of m.get_parameters()
    pass            \* the locals of one round of the loop

simplifierVars == <<input, pc, constraints, domain, pass>>

FirstPass == [rest |-> <<>>, kept |-> <<>>, valid |-> NoLimits, did |-> FALSE]

SimplifierInit ==
    /\ input \in Inputs
    /\ pc = "resolve"
    /\ constraints = input
    /\ domain = Dom
    /\ pass = FirstPass

-------------------------------------------------------------------------------
(* simplify_model *)

ResolveImplications ==
    /\ pc = "resolve"
    /\ constraints' = [i \in DOMAIN constraints |-> Resolve(constraints[i], FALSE)]
    /\ pc' = "flatten"
    /\ UNCHANGED <<input, domain, pass>>

\* A conjunction at the top gives way to its operands.
FlattenConstraints ==
    /\ pc = "flatten"
    /\ LET Top(e) == IF e.type = "AND" THEN e.operands ELSE <<e>>
       IN constraints' = FlattenSeq([i \in DOMAIN constraints |-> Top(Flat(constraints[i]))])
    /\ pc' = "simplify"
    /\ pass' = [FirstPass EXCEPT !.rest = constraints']
    /\ UNCHANGED <<input, domain>>

\* The next constraint of a round.  A false one, or a parameter that is left no
\* value, ends everything with a single false literal.
SimplifyConstraint ==
    /\ pc = "simplify"
    /\ pass.rest # <<>>
    /\ \E r \in {Simplified(Head(pass.rest), domain)} :
       LET isLiteral == r.expr.type = "LITERAL"
           valid == IF isLiteral THEN pass.valid
                    ELSE Meet({pass.valid, r.valid})
       IN IF IsLiteral(r.expr, FALSE) \/ NoValueLeft(valid)
          THEN /\ constraints' = <<Literal(FALSE)>>
               /\ pc' = "simplified"
               /\ pass' = FirstPass
          ELSE /\ pass' = [rest  |-> Tail(pass.rest),
                           kept  |-> IF isLiteral THEN pass.kept
                                     ELSE Append(pass.kept, r.expr),
                           valid |-> valid,
                           did   |-> pass.did \/ r.did]
               /\ UNCHANGED <<pc, constraints>>
    /\ UNCHANGED <<input, domain>>

Remaining(valid, p) == IF p \in DOMAIN valid THEN domain[p] \cap valid[p] ELSE domain[p]

\* Mutant of NextPass: that something was simplified is not forgotten.
NextPassRemembers == [FirstPass EXCEPT !.rest = pass.kept, !.did = pass.did]

NextPass == [FirstPass EXCEPT !.rest = pass.kept]

\* The end of a round; another follows if it changed anything.
EndPass ==
    /\ pc = "simplify"
    /\ pass.rest = <<>>
    /\ constraints' = pass.kept
    /\ domain' = [p \in Params |-> Remaining(pass.valid, p)]
    /\ IF domain' # domain \/ pass.did
       THEN pass' = NextPass /\ UNCHANGED pc
       ELSE pass' = FirstPass /\ pc' = "simplified"
    /\ UNCHANGED input

Simplify == ResolveImplications \/ FlattenConstraints \/ SimplifyConstraint \/ EndPass

-------------------------------------------------------------------------------
\* The tests the client's model allows.
AllowedTests == {t \in TestsOver(Dom) : SatisfiesAll(input, t)}

\* The tests the model as it is now allows.
TestsNow == {t \in TestsOver(domain) : SatisfiesAll(constraints, t)}

\* No step of the simplifier excludes a test that the client's model allows,
\* neither by a constraint nor by a value removed from a domain.
NoAllowedTestLost == AllowedTests \subseteq TestsNow

\* An expression is taken for a tautology only if it "in effect does not restrict
\* it in any way" (model_simplifier.cpp:704-708): when all is simplified, exactly
\* the tests of the client's model are left.
SimplificationKeepsMeaning == pc = "simplified" => TestsNow = AllowedTests
===============================================================================

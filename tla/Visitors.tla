-------------------------------- MODULE Visitors --------------------------------
(***************************************************************************)
(* The visitors of Constraints, as they walk through all of an expression. *)
(***************************************************************************)
EXTENDS Constraints

RECURSIVE EvalAll(_, _)
EvalAll(e, t) ==
    EvalNode(e, t, [i \in DOMAIN Operands(e) |-> EvalAll(Operands(e)[i], t)])

RECURSIVE AdmitsAll(_, _, _, _)
AdmitsAll(e, a, dom, listing) ==
    AdmitsNode(e, a, dom, listing,
        [i \in DOMAIN Operands(e) |-> AdmitsAll(Operands(e)[i], a, dom, listing)])

RECURSIVE CollectAll(_)
CollectAll(e) ==
    CollectNode(e, [i \in DOMAIN Operands(e) |-> CollectAll(Operands(e)[i])])

RECURSIVE ResolveAll(_, _)
ResolveAll(e, negate) ==
    ResolveNode(e, negate,
        [i \in DOMAIN Operands(e) |-> ResolveAll(Operands(e)[i], Negates(e, i, negate))])

RECURSIVE FlattenAll(_)
FlattenAll(e) == FlatNode(e, [i \in DOMAIN Operands(e) |-> FlattenAll(Operands(e)[i])])

\* The results are bound by a set, so that TLC evaluates them once.
RECURSIVE SimplifyAll(_, _)
SimplifyAll(e, dom) ==
    CHOOSE r \in {SimplifyNode(e, results, dom) :
                      results \in {<<>> \o [i \in DOMAIN Operands(e) |->
                                                SimplifyAll(Operands(e)[i], dom)]}} : TRUE
===============================================================================

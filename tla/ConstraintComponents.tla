-------------------------- MODULE ConstraintComponents --------------------------
(***************************************************************************)
(* The construction of the constraint handler after the simplification of  *)
(* the model, and what it answers.  Parameters that occur together in a    *)
(* constraint belong to one partition; a partition with a constrained      *)
(* parameter gets a component, that is, a decision diagram over its own    *)
(* parameters; each constraint is put into the component of one of its     *)
(* parameters.  A diagram is the set of the assignments it admits.  What   *)
(* it admits depends on the order in which the values of a parameter are   *)
(* listed: the library sorts those of integer parameters before it starts  *)
(* a job, and the simplifier keeps the order when it removes some.         *)
(***************************************************************************)
EXTENDS ModelSimplifier

CONSTANTS
    IntParams,                 \* the integer parameters
    Listings,                  \* the orders in which the client may list the values
    DiagramAdmits(_, _, _, _)  \* the visitor that makes the diagram of a constraint

ASSUME ListingsAssumption ==
    \A l \in Listings : \A p \in Params :
        /\ l[p] \in Seq(Dom[p])
        /\ ToSet(l[p]) = Dom[p]
        /\ \A i, j \in DOMAIN l[p] : i # j => l[p][i] # l[p][j]

\* Values of other parameters are compared for equality only.
ASSUME OrderAssumption ==
    \A e \in Exprs :
        e.type = "PROP" /\ e.op \notin {"EQ", "NEQ"} => e.param \in IntParams

\* The elements of S in increasing order.
Ascending(S) ==
    {s \in [1 .. Cardinality(S) -> S] :
        ToSet(s) = S /\ \A i, j \in DOMAIN s : i < j => s[i] < s[j]}

\* Mutant of SortedValues: the values stay as the client lists them.
AsListed(l) == {l}

\* sort_parameter_values, at each entry of the library: integers ascend.  (The
\* order of true and false, which it fixes too, is one of those given here.)
SortedValues(l) ==
    LET Arranged(p) == IF p \in IntParams THEN Ascending(ToSet(l[p])) ELSE {l[p]}
    IN {m \in [Params -> UNION {Arranged(p) : p \in Params}] :
            \A p \in Params : m[p] \in Arranged(p)}

\* The orders of the values in which a job can find them.
JobListings == UNION {SortedValues(l) : l \in Listings}

ASSUME AdmitsAssumption ==
    \A l \in JobListings : \A e \in Plain : \A S \in SUBSET Params :
        Occurring(e) \subseteq S => \A dom \in Domains : \A a \in AssignmentsOver(S, dom) :
            DiagramAdmits(e, a, dom, l) =
                AdmitsNode(e, a, dom, l,
                    [i \in DOMAIN Operands(e) |-> DiagramAdmits(Operands(e)[i], a, dom, l)])

VARIABLES
    listing,        \* the values of each parameter, in order, before any is removed
    order,          \* variable_order
    visited,        \* parameters that are in a partition or queued for one
    queue,
    part,           \* current_component
    partitions,
    created,        \* partitions that have been looked at for a component
    components,     \* components_: the parameters of each, and its diagram
    componentOf,    \* parameter_to_component_idx_, NoComponent if there is none
    applied         \* constraints put into a component so far

handlerVars == <<listing, order, visited, queue, part, partitions, created,
                 components, componentOf, applied>>

vars == <<simplifierVars, handlerVars>>

NoComponent == 0

Init ==
    /\ SimplifierInit
    /\ listing \in JobListings
    /\ order = <<>>
    /\ visited = {} /\ queue = <<>> /\ part = {} /\ partitions = <<>>
    /\ created = 0 /\ components = <<>>
    /\ componentOf = [p \in Params |-> NoComponent]
    /\ applied = 0

ConstrainedParams == UNION {Occurring(constraints[i]) : i \in DOMAIN constraints}

\* Mutant of Adjacent: only the first two parameters of a constraint are joined.
AdjacentFirstTwo(p) ==
    {q \in Params \ {p} : \E i \in DOMAIN constraints :
        LET ps == CollectedParams(constraints[i])
        IN Len(ps) > 1 /\ {p, q} = {ps[1], ps[2]}}

Adjacent(p) ==
    {q \in Params \ {p} : \E i \in DOMAIN constraints :
        {p, q} \subseteq Occurring(constraints[i])}

\* compute_decreasing_domain_size_mcmf_as_tie_variable_order; parameters with
\* domains of the same size may come in any order.
IsVariableOrder(o) ==
    \A i, j \in DOMAIN o :
        i < j => o[i] # o[j] /\ Cardinality(domain[o[i]]) >= Cardinality(domain[o[j]])

\* create_constraint_handler.  Without constraints, constraint_handler_void
\* answers as a handler without components.
CreateHandler ==
    /\ pc = "simplified"
    /\ order' \in {o \in [1 .. Cardinality(Params) -> Params] : IsVariableOrder(o)}
    /\ pc' = IF constraints = <<>> THEN "ready" ELSE "partition"
    /\ UNCHANGED <<input, constraints, domain, pass, listing, visited, queue, part,
                   partitions, created, components, componentOf, applied>>

\* compute_parameter_partitions: the first parameter in the variable order that
\* is not in a partition starts a new one.
StartPartition ==
    /\ pc = "partition"
    /\ queue = <<>>
    /\ \E i \in DOMAIN order :
           /\ order[i] \notin visited /\ \A j \in 1 .. i - 1 : order[j] \in visited
           /\ queue' = <<order[i]>> /\ visited' = visited \cup {order[i]}
    /\ UNCHANGED <<simplifierVars, listing, order, part, partitions, created,
                   components, componentOf, applied>>

\* Breadth first; the partition is complete when the queue is empty.
VisitParameter ==
    /\ pc = "partition"
    /\ queue # <<>>
    /\ LET new == Adjacent(Head(queue)) \ visited
           found == part \cup {Head(queue)}
       IN /\ \E s \in Ascending(new) : queue' = Tail(queue) \o s
          /\ visited' = visited \cup new
          /\ IF queue' = <<>>
             THEN part' = {} /\ partitions' = Append(partitions, found)
             ELSE part' = found /\ UNCHANGED partitions
    /\ UNCHANGED <<simplifierVars, listing, order, created, components, componentOf,
                   applied>>

AssignmentsOf(params) == AssignmentsOver(params, domain)

\* Step 3 of setup_partitioned_idds, a partition at a time: it gets a component if
\* one of its parameters is constrained.
CreateComponent ==
    /\ pc = "partition"
    /\ queue = <<>> /\ visited = Params
    /\ created < Len(partitions)
    /\ LET members == partitions[created + 1]
           variables == members \cap ConstrainedParams
       IN IF variables = {} THEN UNCHANGED <<components, componentOf>>
          ELSE /\ components' = Append(components, [variables |-> variables,
                                                    idd |-> AssignmentsOf(variables)])
               /\ componentOf' = [p \in Params |->
                      IF p \in members THEN Len(components') ELSE componentOf[p]]
    /\ created' = created + 1
    /\ UNCHANGED <<simplifierVars, listing, order, visited, queue, part, partitions,
                   applied>>

EndComponents ==
    /\ pc = "partition"
    /\ queue = <<>> /\ visited = Params
    /\ created = Len(partitions)
    /\ pc' = "apply"
    /\ UNCHANGED <<input, constraints, domain, pass, handlerVars>>

\* A constraint without parameters belongs to every component, any other one to
\* that of the first parameter that occurs in it.
Targets(c) ==
    IF CollectedParams(c) = <<>> THEN DOMAIN components
    ELSE {componentOf[Head(CollectedParams(c))]}

Intersected(comp, c) ==
    [comp EXCEPT !.idd = {a \in @ : DiagramAdmits(c, a, domain, listing)}]

\* Step 4, a constraint at a time.
ApplyConstraint ==
    /\ pc = "apply"
    /\ applied < Len(constraints)
    /\ LET c == constraints[applied + 1]
       IN components' = [i \in DOMAIN components |->
              IF i \in Targets(c) THEN Intersected(components[i], c) ELSE components[i]]
    /\ applied' = applied + 1
    /\ pc' = IF applied' = Len(constraints) THEN "ready" ELSE pc
    /\ UNCHANGED <<input, constraints, domain, pass, listing, order, visited, queue,
                   part, partitions, created, componentOf>>

SetUp == CreateHandler \/ StartPartition \/ VisitParameter \/ CreateComponent
         \/ EndComponents \/ ApplyConstraint

Terminated == pc = "ready" /\ UNCHANGED vars

Next == \/ Simplify /\ UNCHANGED handlerVars
        \/ SetUp
        \/ Terminated

\* One thread does all of it and waits for nobody but its own tasks.
Spec == Init /\ [][Next]_vars /\ WF_vars(Next)

-------------------------------------------------------------------------------
(* The answers of the handler to a partial test: a value, or DontCare. *)

DontCare == 0

ASSUME DontCareAssumption == \A p \in Params : DontCare \notin Dom[p]

PartialTests == TestsOver([p \in Params |-> domain[p] \cup {DontCare}])

Fills(u, t, params) == \A p \in params : t[p] # DontCare => u[p] = t[p]

\* is_sat_with_partial_assignment
SatWith(comp, t) == \E a \in comp.idd : Fills(a, t, comp.variables)

\* is_valid_partial_test and is_valid_tuple
IsValid(t) == \A i \in DOMAIN components : SatWith(components[i], t)

\* Mutant of ValidValues: the other values of the test are left out of account.
ValidValuesAlone(t, p) ==
    IF componentOf[p] = NoComponent THEN domain[p]
    ELSE {a[p] : a \in components[componentOf[p]].idd}

\* get_valid_parameter_assignments
ValidValues(t, p) ==
    IF componentOf[p] = NoComponent THEN domain[p]
    ELSE IF t[p] # DontCare THEN {t[p]}
    ELSE {v \in domain[p] : SatWith(components[componentOf[p]], [t EXCEPT ![p] = v])}

\* The value with index 0 in the domain that is left.
FirstValue(p) ==
    LET Left(i) == listing[p][i] \in domain[p]
    IN listing[p][CHOOSE i \in DOMAIN listing[p] : Left(i) /\ \A j \in 1 .. i - 1 : ~Left(j)]

\* Mutant of FillsComponent: values of the diagram only if there is one for all.
FillsFirst(u, t, comp) ==
    \A p \in comp.variables :
        IF t[p] # DontCare THEN u[p] = t[p] ELSE \E a \in comp.idd : u[p] = a[p]

\* get_sat_one_under_partial_assignment: one of the assignments the diagram
\* admits, and nothing if there is none.
FillsComponent(u, t, comp) ==
    IF SatWith(comp, t)
    THEN \E a \in comp.idd : Fills(a, t, comp.variables)
                             /\ \A p \in comp.variables : u[p] = a[p]
    ELSE \A p \in comp.variables :
             u[p] = IF t[p] = DontCare THEN FirstValue(p) ELSE t[p]

\* replace_dont_care_values: the tests it may make of t.
Completions(t) ==
    {u \in TestsOver(domain) :
        /\ Fills(u, t, Params)
        /\ \A i \in DOMAIN components : FillsComponent(u, t, components[i])
        /\ \A p \in Params :
               t[p] = DontCare /\ (\A i \in DOMAIN components :
                                       p \notin components[i].variables)
                   => u[p] = FirstValue(p)}

-------------------------------------------------------------------------------
TypeOK ==
    /\ input \in Inputs
    /\ pc \in {"resolve", "flatten", "simplify", "simplified", "partition", "apply",
               "ready"}
    /\ \A p \in Params : domain[p] \subseteq Dom[p] /\ domain[p] # {}
    /\ \A i \in DOMAIN constraints : Occurring(constraints[i]) \subseteq Params
    /\ \A p \in Params : ToSet(listing[p]) = Dom[p]
    /\ visited \subseteq Params /\ ToSet(queue) \subseteq visited /\ part \subseteq visited
    /\ \A i \in DOMAIN components :
           components[i].idd \subseteq AssignmentsOf(components[i].variables)
    /\ \A p \in Params : componentOf[p] \in DOMAIN components \cup {NoComponent}
    /\ applied \in 0 .. Len(constraints)

\* The client's model allows a test.
Consistent == AllowedTests # {}

\* A partial test or a tuple is valid if and only if some test that satisfies all
\* constraints of the client's model has its values.
ValidityExact ==
    pc = "ready" /\ Consistent =>
        LET allowed == AllowedTests
        IN \A t \in PartialTests :
               IsValid(t) <=> \E u \in allowed : Fills(u, t, Params)

\* For a valid test, the handler offers those values of a parameter with which
\* it stays valid, although it looks at the parameter's own component only.
ValidValuesExact ==
    pc = "ready" /\ Consistent =>
        LET allowed == AllowedTests
        IN \A t \in PartialTests : IsValid(t) =>
               LET fitting == {u \in allowed : Fills(u, t, Params)}
               IN \A p \in Params : t[p] = DontCare =>
                      ValidValues(t, p) = {u[p] : u \in fitting}

\* Whatever the components choose independently of each other, the completion of
\* a valid test satisfies all constraints of the client's model.
CompletionsAllowed ==
    pc = "ready" /\ Consistent =>
        LET allowed == AllowedTests
        IN \A t \in PartialTests : IsValid(t) =>
               LET made == Completions(t) IN made # {} /\ made \subseteq allowed

\* Components share no parameter, and all parameters of a constraint are in the
\* one it is put into.
ComponentsIndependent ==
    pc \in {"apply", "ready"} =>
        /\ \A i, j \in DOMAIN components :
               i # j => components[i].variables \cap components[j].variables = {}
        /\ \A k \in DOMAIN constraints : \A i \in Targets(constraints[k]) :
               Occurring(constraints[k]) \subseteq components[i].variables

\* README.md:136, "All generated tests are guaranteed to satisfy all constraints",
\* for a model that may allow no test at all.
GeneratedTestsSatisfyConstraints ==
    pc = "ready" =>
        \A t \in PartialTests : IsValid(t) => Completions(t) \subseteq AllowedTests

\* The construction ends.
SetUpEnds == <>(pc = "ready")
===============================================================================

-------------------------- MODULE CombinatorialModel --------------------------
(***************************************************************************)
(* The input of a covering array job: parameters with finite domains,      *)
(* relations (sets of parameters with an interaction strength), and        *)
(* constraints.  A parameter is named by its position in the parameter     *)
(* index map of the job (create_parameter_index_map), the order in which   *)
(* IPOG adds parameters; the parameters of no relation come last.  A       *)
(* relation lists its parameters in that order (sort_parameters).          *)
(*                                                                         *)
(* Constraints are kept as what they mean: the set of complete tests they  *)
(* allow.                                                                  *)
(***************************************************************************)
EXTENDS Integers, Sequences, FiniteSets, FiniteSetsExt

CONSTANTS
    NumValues,       \* NumValues[p] is the size of the domain of parameter p
    Relations,       \* sequence of [params : Seq(Params), strength : Nat \ {0}]
    ConstraintSets,  \* the sets of allowed tests to consider
    SeedSets         \* the test sets the job may be given to extend

Params == DOMAIN NumValues

Dom(p) == 0 .. (NumValues[p] - 1)

AllValues == UNION {Dom(p) : p \in Params}

\* A position of a test without a value (any negative value in the code).
DontCare == -1

Rels == DOMAIN Relations

RelLen(r) == Len(Relations[r].params)

RelParams(r) == {Relations[r].params[i] : i \in 1 .. RelLen(r)}

UsedParams == UNION {RelParams(r) : r \in Rels}

\* The length of the parameter index map.
NumUsed == Cardinality(UsedParams)

\* Assignments of a value to every parameter of S.
TuplesOf(S) == {u \in [S -> AllValues] : \A p \in S : u[p] \in Dom(p)}

Tuples == UNION {TuplesOf(S) : S \in SUBSET Params}

FullTests == TuplesOf(Params)

PartialTests ==
    {t \in [Params -> AllValues \cup {DontCare}] :
        \A p \in Params : t[p] \in Dom(p) \cup {DontCare}}

Unassigned == [p \in Params |-> DontCare]

Covers(t, u) == \A p \in DOMAIN u : t[p] = u[p]

\* u can be written into t without changing a value t already has.
Fits(t, u) == \A p \in DOMAIN u : t[p] = u[p] \/ t[p] = DontCare

Inject(t, u) == [p \in Params |-> IF p \in DOMAIN u THEN u[p] ELSE t[p]]

\* A list without its k-th element.
RemoveAtPos(list, k) ==
    [j \in 1 .. (Len(list) - 1) |-> IF j < k THEN list[j] ELSE list[j + 1]]

Assign(t, p, v) == [t EXCEPT ![p] = v]

\* Some allowed test has all the values of t.
Extendable(allowed, t) == \E a \in allowed : Fits(t, a)

TupleAllowed(allowed, u) == \E a \in allowed : Covers(a, u)

\* The constraints restrict the values of p, given those of the others.
Constrained(allowed, p) ==
    \E a \in allowed : \E v \in Dom(p) : Assign(a, p, v) \notin allowed

\* The r-tagged tuples a covering array of the model has to cover.
TargetTuples ==
    UNION {{<<r, u>> : u \in UNION {TuplesOf(S) :
               S \in kSubset(Relations[r].strength, RelParams(r))}} : r \in Rels}

IsCoveringArray(allowed, s) ==
    \A ru \in TargetTuples :
        TupleAllowed(allowed, ru[2]) =>
            \E i \in DOMAIN s : Covers(s[i], ru[2])

ASSUME ModelAssumption ==
    /\ NumValues \in Seq(Nat \ {0})
    /\ Relations \in Seq([params : Seq(Params), strength : Nat \ {0}])
    /\ \A r \in Rels :
          /\ RelLen(r) >= 1
          /\ \A i, j \in 1 .. RelLen(r) :
                i < j => Relations[r].params[i] < Relations[r].params[j]
    /\ UsedParams = 1 .. NumUsed
    /\ NumUsed \in 0 .. Len(NumValues)

ASSUME InputAssumption ==
    /\ ConstraintSets \subseteq SUBSET FullTests
    /\ {} \notin ConstraintSets
    /\ SeedSets \subseteq Seq(PartialTests)
===============================================================================

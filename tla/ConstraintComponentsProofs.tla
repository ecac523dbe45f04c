----------------------- MODULE ConstraintComponentsProofs -----------------------
(***************************************************************************)
(* For every model and all constraints over it: the simplifier excludes no *)
(* test that the client's model allows, the components of the constraint   *)
(* handler are independent, and if the simplifier keeps the meaning of the *)
(* constraints, the handler's answers are those of their conjunction.      *)
(***************************************************************************)
EXTENDS ConstraintComponents, FiniteSetTheorems, SequenceTheorems, TLAPS

-------------------------------------------------------------------------------
(* Least elements *)

LEMMA LeastNumber ==
    ASSUME NEW B \in SUBSET Nat, B # {}
    PROVE  \E n \in B : \A m \in B : n <= m
<1>1. PICK n \in B : \A m \in B : ~ (<<m, n>> \in OpToRel(<, Nat))
  BY NatLessThanWellFounded, WFMin
<1>2. ASSUME NEW m \in B PROVE n <= m
  <2>1. m \in Nat /\ n \in Nat
    OBVIOUS
  <2>2. ~ (m < n)
    BY <1>1, <2>1 DEF OpToRel
  <2> QED
    BY ONLY <2>1, <2>2, SMT
<1> QED
  BY <1>2

-------------------------------------------------------------------------------
(* Concatenation *)

LEMMA ConcatElements ==
    ASSUME NEW S, NEW s \in Seq(S), NEW t \in Seq(S)
    PROVE  \A x : x \in ToSet(s \o t) <=> x \in ToSet(s) \/ x \in ToSet(t)
<1> DEFINE c == s \o t
<1>1. /\ Len(s) \in Nat /\ Len(t) \in Nat /\ DOMAIN s = 1 .. Len(s) /\ DOMAIN t = 1 .. Len(t)
      /\ c \in Seq(S) /\ Len(c) = Len(s) + Len(t)
      /\ \A i \in 1 .. Len(s) + Len(t) : c[i] = IF i <= Len(s) THEN s[i] ELSE t[i - Len(s)]
  BY LenProperties, ConcatProperties
<1>2. DOMAIN c = 1 .. Len(s) + Len(t)
  BY <1>1, LenProperties
<1> HIDE DEF c
<1>3. \A i \in DOMAIN s : i \in DOMAIN c /\ c[i] = s[i]
  BY <1>1, <1>2
<1>4. \A i \in DOMAIN t : i + Len(s) \in DOMAIN c /\ c[i + Len(s)] = t[i]
  BY <1>1, <1>2
<1>5. \A i \in DOMAIN c : \/ i \in DOMAIN s /\ c[i] = s[i]
                          \/ i - Len(s) \in DOMAIN t /\ c[i] = t[i - Len(s)]
  BY <1>1, <1>2
<1>6. ASSUME NEW x \in ToSet(c)
      PROVE  x \in ToSet(s) \/ x \in ToSet(t)
  <2>1. PICK i \in DOMAIN c : x = c[i]
    BY <1>6, Zenon DEF ToSet
  <2> QED
    BY <1>5, <2>1, Zenon DEF ToSet
<1>7. ASSUME NEW x \in ToSet(s)
      PROVE  x \in ToSet(c)
  <2>1. PICK i \in DOMAIN s : x = s[i]
    BY <1>7, Zenon DEF ToSet
  <2> QED
    BY <1>3, <2>1, Zenon DEF ToSet
<1>8. ASSUME NEW x \in ToSet(t)
      PROVE  x \in ToSet(c)
  <2>1. PICK i \in DOMAIN t : x = t[i]
    BY <1>8, Zenon DEF ToSet
  <2> QED
    BY <1>4, <2>1, Zenon DEF ToSet
<1> QED
  BY <1>6, <1>7, <1>8 DEF c

\* How FlattenSeq goes through its argument.
IsFlattening(f, ss) ==
    f = [i \in 1 .. Len(ss) |-> IF i = 1 THEN ss[i] ELSE f[i - 1] \o ss[i]]

\* f is that up to position n.
FlattensTo(f, ss, n, S) ==
    /\ f \in [1 .. n -> S]
    /\ \A i \in 1 .. n : f[i] = IF i = 1 THEN ss[i] ELSE f[i - 1] \o ss[i]

LEMMA FlattensFurther ==
    ASSUME NEW S, NEW ss \in Seq(Seq(S)), NEW n \in 1 .. Len(ss),
           NEW f, FlattensTo(f, ss, n - 1, Seq(S))
    PROVE  \E g : FlattensTo(g, ss, n, Seq(S))
<1> DEFINE last == IF n = 1 THEN ss[n] ELSE f[n - 1] \o ss[n]
           g == [i \in 1 .. n |-> IF i = n THEN last ELSE f[i]]
<1>1. n \in Nat /\ n > 0
  BY LenProperties
<1>2. last \in Seq(S)
  <2>1. ss[n] \in Seq(S)
    BY ElementOfSeq
  <2>2. CASE n = 1
    BY <2>1, <2>2
  <2>3. CASE n # 1
    <3>1. n - 1 \in 1 .. n - 1
      BY <1>1, <2>3
    <3>2. f[n - 1] \in Seq(S)
      BY <3>1 DEF FlattensTo
    <3> QED
      BY <2>1, <2>3, <3>2, ConcatProperties
  <2> QED
    BY <2>2, <2>3
<1>3. \A i \in 1 .. n : i # n => i \in 1 .. n - 1
  BY <1>1
<1>4. ASSUME NEW i \in 1 .. n
      PROVE  g[i] \in Seq(S) /\ g[i] = IF i = 1 THEN ss[i] ELSE g[i - 1] \o ss[i]
  <2>1. i - 1 # n /\ (i # 1 => i - 1 \in 1 .. n)
    BY <1>1
  <2>2. i # 1 => g[i - 1] = f[i - 1]
    BY <2>1
  <2>3. CASE i = n
    BY <1>2, <2>2, <2>3
  <2>4. CASE i # n
    <3>1. i \in 1 .. n - 1 /\ g[i] = f[i]
      BY <1>3, <2>4
    <3>2. f[i] \in Seq(S) /\ f[i] = IF i = 1 THEN ss[i] ELSE f[i - 1] \o ss[i]
      BY <3>1 DEF FlattensTo
    <3> QED
      BY <2>2, <3>1, <3>2
  <2> QED
    BY <2>3, <2>4
<1>5. g \in [1 .. n -> Seq(S)]
  BY <1>4
<1> HIDE DEF g
<1>6. FlattensTo(g, ss, n, Seq(S))
  BY <1>4, <1>5 DEF FlattensTo
<1> QED
  BY <1>6

LEMMA FlatteningExists ==
    ASSUME NEW S, NEW ss \in Seq(Seq(S))
    PROVE  \E f : IsFlattening(f, ss)
<1> DEFINE B == {n \in Nat : n <= Len(ss) /\ ~ \E f : FlattensTo(f, ss, n, Seq(S))}
<1>1. Len(ss) \in Nat
  BY LenProperties
<1>2. ASSUME B # {} PROVE FALSE
  <2>1. PICK n \in B : \A m \in B : n <= m
    <3>1. B \in SUBSET Nat
      OBVIOUS
    <3> HIDE DEF B
    <3> QED
      BY <1>2, <3>1, LeastNumber
  <2>2. n \in Nat /\ n <= Len(ss) /\ ~ \E f : FlattensTo(f, ss, n, Seq(S))
    OBVIOUS
  <2>3. FlattensTo([i \in 1 .. 0 |-> <<>>], ss, 0, Seq(S))
    BY DEF FlattensTo
  <2>4. n # 0
    BY <2>2, <2>3
  <2>5. n - 1 \in Nat /\ n - 1 <= Len(ss) /\ ~ (n <= n - 1) /\ n \in 1 .. Len(ss)
    BY <1>1, <2>2, <2>4
  <2>6. n - 1 \notin B
    BY <2>1, <2>5
  <2>7. PICK f : FlattensTo(f, ss, n - 1, Seq(S))
    BY <2>5, <2>6
  <2> HIDE DEF B
  <2> QED
    BY <2>2, <2>5, <2>7, FlattensFurther
<1>3. PICK f : FlattensTo(f, ss, Len(ss), Seq(S))
  BY <1>1, <1>2
<1>4. IsFlattening(f, ss)
  BY <1>3 DEF IsFlattening, FlattensTo
<1> QED
  BY <1>4

\* What f has at position i is made of the first i parts.
ElementsUpTo(f, ss, i) ==
    \A x : x \in ToSet(f[i]) <=> \E j \in 1 .. i : x \in ToSet(ss[j])

LEMMA FlattenedUpTo ==
    ASSUME NEW S, NEW ss \in Seq(Seq(S)), NEW f, IsFlattening(f, ss)
    PROVE  \A i \in 1 .. Len(ss) : f[i] \in Seq(S) /\ ElementsUpTo(f, ss, i)
<1> DEFINE Bad(i) == ~ (f[i] \in Seq(S) /\ ElementsUpTo(f, ss, i))
           B == {i \in 1 .. Len(ss) : Bad(i)}
<1>1. Len(ss) \in Nat
  BY LenProperties
<1>2. \A i \in 1 .. Len(ss) : f[i] = IF i = 1 THEN ss[i] ELSE f[i - 1] \o ss[i]
  BY DEF IsFlattening
<1>3. SUFFICES ASSUME B # {} PROVE FALSE
  OBVIOUS
<1>4. PICK n \in B : \A m \in B : n <= m
  <2>1. B \in SUBSET Nat
    BY <1>1
  <2> HIDE DEF B
  <2> QED
    BY <1>3, <2>1, LeastNumber
<1>5. n \in 1 .. Len(ss) /\ Bad(n)
  OBVIOUS
<1>6. n \in Nat /\ n > 0 /\ ss[n] \in Seq(S)
  BY <1>1, <1>5, ElementOfSeq
<1>7. CASE n = 1
  <2>1. f[1] = ss[1]
    BY <1>2, <1>5, <1>7
  <2>2. \A j : j \in 1 .. 1 <=> j = 1
    OBVIOUS
  <2>3. ElementsUpTo(f, ss, 1)
    BY <2>1, <2>2 DEF ElementsUpTo
  <2> QED
    BY <1>5, <1>6, <1>7, <2>1, <2>3
<1>8. CASE n # 1
  <2>1. n - 1 \in 1 .. Len(ss) /\ ~ (n <= n - 1)
    BY <1>1, <1>5, <1>6, <1>8
  <2>2. n - 1 \notin B
    BY <1>4, <2>1
  <2>3. f[n - 1] \in Seq(S) /\ ElementsUpTo(f, ss, n - 1)
    BY <2>1, <2>2
  <2>4. f[n] = f[n - 1] \o ss[n]
    BY <1>2, <1>5, <1>8
  <2>5. f[n] \in Seq(S)
    BY <1>6, <2>3, <2>4, ConcatProperties
  <2>6. \A x : x \in ToSet(f[n]) <=> x \in ToSet(f[n - 1]) \/ x \in ToSet(ss[n])
    BY <1>6, <2>3, <2>4, ConcatElements
  <2>7. \A j : j \in 1 .. n <=> j \in 1 .. n - 1 \/ j = n
    BY <1>6
  <2>8. ElementsUpTo(f, ss, n)
    BY <2>3, <2>6, <2>7, Zenon DEF ElementsUpTo
  <2> QED
    BY <1>5, <2>5, <2>8
<1> QED
  BY <1>7, <1>8

\* The elements of a concatenation are those of its parts.
LEMMA Flattened ==
    ASSUME NEW S, NEW ss \in Seq(Seq(S))
    PROVE  /\ FlattenSeq(ss) \in Seq(S)
           /\ \A x : x \in ToSet(FlattenSeq(ss)) <=> \E i \in DOMAIN ss : x \in ToSet(ss[i])
<1>1. Len(ss) \in Nat /\ DOMAIN ss = 1 .. Len(ss)
  BY LenProperties
<1>2. CASE Len(ss) = 0
  <2>1. ss = <<>>
    BY <1>2, EmptySeq
  <2>2. FlattenSeq(ss) = <<>>
    BY <1>2, <2>1 DEF FlattenSeq
  <2>3. DOMAIN ss = {} /\ FlattenSeq(ss) \in Seq(S)
    BY <1>1, <1>2, <2>2
  <2>4. ToSet(FlattenSeq(ss)) = {}
    BY <2>1, <2>2, <2>3, Zenon DEF ToSet
  <2> QED
    BY <2>3, <2>4, Zenon
<1>3. CASE Len(ss) # 0
  <2> DEFINE f == CHOOSE f : IsFlattening(f, ss)
  <2>1. IsFlattening(f, ss)
    BY FlatteningExists
  <2>2. FlattenSeq(ss) = f[Len(ss)]
    BY <1>3 DEF FlattenSeq, IsFlattening
  <2> HIDE DEF f
  <2>3. Len(ss) \in 1 .. Len(ss)
    BY <1>1, <1>3
  <2>4. f[Len(ss)] \in Seq(S) /\ ElementsUpTo(f, ss, Len(ss))
    BY <2>1, <2>3, FlattenedUpTo
  <2> QED
    BY <1>1, <2>2, <2>4 DEF ElementsUpTo
<1> QED
  BY <1>2, <1>3
-------------------------------------------------------------------------------
(* Expressions *)

\* What kinds of expressions there are, over the expressions S.
Kinds(e, S) ==
    \/ /\ e.type = "LITERAL" /\ e.value \in BOOLEAN
    \/ /\ e.type = "PROP" /\ e.param \in Params /\ e.op \in DOMAIN NegatedOp /\ e.value \in Int
       /\ e = [type |-> "PROP", param |-> e.param, op |-> e.op, value |-> e.value]
    \/ /\ e.type \in {"AND", "OR"} /\ e.operands \in Seq(S)
       /\ e = [type |-> e.type, operands |-> e.operands]
    \/ /\ e.type = "IMPLICATION" /\ e.left \in S /\ e.right \in S

LEMMA ExprKinds == \A e \in Exprs : Kinds(e, Exprs)
<1> TAKE e \in Exprs
<1>1. CASE e \in [type : {"LITERAL"}, value : BOOLEAN]
  BY <1>1 DEF Kinds
<1>2. CASE e \in [type : {"PROP"}, param : Params, op : DOMAIN NegatedOp, value : Int]
  BY <1>2 DEF Kinds
<1>3. CASE e \in Naries(Exprs)
  BY <1>3 DEF Kinds, Naries
<1>4. CASE e \in [type : {"IMPLICATION"}, left : Exprs, right : Exprs]
  BY <1>4 DEF Kinds
<1> QED
  BY <1>1, <1>2, <1>3, <1>4, ExpressionsAssumption, Zenon DEF Leaves

LEMMA PlainKinds == \A e \in Plain : Kinds(e, Plain) /\ e.type # "IMPLICATION"
<1> TAKE e \in Plain
<1>1. CASE e \in [type : {"LITERAL"}, value : BOOLEAN]
  BY <1>1 DEF Kinds
<1>2. CASE e \in [type : {"PROP"}, param : Params, op : DOMAIN NegatedOp, value : Int]
  BY <1>2 DEF Kinds
<1>3. CASE e \in Naries(Plain)
  BY <1>3 DEF Kinds, Naries
<1> QED
  BY <1>1, <1>2, <1>3, ExpressionsAssumption, Zenon DEF Leaves

LEMMA PlainExprs == Plain \subseteq Exprs /\ Literal(TRUE) \in Plain /\ Literal(FALSE) \in Plain
BY ExpressionsAssumption

\* The operands of the kinds.
LEMMA OperandsOf ==
    ASSUME NEW S, NEW e, Kinds(e, S)
    PROVE  /\ Operands(e) \in Seq(S)
           /\ e.type \in {"LITERAL", "PROP"} => Operands(e) = <<>>
           /\ e.type \in {"AND", "OR"} => Operands(e) = e.operands
           /\ e.type = "IMPLICATION" => Operands(e) = <<e.left, e.right>>
<1>1. CASE e.type = "LITERAL"
  BY <1>1 DEF Operands
<1>2. CASE e.type = "PROP"
  BY <1>2 DEF Operands
<1>3. CASE e.type \in {"AND", "OR"}
  BY <1>3 DEF Operands, Kinds
<1>4. CASE e.type = "IMPLICATION"
  BY <1>4 DEF Operands, Kinds
<1> QED
  BY <1>1, <1>2, <1>3, <1>4 DEF Kinds

LEMMA ExprOperands ==
    /\ \A e \in Exprs : /\ Operands(e) \in Seq(Exprs)
                        /\ \A i \in DOMAIN Operands(e) : Operands(e)[i] \in Exprs
    /\ \A e \in Plain : /\ Operands(e) \in Seq(Plain)
                        /\ \A i \in DOMAIN Operands(e) : Operands(e)[i] \in Plain
<1>1. ASSUME NEW S, NEW s \in Seq(S)
      PROVE  \A i \in DOMAIN s : s[i] \in S
  BY ElementOfSeq, LenProperties
<1> QED
  BY <1>1, ExprKinds, PlainKinds, OperandsOf

\* What holds of an expression whenever it holds of its operands holds of all.
LEMMA StructuralInduction ==
    ASSUME NEW S,
           \A e \in Exprs : (\A i \in DOMAIN Operands(e) : Operands(e)[i] \in S) => e \in S
    PROVE  Exprs \subseteq S
<1> DEFINE B == {Depth(e) : e \in Exprs \ S}
<1>1. SUFFICES ASSUME NEW e0 \in Exprs \ S
               PROVE  FALSE
  OBVIOUS
<1>2. B \in SUBSET Nat /\ B # {}
  BY ExpressionsAssumption
<1>3. PICK n \in B : \A m \in B : n <= m
  <2> HIDE DEF B
  <2> QED
    BY <1>2, LeastNumber
<1>4. PICK e \in Exprs \ S : n = Depth(e)
  BY <1>3
<1>5. ASSUME NEW i \in DOMAIN Operands(e)
      PROVE  Operands(e)[i] \in S
  <2>1. Operands(e)[i] \in Exprs
    BY ExprOperands
  <2>2. Depth(Operands(e)[i]) \in Nat /\ Depth(e) \in Nat /\ Depth(Operands(e)[i]) < Depth(e)
    BY <2>1, ExpressionsAssumption
  <2>3. ~ (Depth(e) <= Depth(Operands(e)[i]))
    BY ONLY <2>2, SMT
  <2> QED
    BY <1>3, <1>4, <2>1, <2>3
<1> QED
  BY <1>5

LEMMA PlainInduction ==
    ASSUME NEW S,
           \A e \in Plain : (\A i \in DOMAIN Operands(e) : Operands(e)[i] \in S) => e \in S
    PROVE  Plain \subseteq S
<1> DEFINE T == {e \in Exprs : e \in Plain => e \in S}
<1>1. ASSUME NEW e \in Exprs, \A i \in DOMAIN Operands(e) : Operands(e)[i] \in T
      PROVE  e \in T
  BY <1>1, ExprOperands
<1>2. Exprs \subseteq T
  <2> HIDE DEF T
  <2> QED
    BY <1>1, StructuralInduction
<1> QED
  BY <1>2, PlainExprs
-------------------------------------------------------------------------------
(* What the visitors make of an expression *)

\* The results for the elements of a sequence form a sequence.
LEMMA ResultSeq ==
    ASSUME NEW T, NEW s \in Seq(T), NEW S, NEW f \in [DOMAIN s -> S]
    PROVE  f \in Seq(S) /\ DOMAIN f = DOMAIN s /\ Len(f) = Len(s)
BY LenProperties, IsASeq

\* The parameters of an expression are those of its operands.
LEMMA Collected ==
    \A e \in Exprs :
        /\ CollectedParams(e) \in Seq(Params)
        /\ e.type = "PROP" => Occurring(e) = {e.param}
        /\ \A i \in DOMAIN Operands(e) : Occurring(Operands(e)[i]) \subseteq Occurring(e)
<1> DEFINE T == {e \in Exprs : CollectedParams(e) \in Seq(Params)}
<1>1. ASSUME NEW e \in Exprs, \A i \in DOMAIN Operands(e) : Operands(e)[i] \in T
      PROVE  /\ CollectedParams(e) \in Seq(Params)
             /\ e.type = "PROP" => Occurring(e) = {e.param}
             /\ \A i \in DOMAIN Operands(e) : Occurring(Operands(e)[i]) \subseteq Occurring(e)
  <2> DEFINE results == [i \in DOMAIN Operands(e) |-> CollectedParams(Operands(e)[i])]
  <2>1. CollectedParams(e) = CollectNode(e, results)
    BY CollectAssumption
  <2>2. Kinds(e, Exprs) /\ Operands(e) \in Seq(Exprs)
    BY ExprKinds, ExprOperands
  <2>3. results \in [DOMAIN Operands(e) -> Seq(Params)]
    BY <1>1
  <2> HIDE DEF results
  <2>4. CASE e.type = "PROP"
    <3>1. CollectedParams(e) = <<e.param>> /\ e.param \in Params /\ Operands(e) = <<>>
      BY <2>1, <2>2, <2>4, OperandsOf DEF CollectNode, Kinds
    <3>2. Occurring(e) = {e.param}
      BY <3>1 DEF Occurring, ToSet
    <3> QED
      BY <3>1, <3>2
  <2>5. CASE e.type # "PROP"
    <3>1. CollectedParams(e) = FlattenSeq(results)
      BY <2>1, <2>5 DEF CollectNode
    <3>2. results \in Seq(Seq(Params)) /\ DOMAIN results = DOMAIN Operands(e)
      BY <2>2, <2>3, ResultSeq
    <3>3. /\ FlattenSeq(results) \in Seq(Params)
          /\ \A x : x \in ToSet(FlattenSeq(results)) <=>
                        \E i \in DOMAIN results : x \in ToSet(results[i])
      BY <3>2, Flattened
    <3>4. \A i \in DOMAIN results : results[i] = CollectedParams(Operands(e)[i])
      BY <3>2 DEF results
    <3> QED
      BY <2>5, <3>1, <3>2, <3>3, <3>4, Zenon DEF Occurring
  <2> QED
    BY <2>4, <2>5
<1>2. Exprs \subseteq T
  <2>1. \A e \in Exprs : (\A i \in DOMAIN Operands(e) : Operands(e)[i] \in T) => e \in T
    BY <1>1
  <2> HIDE DEF T
  <2> QED
    BY <2>1, StructuralInduction
<1>3. ASSUME NEW e \in Exprs
      PROVE  \A i \in DOMAIN Operands(e) : Operands(e)[i] \in T
  BY <1>2, ExprOperands
<1> QED
  BY <1>1, <1>3

LEMMA OccurringParams == \A e \in Exprs : Occurring(e) \subseteq Params
<1> TAKE e \in Exprs
<1>1. CollectedParams(e) \in Seq(Params)
  BY Collected
<1>2. \A i \in DOMAIN CollectedParams(e) : CollectedParams(e)[i] \in Params
  BY <1>1, LenProperties, ElementOfSeq
<1> QED
  BY <1>2, Zenon DEF Occurring, ToSet

LEMMA Negation ==
    ASSUME NEW op \in DOMAIN NegatedOp, NEW x \in Int, NEW v \in Int
    PROVE  /\ Holds(op, x, v) \in BOOLEAN
           /\ NegatedOp[op] \in DOMAIN NegatedOp
           /\ Holds(NegatedOp[op], x, v) = ~ Holds(op, x, v)
<1>1. op \in {"EQ", "NEQ", "LT", "LE", "GE", "GT"}
  BY DEF NegatedOp
<1>2. CASE op = "EQ"
  BY <1>2 DEF Holds, NegatedOp
<1>3. CASE op = "NEQ"
  BY <1>3 DEF Holds, NegatedOp
<1>4. CASE op = "LT"
  BY <1>4 DEF Holds, NegatedOp
<1>5. CASE op = "LE"
  BY <1>5 DEF Holds, NegatedOp
<1>6. CASE op = "GE"
  BY <1>6 DEF Holds, NegatedOp
<1>7. CASE op = "GT"
  BY <1>7 DEF Holds, NegatedOp
<1> QED
  BY <1>1, <1>2, <1>3, <1>4, <1>5, <1>6, <1>7

LEMMA AssignedValues ==
    ASSUME NEW S, NEW dom, NEW a \in AssignmentsOver(S, dom)
    PROVE  DOMAIN a = S /\ \A p \in S : a[p] \in dom[p]
BY DEF AssignmentsOver

LEMMA ParamValues ==
    ASSUME NEW S \in SUBSET Params, NEW a \in AssignmentsOver(S, Dom), NEW p \in S
    PROVE  a[p] \in Int
<1>1. a[p] \in Dom[p]
  BY AssignedValues
<1>2. Dom[p] \subseteq Int
  BY ParamsAssumption
<1> QED
  BY <1>1, <1>2
\* t is an assignment to parameters that include those of e.
Covers(t, e) ==
    \E S \in SUBSET Params : Occurring(e) \subseteq S /\ t \in AssignmentsOver(S, Dom)

LEMMA CoversOperands ==
    ASSUME NEW e \in Exprs, NEW t, Covers(t, e), NEW i \in DOMAIN Operands(e)
    PROVE  Covers(t, Operands(e)[i])
<1>1. Occurring(Operands(e)[i]) \subseteq Occurring(e)
  BY Collected
<1> QED
  BY <1>1, Zenon DEF Covers

\* What the evaluation says of each kind of expression.
LEMMA EvalKinds ==
    ASSUME NEW e \in Exprs, NEW t, Covers(t, e)
    PROVE  /\ e.type = "LITERAL" => Eval(e, t) = e.value
           /\ e.type = "PROP" => Eval(e, t) = Holds(e.op, t[e.param], e.value)
           /\ e.type = "IMPLICATION" => Eval(e, t) = (Eval(e.left, t) => Eval(e.right, t))
           /\ e.type = "AND" =>
                  Eval(e, t) = \A i \in DOMAIN Operands(e) : Eval(Operands(e)[i], t)
           /\ e.type = "OR" =>
                  Eval(e, t) = \E i \in DOMAIN Operands(e) : Eval(Operands(e)[i], t)
<1> DEFINE results == [i \in DOMAIN Operands(e) |-> Eval(Operands(e)[i], t)]
<1>1. Eval(e, t) = EvalNode(e, t, results)
  BY EvalAssumption, Zenon DEF Covers
<1>2. DOMAIN results = DOMAIN Operands(e)
      /\ \A i \in DOMAIN Operands(e) : results[i] = Eval(Operands(e)[i], t)
  OBVIOUS
<1>3. Kinds(e, Exprs)
  BY ExprKinds
<1> HIDE DEF results
<1>4. CASE e.type = "LITERAL"
  BY <1>1, <1>4 DEF EvalNode
<1>5. CASE e.type = "PROP"
  BY <1>1, <1>5 DEF EvalNode
<1>6. CASE e.type = "IMPLICATION"
  <2>1. Operands(e) = <<e.left, e.right>>
    BY <1>3, <1>6, OperandsOf
  <2>2. results[1] = Eval(e.left, t) /\ results[2] = Eval(e.right, t)
    BY <1>2, <2>1
  <2>3. Eval(e, t) = (results[1] => results[2])
    BY <1>1, <1>6 DEF EvalNode
  <2> QED
    BY <1>6, <2>2, <2>3, Zenon
<1>7. CASE e.type = "AND"
  <2>1. Eval(e, t) = \A i \in DOMAIN results : results[i]
    BY <1>1, <1>7 DEF EvalNode
  <2>2. (\A i \in DOMAIN results : results[i]) =
        \A i \in DOMAIN Operands(e) : Eval(Operands(e)[i], t)
    BY <1>2, Zenon
  <2> QED
    BY <1>7, <2>1, <2>2, Zenon
<1>8. CASE e.type = "OR"
  <2>1. Eval(e, t) = \E i \in DOMAIN results : results[i]
    BY <1>1, <1>8 DEF EvalNode
  <2>2. (\E i \in DOMAIN results : results[i]) =
        \E i \in DOMAIN Operands(e) : Eval(Operands(e)[i], t)
    BY <1>2, Zenon
  <2> QED
    BY <1>8, <2>1, <2>2, Zenon
<1> QED
  BY <1>3, <1>4, <1>5, <1>6, <1>7, <1>8 DEF Kinds

\* A constraint is true or false, and only its own parameters matter.
LEMMA EvalLocal ==
    \A e \in Exprs : \A t, u :
        Covers(t, e) /\ Covers(u, e) /\ (\A p \in Occurring(e) : t[p] = u[p]) =>
            Eval(e, t) \in BOOLEAN /\ Eval(e, t) = Eval(e, u)
<1> DEFINE Same(e, t, u) ==
               Covers(t, e) /\ Covers(u, e) /\ (\A p \in Occurring(e) : t[p] = u[p])
           Equal(e, t, u) == Eval(e, t) \in BOOLEAN /\ Eval(e, t) = Eval(e, u)
           T == {e \in Exprs : \A t, u : Same(e, t, u) => Equal(e, t, u)}
<1>1. ASSUME NEW e \in Exprs, \A i \in DOMAIN Operands(e) : Operands(e)[i] \in T
      PROVE  e \in T
  <2>1. SUFFICES ASSUME NEW t, NEW u, Same(e, t, u)
                 PROVE  Equal(e, t, u)
    OBVIOUS
  <2>2. ASSUME NEW i \in DOMAIN Operands(e)
        PROVE  Equal(Operands(e)[i], t, u)
    <3>1. Covers(t, Operands(e)[i]) /\ Covers(u, Operands(e)[i])
      BY <2>1, CoversOperands
    <3>2. Occurring(Operands(e)[i]) \subseteq Occurring(e)
      BY Collected
    <3>3. Same(Operands(e)[i], t, u)
      BY <2>1, <3>1, <3>2, Zenon
    <3> HIDE DEF Same, Equal
    <3> QED
      BY <1>1, <3>3
  <2>3. Covers(t, e) /\ Covers(u, e) /\ Kinds(e, Exprs)
    BY <2>1, ExprKinds
  <2>4. CASE e.type = "LITERAL"
    <3>1. e.value \in BOOLEAN
      BY <2>3, <2>4 DEF Kinds
    <3>2. Eval(e, t) = e.value /\ Eval(e, u) = e.value
      BY <2>3, <2>4, EvalKinds
    <3> QED
      BY <3>1, <3>2, Zenon
  <2>5. CASE e.type = "PROP"
    <3>1. Occurring(e) = {e.param} /\ e.op \in DOMAIN NegatedOp /\ e.value \in Int
      BY <2>3, <2>5, Collected DEF Kinds
    <3>2. t[e.param] = u[e.param]
      BY <2>1, <3>1
    <3>3. PICK S \in SUBSET Params : Occurring(e) \subseteq S /\ t \in AssignmentsOver(S, Dom)
      BY <2>3, Zenon DEF Covers
    <3>4. t[e.param] \in Int
      BY <3>1, <3>3, ParamValues
    <3>5. Holds(e.op, t[e.param], e.value) \in BOOLEAN
      BY <3>1, <3>4, Negation
    <3>6. Eval(e, t) = Holds(e.op, t[e.param], e.value)
          /\ Eval(e, u) = Holds(e.op, u[e.param], e.value)
      BY <2>3, <2>5, EvalKinds
    <3> QED
      BY <3>2, <3>5, <3>6, Zenon
  <2>6. CASE e.type = "IMPLICATION"
    <3>1. Operands(e) = <<e.left, e.right>>
      BY <2>3, <2>6, OperandsOf
    <3>2. 1 \in DOMAIN Operands(e) /\ 2 \in DOMAIN Operands(e)
          /\ Operands(e)[1] = e.left /\ Operands(e)[2] = e.right
      BY <3>1
    <3>3. Eval(e.left, t) = Eval(e.left, u) /\ Eval(e.right, t) = Eval(e.right, u)
      BY <2>2, <3>2
    <3>4. Eval(e, t) = (Eval(e.left, t) => Eval(e.right, t))
          /\ Eval(e, u) = (Eval(e.left, u) => Eval(e.right, u))
      BY <2>3, <2>6, EvalKinds
    <3>5. (Eval(e.left, t) => Eval(e.right, t)) \in BOOLEAN
      BY Zenon
    <3> QED
      BY <3>3, <3>4, <3>5, Zenon
  <2>7. CASE e.type = "AND"
    <3>1. Eval(e, t) = (\A i \in DOMAIN Operands(e) : Eval(Operands(e)[i], t))
          /\ Eval(e, u) = (\A i \in DOMAIN Operands(e) : Eval(Operands(e)[i], u))
      BY <2>3, <2>7, EvalKinds
    <3>2. (\A i \in DOMAIN Operands(e) : Eval(Operands(e)[i], t)) \in BOOLEAN
      BY Zenon
    <3>3. (\A i \in DOMAIN Operands(e) : Eval(Operands(e)[i], t)) =
          (\A i \in DOMAIN Operands(e) : Eval(Operands(e)[i], u))
      BY <2>2, Zenon
    <3> QED
      BY <3>1, <3>2, <3>3, Zenon
  <2>8. CASE e.type = "OR"
    <3>1. Eval(e, t) = (\E i \in DOMAIN Operands(e) : Eval(Operands(e)[i], t))
          /\ Eval(e, u) = (\E i \in DOMAIN Operands(e) : Eval(Operands(e)[i], u))
      BY <2>3, <2>8, EvalKinds
    <3>2. (\E i \in DOMAIN Operands(e) : Eval(Operands(e)[i], t)) \in BOOLEAN
      BY Zenon
    <3>3. (\E i \in DOMAIN Operands(e) : Eval(Operands(e)[i], t)) =
          (\E i \in DOMAIN Operands(e) : Eval(Operands(e)[i], u))
      BY <2>2, Zenon
    <3> QED
      BY <3>1, <3>2, <3>3, Zenon
  <2> QED
    BY <2>3, <2>4, <2>5, <2>6, <2>7, <2>8 DEF Kinds
<1>2. Exprs \subseteq T
  <2>1. \A e \in Exprs : (\A i \in DOMAIN Operands(e) : Operands(e)[i] \in T) => e \in T
    BY <1>1
  <2> HIDE DEF T
  <2> QED
    BY <2>1, StructuralInduction
<1> QED
  BY <1>2, Zenon

\* A test is an assignment to all parameters.
LEMMA TestsCover ==
    ASSUME NEW t \in TestsOver(Dom), NEW e \in Exprs
    PROVE  Covers(t, e) /\ Eval(e, t) \in BOOLEAN
<1>1. Covers(t, e)
  BY OccurringParams, Zenon DEF Covers, TestsOver
<1> QED
  BY <1>1, EvalLocal, Zenon
LEMMA Constructed ==
    ASSUME NEW s
    PROVE  And(s).type = "AND" /\ Operands(And(s)) = s /\ Or(s).type = "OR" /\ Operands(Or(s)) = s
<1>1. And(s).type = "AND" /\ And(s).operands = s /\ Or(s).type = "OR" /\ Or(s).operands = s
  BY DEF And, Or
<1> QED
  BY <1>1 DEF Operands

LEMMA ConstructedProp ==
    ASSUME NEW q, NEW op, NEW v
    PROVE  /\ Prop(q, op, v).type = "PROP" /\ Prop(q, op, v).param = q
           /\ Prop(q, op, v).op = op /\ Prop(q, op, v).value = v
           /\ [Prop(q, op, v) EXCEPT !.op = NegatedOp[@]] = Prop(q, NegatedOp[op], v)
BY DEF Prop

LEMMA LiteralsSay ==
    ASSUME NEW t \in TestsOver(Dom)
    PROVE  \A b \in BOOLEAN : Eval(Literal(b), t) = b
<1>1. \A b \in BOOLEAN : Literal(b) \in Exprs
  BY PlainExprs
<1>2. ASSUME NEW b \in BOOLEAN
      PROVE  Eval(Literal(b), t) = b
  <2>1. Literal(b) \in Exprs /\ Covers(t, Literal(b))
    BY <1>1, TestsCover, Zenon
  <2>2. Literal(b).type = "LITERAL" /\ Literal(b).value = b
    BY DEF Literal
  <2>3. Literal(b).type = "LITERAL" => Eval(Literal(b), t) = Literal(b).value
    BY <2>1, EvalKinds
  <2> QED
    BY <2>2, <2>3, Zenon
<1> QED
  BY <1>2

\* implication_resolving_visitor keeps what an expression says, or negates it.
LEMMA ResolveKeeps ==
    \A e \in Exprs : \A t \in TestsOver(Dom) :
        /\ Eval(Resolve(e, FALSE), t) = Eval(e, t)
        /\ Eval(Resolve(e, TRUE), t) = ~ Eval(e, t)
<1> DEFINE Kept(e, t) == /\ Eval(Resolve(e, FALSE), t) = Eval(e, t)
                         /\ Eval(Resolve(e, TRUE), t) = ~ Eval(e, t)
           T == {e \in Exprs : \A t \in TestsOver(Dom) : Kept(e, t)}
<1>1. ASSUME NEW e \in Exprs, \A i \in DOMAIN Operands(e) : Operands(e)[i] \in T
      PROVE  e \in T
  <2>1. SUFFICES ASSUME NEW t \in TestsOver(Dom)
                 PROVE  Kept(e, t)
    OBVIOUS
  <2> DEFINE Results(n) ==
                 [i \in DOMAIN Operands(e) |-> Resolve(Operands(e)[i], Negates(e, i, n))]
             R(n) == Resolve(e, n)
  <2>2. ASSUME NEW n \in BOOLEAN
        PROVE  /\ R(n) = ResolveNode(e, n, Results(n))
               /\ R(n) \in Exprs /\ Covers(t, R(n)) /\ Eval(R(n), t) \in BOOLEAN
    BY ResolveAssumption, PlainExprs, TestsCover
  <2>20. TRUE \in BOOLEAN /\ FALSE \in BOOLEAN
    OBVIOUS
  <2>21. R(TRUE) = ResolveNode(e, TRUE, Results(TRUE)) /\ R(TRUE) \in Exprs /\ Covers(t, R(TRUE))
    BY <2>2, <2>20, Zenon
  <2>22. R(FALSE) = ResolveNode(e, FALSE, Results(FALSE)) /\ R(FALSE) \in Exprs
         /\ Covers(t, R(FALSE))
    BY <2>2, <2>20, Zenon
  <2>3. Kinds(e, Exprs) /\ Covers(t, e) /\ Eval(e, t) \in BOOLEAN
    BY ExprKinds, TestsCover
  <2>4. \A n \in BOOLEAN :
            /\ DOMAIN Results(n) = DOMAIN Operands(e)
            /\ \A i \in DOMAIN Operands(e) :
                   Results(n)[i] = Resolve(Operands(e)[i], Negates(e, i, n))
    OBVIOUS
  <2>5. \A i \in DOMAIN Operands(e) : Kept(Operands(e)[i], t)
    BY <1>1
  <2> HIDE DEF Results, R
  <2>6. CASE e.type = "LITERAL"
    <3>1. R(FALSE) = Literal(e.value # FALSE) /\ R(TRUE) = Literal(e.value # TRUE)
      BY <2>21, <2>22, <2>6 DEF ResolveNode
    <3>2. e.value \in BOOLEAN /\ Eval(e, t) = e.value
      BY <2>3, <2>6, EvalKinds DEF Kinds
    <3>3. Eval(R(FALSE), t) = (e.value # FALSE) /\ Eval(R(TRUE), t) = (e.value # TRUE)
      BY <2>20, <3>1, LiteralsSay, Zenon
    <3>4. (e.value # FALSE) = e.value /\ (e.value # TRUE) = ~ e.value
      BY <3>2
    <3> QED
      BY <3>2, <3>3, <3>4, Zenon DEF R
  <2>7. CASE e.type = "PROP"
    <3>1. R(FALSE) = e /\ R(TRUE) = [e EXCEPT !.op = NegatedOp[@]]
      BY <2>21, <2>22, <2>7 DEF ResolveNode
    <3> DEFINE q == e.param
               op == e.op
               v == e.value
    <3>2. e = Prop(q, op, v) /\ q \in Params /\ op \in DOMAIN NegatedOp /\ v \in Int
      BY <2>3, <2>7 DEF Kinds, Prop
    <3>3. t[q] \in Int
      BY <3>2, ParamValues DEF TestsOver
    <3>4. Eval(e, t) = Holds(op, t[q], v)
      BY <2>3, <2>7, EvalKinds
    <3> HIDE DEF q, op, v
    <3>5. R(TRUE) = Prop(q, NegatedOp[op], v)
      <4>1. [Prop(q, op, v) EXCEPT !.op = NegatedOp[@]] = Prop(q, NegatedOp[op], v)
        BY ConstructedProp
      <4> QED
        BY <3>1, <3>2, <4>1, Zenon
    <3>6. Eval(R(TRUE), t) = Holds(NegatedOp[op], t[q], v)
      <4>1. R(TRUE).type = "PROP" /\ R(TRUE).param = q /\ R(TRUE).op = NegatedOp[op]
            /\ R(TRUE).value = v
        <5> DEFINE r == R(TRUE)
        <5>1. r = Prop(q, NegatedOp[op], v)
          BY <3>5
        <5> HIDE DEF r
        <5>2. r.type = "PROP" /\ r.param = q /\ r.op = NegatedOp[op] /\ r.value = v
          BY <5>1 DEF Prop
        <5> QED
          BY <5>2 DEF r
      <4>2. Eval(R(TRUE), t) = Holds(R(TRUE).op, t[R(TRUE).param], R(TRUE).value)
        BY <2>21, <4>1, EvalKinds, Zenon
      <4> QED
        BY <4>1, <4>2, Zenon
    <3>7. Holds(NegatedOp[op], t[q], v) = ~ Holds(op, t[q], v)
      BY <3>2, <3>3, Negation
    <3> QED
      BY <3>1, <3>4, <3>6, <3>7, Zenon DEF R
  <2>8. CASE e.type \in {"AND", "OR"}
    <3>1. \A i : Negates(e, i, FALSE) = FALSE /\ Negates(e, i, TRUE) = TRUE
      BY <2>8 DEF Negates
    <3>2. \A i \in DOMAIN Operands(e) :
              /\ Eval(Results(FALSE)[i], t) = Eval(Operands(e)[i], t)
              /\ Eval(Results(TRUE)[i], t) = ~ Eval(Operands(e)[i], t)
      BY <2>4, <2>5, <3>1, Zenon
    <3>3. CASE e.type = "AND"
      <4>1. R(FALSE) = And(Results(FALSE)) /\ R(TRUE) = Or(Results(TRUE))
        BY <2>21, <2>22, <3>3 DEF ResolveNode
      <4>2. /\ R(FALSE).type = "AND" /\ Operands(R(FALSE)) = Results(FALSE)
            /\ R(TRUE).type = "OR" /\ Operands(R(TRUE)) = Results(TRUE)
        BY <4>1, Constructed, Zenon
      <4>3. Eval(R(FALSE), t) = (\A i \in DOMAIN Results(FALSE) : Eval(Results(FALSE)[i], t))
            /\ Eval(R(TRUE), t) = (\E i \in DOMAIN Results(TRUE) : Eval(Results(TRUE)[i], t))
        BY <2>21, <2>22, <4>2, EvalKinds, Zenon
      <4>4. Eval(e, t) = \A i \in DOMAIN Operands(e) : Eval(Operands(e)[i], t)
        BY <2>3, <3>3, EvalKinds
      <4> QED
        BY <2>20, <2>4, <3>2, <4>3, <4>4, Zenon DEF R
    <3>4. CASE e.type = "OR"
      <4>1. R(FALSE) = Or(Results(FALSE)) /\ R(TRUE) = And(Results(TRUE))
        BY <2>21, <2>22, <3>4 DEF ResolveNode
      <4>2. /\ R(FALSE).type = "OR" /\ Operands(R(FALSE)) = Results(FALSE)
            /\ R(TRUE).type = "AND" /\ Operands(R(TRUE)) = Results(TRUE)
        BY <4>1, Constructed, Zenon
      <4>3. Eval(R(FALSE), t) = (\E i \in DOMAIN Results(FALSE) : Eval(Results(FALSE)[i], t))
            /\ Eval(R(TRUE), t) = (\A i \in DOMAIN Results(TRUE) : Eval(Results(TRUE)[i], t))
        BY <2>21, <2>22, <4>2, EvalKinds, Zenon
      <4>4. Eval(e, t) = \E i \in DOMAIN Operands(e) : Eval(Operands(e)[i], t)
        BY <2>3, <3>4, EvalKinds
      <4> QED
        BY <2>20, <2>4, <3>2, <4>3, <4>4, Zenon DEF R
    <3> QED
      BY <2>8, <3>3, <3>4
  <2>9. CASE e.type = "IMPLICATION"
    <3>1. Operands(e) = <<e.left, e.right>>
      BY <2>3, <2>9, OperandsOf
    <3>2. DOMAIN Operands(e) = {1, 2} /\ Operands(e)[1] = e.left /\ Operands(e)[2] = e.right
      BY <3>1
    <3>3. /\ Negates(e, 1, FALSE) = TRUE /\ Negates(e, 1, TRUE) = FALSE
          /\ Negates(e, 2, FALSE) = FALSE /\ Negates(e, 2, TRUE) = TRUE
      <4>1. (e.type = "IMPLICATION" /\ 1 = 1) = TRUE /\ (e.type = "IMPLICATION" /\ 2 = 1) = FALSE
        BY <2>9
      <4>2. Negates(e, 1, FALSE) = (FALSE # TRUE) /\ Negates(e, 1, TRUE) = (TRUE # TRUE)
            /\ Negates(e, 2, FALSE) = (FALSE # FALSE) /\ Negates(e, 2, TRUE) = (TRUE # FALSE)
        BY <4>1, Zenon DEF Negates
      <4> QED
        BY <4>2
    <3>4. /\ Eval(Results(FALSE)[1], t) = ~ Eval(e.left, t)
          /\ Eval(Results(FALSE)[2], t) = Eval(e.right, t)
          /\ Eval(Results(TRUE)[1], t) = Eval(e.left, t)
          /\ Eval(Results(TRUE)[2], t) = ~ Eval(e.right, t)
      <4>1. 1 \in DOMAIN Operands(e) /\ 2 \in DOMAIN Operands(e)
        BY <3>2
      <4> QED
        BY <2>4, <2>5, <3>2, <3>3, <4>1, Zenon
    <3>5. R(FALSE) = Or(Results(FALSE)) /\ R(TRUE) = And(Results(TRUE))
      BY <2>21, <2>22, <2>9 DEF ResolveNode
    <3>6. /\ R(FALSE).type = "OR" /\ Operands(R(FALSE)) = Results(FALSE)
          /\ R(TRUE).type = "AND" /\ Operands(R(TRUE)) = Results(TRUE)
      BY <3>5, Constructed, Zenon
    <3>7. Eval(R(FALSE), t) = (\E i \in DOMAIN Results(FALSE) : Eval(Results(FALSE)[i], t))
          /\ Eval(R(TRUE), t) = (\A i \in DOMAIN Results(TRUE) : Eval(Results(TRUE)[i], t))
      BY <2>21, <2>22, <3>6, EvalKinds, Zenon
    <3>8. Eval(R(FALSE), t) = (Eval(Results(FALSE)[1], t) \/ Eval(Results(FALSE)[2], t))
          /\ Eval(R(TRUE), t) = (Eval(Results(TRUE)[1], t) /\ Eval(Results(TRUE)[2], t))
      <4>1. DOMAIN Results(FALSE) = {1, 2} /\ DOMAIN Results(TRUE) = {1, 2}
        BY <2>4, <3>2
      <4> QED
        BY <3>7, <4>1, Zenon
    <3>9. Eval(e, t) = (Eval(e.left, t) => Eval(e.right, t))
      BY <2>3, <2>9, EvalKinds
    <3> QED
      BY <3>4, <3>8, <3>9, Zenon DEF R
  <2> QED
    BY <2>3, <2>6, <2>7, <2>8, <2>9 DEF Kinds
<1>2. Exprs \subseteq T
  <2>1. \A e \in Exprs : (\A i \in DOMAIN Operands(e) : Operands(e)[i] \in T) => e \in T
    BY <1>1
  <2> HIDE DEF T
  <2> QED
    BY <2>1, StructuralInduction
<1> QED
  BY <1>2, Zenon
\* Where an operand stands does not matter.
LEMMA EvalOperands ==
    ASSUME NEW e \in Exprs, NEW t, Covers(t, e)
    PROVE  /\ e.type = "AND" => Eval(e, t) = \A o \in ToSet(Operands(e)) : Eval(o, t)
           /\ e.type = "OR" => Eval(e, t) = \E o \in ToSet(Operands(e)) : Eval(o, t)
<1>1. ToSet(Operands(e)) = {Operands(e)[i] : i \in DOMAIN Operands(e)}
  BY DEF ToSet
<1>2. CASE e.type = "AND"
  <2>1. Eval(e, t) = \A i \in DOMAIN Operands(e) : Eval(Operands(e)[i], t)
    BY <1>2, EvalKinds
  <2> QED
    BY <1>1, <1>2, <2>1, Zenon
<1>3. CASE e.type = "OR"
  <2>1. Eval(e, t) = \E i \in DOMAIN Operands(e) : Eval(Operands(e)[i], t)
    BY <1>3, EvalKinds
  <2> QED
    BY <1>1, <1>3, <2>1, Zenon
<1> QED
  BY <1>2, <1>3

\* An expression, or the operands it gives way to.
Unnested(e, type) == IF e.type = type THEN e.operands ELSE <<e>>

LEMMA UnnestedSays ==
    ASSUME NEW e \in Plain, NEW t \in TestsOver(Dom)
    PROVE  /\ Unnested(e, "AND") \in Seq(Plain) /\ Unnested(e, "OR") \in Seq(Plain)
           /\ Eval(e, t) = \A o \in ToSet(Unnested(e, "AND")) : Eval(o, t)
           /\ Eval(e, t) = \E o \in ToSet(Unnested(e, "OR")) : Eval(o, t)
<1>1. e \in Exprs /\ Kinds(e, Plain) /\ Covers(t, e) /\ Eval(e, t) \in BOOLEAN
  BY PlainExprs, PlainKinds, TestsCover
<1>2. <<e>> \in Seq(Plain) /\ ToSet(<<e>>) = {e}
  BY DEF ToSet
<1>3. Eval(e, t) = (\A o \in {e} : Eval(o, t)) /\ Eval(e, t) = (\E o \in {e} : Eval(o, t))
  BY <1>1, Zenon
<1>4. /\ e.type # "AND" => Unnested(e, "AND") = <<e>>
      /\ e.type # "OR" => Unnested(e, "OR") = <<e>>
  BY DEF Unnested
<1>5. ASSUME e.type \in {"AND", "OR"}
      PROVE  Unnested(e, e.type) = Operands(e) /\ Operands(e) \in Seq(Plain)
  BY <1>1, <1>5, OperandsOf DEF Unnested
<1>6. CASE e.type = "AND"
  BY <1>1, <1>2, <1>3, <1>4, <1>5, <1>6, EvalOperands
<1>7. CASE e.type = "OR"
  BY <1>1, <1>2, <1>3, <1>4, <1>5, <1>7, EvalOperands, ZenonT(30)
<1>8. CASE e.type \notin {"AND", "OR"}
  BY <1>2, <1>3, <1>4, <1>8
<1> QED
  BY <1>6, <1>7, <1>8

\* constraint_flattening_visitor keeps what an expression says.
LEMMA FlatKeeps ==
    \A e \in Plain : Flat(e) \in Plain /\ \A t \in TestsOver(Dom) : Eval(Flat(e), t) = Eval(e, t)
<1> DEFINE T == {e \in Plain : \A t \in TestsOver(Dom) : Eval(Flat(e), t) = Eval(e, t)}
<1>1. ASSUME NEW e \in Plain, \A i \in DOMAIN Operands(e) : Operands(e)[i] \in T
      PROVE  e \in T
  <2>1. SUFFICES ASSUME NEW t \in TestsOver(Dom)
                 PROVE  Eval(Flat(e), t) = Eval(e, t)
    OBVIOUS
  <2> DEFINE results == [i \in DOMAIN Operands(e) |-> Flat(Operands(e)[i])]
             parts == [i \in DOMAIN results |-> Unnested(results[i], e.type)]
             f == Flat(e)
  <2>2. /\ e \in Exprs /\ Covers(t, e) /\ Kinds(e, Plain) /\ e.type # "IMPLICATION"
        /\ Operands(e) \in Seq(Plain) /\ \A i \in DOMAIN Operands(e) : Operands(e)[i] \in Plain
    BY PlainExprs, PlainKinds, ExprOperands, TestsCover
  <2>3. f = FlatNode(e, results) /\ f \in Plain /\ f \in Exprs /\ Covers(t, f)
    BY FlatAssumption, PlainExprs, TestsCover
  <2>4. CASE e.type \notin {"AND", "OR"}
    BY <2>3, <2>4 DEF FlatNode
  <2>5. CASE e.type \in {"AND", "OR"}
    <3>1. f = [e EXCEPT !.operands = FlattenSeq(parts)]
      BY <2>3, <2>5 DEF FlatNode, Unnested
    <3>2. \A i \in DOMAIN Operands(e) : /\ results[i] = Flat(Operands(e)[i])
                                        /\ results[i] \in Plain
                                        /\ Eval(results[i], t) = Eval(Operands(e)[i], t)
      BY <1>1, <2>2, FlatAssumption
    <3>3. \A i \in DOMAIN Operands(e) : parts[i] = Unnested(results[i], e.type)
      OBVIOUS
    <3>4. DOMAIN parts = DOMAIN Operands(e)
      OBVIOUS
    <3> HIDE DEF results
    <3>5. parts \in [DOMAIN Operands(e) -> Seq(Plain)]
      BY <2>5, <3>2, <3>3, <3>4, UnnestedSays
    <3> HIDE DEF parts, f
    <3>6. parts \in Seq(Seq(Plain))
      BY <2>2, <3>5, ResultSeq
    <3>7. \A x : x \in ToSet(FlattenSeq(parts)) <=> \E i \in DOMAIN parts : x \in ToSet(parts[i])
      BY <3>6, Flattened
    <3>8. e = [type |-> e.type, operands |-> e.operands]
      BY <2>2, <2>5 DEF Kinds
    <3>9. f.type = e.type /\ f.operands = FlattenSeq(parts)
      BY <3>1, <3>8
    <3>10. Operands(f) = FlattenSeq(parts)
      BY <2>5, <3>9 DEF Operands
    <3>11. CASE e.type = "AND"
      <4>1. Eval(f, t) = \A o \in ToSet(FlattenSeq(parts)) : Eval(o, t)
        BY <2>3, <3>9, <3>10, <3>11, EvalOperands
      <4>2. Eval(e, t) = \A i \in DOMAIN Operands(e) : Eval(Operands(e)[i], t)
        BY <2>2, <3>11, EvalKinds
      <4>3. \A i \in DOMAIN Operands(e) :
                Eval(Operands(e)[i], t) = \A o \in ToSet(parts[i]) : Eval(o, t)
        <5>1. \A r \in Plain :
                  Eval(r, t) = \A o \in ToSet(Unnested(r, "AND")) : Eval(o, t)
          BY UnnestedSays
        <5>2. \A i \in DOMAIN Operands(e) : parts[i] = Unnested(results[i], "AND")
          BY <3>3, <3>11
        <5> QED
          BY <3>2, <5>1, <5>2, Zenon
      <4>4. (\A o \in ToSet(FlattenSeq(parts)) : Eval(o, t)) =
            (\A i \in DOMAIN Operands(e) : \A o \in ToSet(parts[i]) : Eval(o, t))
        BY <3>4, <3>7, Zenon
      <4> QED
        BY <4>1, <4>2, <4>3, <4>4, Zenon DEF f
    <3>12. CASE e.type = "OR"
      <4>1. Eval(f, t) = \E o \in ToSet(FlattenSeq(parts)) : Eval(o, t)
        BY <2>3, <3>9, <3>10, <3>12, EvalOperands
      <4>2. Eval(e, t) = \E i \in DOMAIN Operands(e) : Eval(Operands(e)[i], t)
        BY <2>2, <3>12, EvalKinds
      <4>3. \A i \in DOMAIN Operands(e) :
                Eval(Operands(e)[i], t) = \E o \in ToSet(parts[i]) : Eval(o, t)
        <5>1. \A r \in Plain :
                  Eval(r, t) = \E o \in ToSet(Unnested(r, "OR")) : Eval(o, t)
          BY UnnestedSays
        <5>2. \A i \in DOMAIN Operands(e) : parts[i] = Unnested(results[i], "OR")
          BY <3>3, <3>12
        <5> QED
          BY <3>2, <5>1, <5>2, Zenon
      <4>4. (\E o \in ToSet(FlattenSeq(parts)) : Eval(o, t)) =
            (\E i \in DOMAIN Operands(e) : \E o \in ToSet(parts[i]) : Eval(o, t))
        BY <3>4, <3>7, Zenon
      <4> QED
        BY <4>1, <4>2, <4>3, <4>4, Zenon DEF f
    <3> QED
      BY <2>5, <3>11, <3>12
  <2> QED
    BY <2>4, <2>5
<1>2. Plain \subseteq T
  <2>1. \A e \in Plain : (\A i \in DOMAIN Operands(e) : Operands(e)[i] \in T) => e \in T
    BY <1>1
  <2> HIDE DEF T
  <2> QED
    BY <2>1, PlainInduction
<1> QED
  BY <1>2, FlatAssumption, Zenon
-------------------------------------------------------------------------------
(* Assignments and limits *)

LEMMA AssignmentFrom ==
    ASSUME NEW S, NEW dom, NEW f, f = [p \in S |-> f[p]], \A p \in S : f[p] \in dom[p]
    PROVE  f \in AssignmentsOver(S, dom)
<1>1. \A p \in S : f[p] \in UNION {dom[q] : q \in S}
  OBVIOUS
<1>2. [p \in S |-> f[p]] \in [S -> UNION {dom[q] : q \in S}]
  BY <1>1
<1> QED
  BY <1>2, Zenon DEF AssignmentsOver

LEMMA AssignmentFunction ==
    ASSUME NEW S, NEW dom, NEW a \in AssignmentsOver(S, dom)
    PROVE  a = [p \in S |-> a[p]]
BY DEF AssignmentsOver

LEMMA MoreValues ==
    ASSUME NEW S, NEW dom, NEW larger, \A p \in S : dom[p] \subseteq larger[p]
    PROVE  AssignmentsOver(S, dom) \subseteq AssignmentsOver(S, larger)
<1> SUFFICES ASSUME NEW a \in AssignmentsOver(S, dom)
             PROVE  a \in AssignmentsOver(S, larger)
  OBVIOUS
<1>1. a = [p \in S |-> a[p]]
  BY AssignmentFunction
<1>2. \A p \in S : a[p] \in larger[p]
  BY AssignedValues
<1> QED
  BY <1>1, <1>2, AssignmentFrom, Zenon

LEMMA ModelTests ==
    ASSUME NEW dom \in Domains
    PROVE  TestsOver(dom) \subseteq TestsOver(Dom)
BY MoreValues DEF TestsOver, Domains

-------------------------------------------------------------------------------
(* What the diagram of a constraint admits *)

\* The interval of indices that a comparison becomes has exactly the values that
\* satisfy it, if they are listed in ascending order.
LEMMA AdmittedMeans ==
    ASSUME NEW op \in DOMAIN NegatedOp, NEW v \in Int, NEW D \in SUBSET Int, NEW list,
           op \notin {"EQ", "NEQ"} => Sorted(list), NEW x \in D
    PROVE  x \in Admitted(op, v, D, list) <=> Holds(op, x, v)
<1>1. op \in {"EQ", "NEQ", "LT", "LE", "GE", "GT"}
  BY DEF NegatedOp
<1>2. x \in Admitted(op, v, D, list) <=>
          \E y \in D : /\ Holds(op, y, v)
                       /\ \/ x = y
                          \/ op \in {"LE", "LT"} /\ Precedes(list, x, y)
                          \/ op \in {"GE", "GT"} /\ Precedes(list, y, x)
  BY DEF Admitted
<1>3. ASSUME NEW y, NEW z, Sorted(list), Precedes(list, y, z)
      PROVE  y < z
  BY <1>3 DEF Sorted, Precedes
<1>4. ASSUME NEW y \in D, Holds(op, y, v), op \in {"LE", "LT"}, x < y
      PROVE  Holds(op, x, v)
  <2>1. CASE op = "LE"
    BY <1>4, <2>1 DEF Holds
  <2>2. CASE op = "LT"
    BY <1>4, <2>2 DEF Holds
  <2> QED
    BY <1>4, <2>1, <2>2
<1>5. ASSUME NEW y \in D, Holds(op, y, v), op \in {"GE", "GT"}, y < x
      PROVE  Holds(op, x, v)
  <2>1. CASE op = "GE"
    BY <1>5, <2>1 DEF Holds
  <2>2. CASE op = "GT"
    BY <1>5, <2>2 DEF Holds
  <2> QED
    BY <1>5, <2>1, <2>2
<1>6. ASSUME NEW y \in D, Holds(op, y, v),
             \/ x = y
             \/ op \in {"LE", "LT"} /\ Precedes(list, x, y)
             \/ op \in {"GE", "GT"} /\ Precedes(list, y, x)
      PROVE  Holds(op, x, v)
  <2>1. CASE x = y
    BY <1>6, <2>1
  <2>2. CASE op \in {"LE", "LT"} /\ Precedes(list, x, y)
    BY <1>3, <1>4, <1>6, <2>2
  <2>3. CASE op \in {"GE", "GT"} /\ Precedes(list, y, x)
    BY <1>3, <1>5, <1>6, <2>3
  <2> QED
    BY <1>6, <2>1, <2>2, <2>3
<1> QED
  BY <1>2, <1>6, Zenon

\* What a job finds: every value once, those of integers in ascending order.
LEMMA JobListed ==
    ASSUME NEW l \in JobListings, NEW p \in Params
    PROVE  /\ l[p] \in Seq(Dom[p]) /\ ToSet(l[p]) = Dom[p]
           /\ p \in IntParams => Sorted(l[p])
<1>1. PICK given \in Listings : l \in SortedValues(given)
  BY DEF JobListings
<1>2. given[p] \in Seq(Dom[p]) /\ ToSet(given[p]) = Dom[p]
  BY ListingsAssumption
<1>3. CASE p \in IntParams
  <2>1. l[p] \in Ascending(Dom[p])
    BY <1>1, <1>2, <1>3 DEF SortedValues
  <2>2. /\ l[p] \in [1 .. Cardinality(Dom[p]) -> Dom[p]] /\ ToSet(l[p]) = Dom[p]
        /\ \A i, j \in DOMAIN l[p] : i < j => l[p][i] < l[p][j]
    BY <2>1 DEF Ascending
  <2>3. Cardinality(Dom[p]) \in Nat
    BY ParamsAssumption, FS_CardinalityType
  <2>4. l[p] \in Seq(Dom[p])
    BY <2>2, <2>3, IsASeq
  <2> QED
    BY <2>2, <2>4 DEF Sorted
<1>4. CASE p \notin IntParams
  <2>1. l[p] = given[p]
    BY <1>1, <1>4 DEF SortedValues
  <2> QED
    BY <1>2, <1>4, <2>1
<1> QED
  BY <1>3, <1>4

\* The diagram of a constraint admits what satisfies it, for the library sorts the
\* values that constraints compare by order.
LEMMA DiagramMeans ==
    ASSUME NEW l \in JobListings, NEW dom \in Domains, NEW S \in SUBSET Params,
           NEW a \in AssignmentsOver(S, dom)
    PROVE  \A e \in Plain : Occurring(e) \subseteq S => DiagramAdmits(e, a, dom, l) = Eval(e, a)
<1> DEFINE T == {e \in Plain : Occurring(e) \subseteq S =>
                                   DiagramAdmits(e, a, dom, l) = Eval(e, a)}
<1>1. a \in AssignmentsOver(S, Dom)
  BY MoreValues DEF Domains
<1>2. ASSUME NEW e \in Plain, \A i \in DOMAIN Operands(e) : Operands(e)[i] \in T
      PROVE  e \in T
  <2>1. SUFFICES ASSUME Occurring(e) \subseteq S
                 PROVE  DiagramAdmits(e, a, dom, l) = Eval(e, a)
    OBVIOUS
  <2> DEFINE results == [i \in DOMAIN Operands(e) |-> Eval(Operands(e)[i], a)]
             admitted == [i \in DOMAIN Operands(e) |-> DiagramAdmits(Operands(e)[i], a, dom, l)]
  <2>2. e \in Exprs /\ Kinds(e, Plain) /\ e.type # "IMPLICATION"
    BY PlainExprs, PlainKinds
  <2>3. \A i \in DOMAIN Operands(e) : Occurring(Operands(e)[i]) \subseteq S
    BY <2>1, <2>2, Collected
  <2>4. admitted = results
    BY <1>2, <2>3
  <2>5. DiagramAdmits(e, a, dom, l) = AdmitsNode(e, a, dom, l, admitted)
    BY <2>1, AdmitsAssumption, Zenon
  <2>6. Eval(e, a) = EvalNode(e, a, results)
    BY <1>1, <2>1, <2>2, EvalAssumption, Zenon
  <2> HIDE DEF results, admitted
  <2>7. CASE e.type # "PROP"
    BY <2>4, <2>5, <2>6, <2>7 DEF AdmitsNode
  <2>8. CASE e.type = "PROP"
    <3>1. e.param \in Params /\ e.op \in DOMAIN NegatedOp /\ e.value \in Int
      BY <2>2, <2>8 DEF Kinds
    <3>2. e.param \in S
      BY <2>1, <2>2, <2>8, Collected
    <3>3. a[e.param] \in dom[e.param] /\ dom[e.param] \in SUBSET Int
      <4>1. dom[e.param] \subseteq Dom[e.param] /\ Dom[e.param] \subseteq Int
        BY <3>1, ParamsAssumption DEF Domains
      <4> QED
        BY <3>2, <4>1, AssignedValues
    <3>4. e.op \notin {"EQ", "NEQ"} => Sorted(l[e.param])
      BY <2>2, <2>8, <3>1, OrderAssumption, JobListed
    <3>5. a[e.param] \in Admitted(e.op, e.value, dom[e.param], l[e.param])
              <=> Holds(e.op, a[e.param], e.value)
      BY <3>1, <3>3, <3>4, AdmittedMeans
    <3>6. Holds(e.op, a[e.param], e.value) \in BOOLEAN
      BY <3>1, <3>3, Negation
    <3>7. DiagramAdmits(e, a, dom, l) =
              (a[e.param] \in Admitted(e.op, e.value, dom[e.param], l[e.param]))
      BY <2>5, <2>8 DEF AdmitsNode
    <3>8. Eval(e, a) = Holds(e.op, a[e.param], e.value)
      BY <2>6, <2>8 DEF EvalNode
    <3>9. CASE Holds(e.op, a[e.param], e.value) = TRUE
      <4>1. DiagramAdmits(e, a, dom, l) = TRUE
        BY <3>5, <3>7, <3>9
      <4> QED
        BY <3>8, <3>9, <4>1
    <3>10. CASE Holds(e.op, a[e.param], e.value) = FALSE
      <4> DEFINE admits == a[e.param] \in Admitted(e.op, e.value, dom[e.param], l[e.param])
      <4>2. admits \in BOOLEAN /\ ~admits
        BY <3>5, <3>10
      <4>3. DiagramAdmits(e, a, dom, l) = admits
        BY <3>7
      <4> HIDE DEF admits
      <4>1. DiagramAdmits(e, a, dom, l) = FALSE
        BY <4>2, <4>3
      <4> QED
        BY <3>8, <3>10, <4>1
    <3> QED
      BY <3>6, <3>9, <3>10
  <2> QED
    BY <2>7, <2>8
<1>3. Plain \subseteq T
  <2>1. \A e \in Plain : (\A i \in DOMAIN Operands(e) : Operands(e)[i] \in T) => e \in T
    BY <1>2
  <2> HIDE DEF T
  <2> QED
    BY <2>1, PlainInduction
<1> QED
  BY <1>3

-------------------------------------------------------------------------------
(* Limits of the values of parameters *)

\* valid limits parameters to some of their values in dom.
IsLimits(valid, dom) ==
    /\ valid = [p \in DOMAIN valid |-> valid[p]]
    /\ DOMAIN valid \subseteq Params
    /\ \A p \in DOMAIN valid : valid[p] \subseteq dom[p]

Admits(valid, t) == \A p \in DOMAIN valid : t[p] \in valid[p]

LEMMA NoLimitsAdmit ==
    ASSUME NEW dom, NEW t
    PROVE  IsLimits(NoLimits, dom) /\ Admits(NoLimits, t) /\ ~ NoValueLeft(NoLimits)
BY DEF IsLimits, Admits, NoLimits, NoValueLeft

LEMMA MeetSound ==
    ASSUME NEW dom \in Domains, NEW limits, \A f \in limits : IsLimits(f, dom)
    PROVE  /\ IsLimits(Meet(limits), dom)
           /\ \A t \in TestsOver(dom) :
                  (\A f \in limits : Admits(f, t)) => Admits(Meet(limits), t)
<1> DEFINE m == Meet(limits)
           D == UNION {DOMAIN f : f \in limits}
<1>1. DOMAIN m = D /\ m = [p \in D |-> m[p]]
  BY DEF Meet
<1>2. \A p \in D : m[p] = {x \in Dom[p] : \A f \in limits : p \in DOMAIN f => x \in f[p]}
  BY DEF Meet
<1> HIDE DEF m
<1>3. \A p \in D : p \in Params /\ \E f \in limits : p \in DOMAIN f
  BY Zenon DEF IsLimits
<1>4. ASSUME NEW p \in D
      PROVE  m[p] \subseteq dom[p]
  <2>1. PICK f \in limits : p \in DOMAIN f
    BY <1>3
  <2>2. f[p] \subseteq dom[p]
    BY <2>1 DEF IsLimits
  <2>3. \A x \in m[p] : x \in f[p]
    BY <1>2, <2>1, Zenon
  <2> QED
    BY <2>2, <2>3
<1>5. ASSUME NEW t \in TestsOver(dom), \A f \in limits : Admits(f, t)
      PROVE  Admits(m, t)
  <2>1. SUFFICES ASSUME NEW p \in D
                 PROVE  t[p] \in m[p]
    BY <1>1, Zenon DEF Admits
  <2>2. t[p] \in Dom[p]
    BY <1>3, ModelTests, AssignedValues DEF TestsOver
  <2>3. \A f \in limits : p \in DOMAIN f => t[p] \in f[p]
    BY <1>5, Zenon DEF Admits
  <2> QED
    BY <1>2, <2>2, <2>3, Zenon
<1>6. IsLimits(m, dom)
  BY <1>1, <1>3, <1>4, Zenon DEF IsLimits
<1> QED
  BY <1>5, <1>6 DEF m

LEMMA JoinSound ==
    ASSUME NEW dom, NEW limits, \A f \in limits : IsLimits(f, dom)
    PROVE  /\ IsLimits(Join(limits), dom)
           /\ \A t : (\E f \in limits : Admits(f, t)) => Admits(Join(limits), t)
<1> DEFINE j == Join(limits)
           D == {q \in Params : \A f \in limits : q \in DOMAIN f}
<1>1. DOMAIN j = D /\ j = [p \in D |-> j[p]]
  BY DEF Join
<1>2. \A p \in D : j[p] = UNION {f[p] : f \in limits}
  BY DEF Join
<1> HIDE DEF j
<1>3. ASSUME NEW p \in D, NEW x \in j[p]
      PROVE  x \in dom[p]
  <2>1. PICK f \in limits : x \in f[p]
    <3>1. x \in UNION {f[p] : f \in limits}
      BY <1>2, <1>3
    <3> QED
      BY <3>1
  <2>2. f[p] \subseteq dom[p]
    BY Zenon DEF IsLimits
  <2> QED
    BY <2>1, <2>2
<1>4. ASSUME NEW t, NEW f \in limits, Admits(f, t)
      PROVE  Admits(j, t)
  <2>1. ASSUME NEW p \in D
        PROVE  t[p] \in j[p]
    <3>1. t[p] \in f[p]
      BY <1>4, Zenon DEF Admits
    <3> QED
      BY <1>2, <3>1, Zenon
  <2> QED
    BY <1>1, <2>1, Zenon DEF Admits
<1>5. D \subseteq Params /\ \A p \in D : j[p] \subseteq dom[p]
  BY <1>3
<1>6. IsLimits(j, dom)
  BY <1>1, <1>5, Zenon DEF IsLimits
<1> QED
  BY <1>4, <1>6 DEF j

LEMMA NonLiteralElements ==
    ASSUME NEW R, NEW results \in Seq(R)
    PROVE  /\ NonLiterals(results) \in Seq(R)
           /\ \A x : x \in ToSet(NonLiterals(results)) <=>
                         \E i \in DOMAIN results :
                             x = results[i] /\ results[i].expr.type # "LITERAL"
<1> DEFINE parts == [i \in DOMAIN results |->
                         IF results[i].expr.type = "LITERAL" THEN <<>> ELSE <<results[i]>>]
<1>1. \A i \in DOMAIN results : results[i] \in R
  BY LenProperties, ElementOfSeq
<1>2. DOMAIN parts = DOMAIN results /\ parts \in [DOMAIN results -> Seq(R)]
  BY <1>1
<1>3. parts \in Seq(Seq(R))
  BY <1>2, ResultSeq
<1>4. \A x : \A i \in DOMAIN results :
          x \in ToSet(parts[i]) <=> x = results[i] /\ results[i].expr.type # "LITERAL"
  <2>1. ToSet(<<>>) = {} /\ \A r : ToSet(<<r>>) = {r}
    BY DEF ToSet
  <2> QED
    BY <2>1
<1>5. NonLiterals(results) = FlattenSeq(parts)
  BY DEF NonLiterals
<1> HIDE DEF parts
<1>6. /\ FlattenSeq(parts) \in Seq(R)
      /\ \A x : x \in ToSet(FlattenSeq(parts)) <=> \E i \in DOMAIN parts : x \in ToSet(parts[i])
  BY <1>3, Flattened
<1>7. ASSUME NEW x
      PROVE  x \in ToSet(FlattenSeq(parts)) <=>
                 \E i \in DOMAIN results : x = results[i] /\ results[i].expr.type # "LITERAL"
  <2>1. x \in ToSet(FlattenSeq(parts)) <=> \E i \in DOMAIN results : x \in ToSet(parts[i])
    BY <1>2, <1>6, Zenon
  <2>2. \A i \in DOMAIN results :
            x \in ToSet(parts[i]) <=> x = results[i] /\ results[i].expr.type # "LITERAL"
    BY <1>4, Zenon
  <2> QED
    BY <2>1, <2>2, Zenon
<1> QED
  BY <1>5, <1>6, <1>7
-------------------------------------------------------------------------------
(* The simplification of an expression *)

\* What may replace e by r.expr, and limit parameters to r.valid: tests that
\* satisfy e are not excluded.
Sound(r, e, dom) ==
    /\ IsLimits(r.valid, dom)
    /\ \A t \in TestsOver(dom) : Eval(e, t) => Eval(r.expr, t) /\ Admits(r.valid, t)

LEMMA ReplacedByTrue ==
    ASSUME NEW e, NEW dom \in Domains, NEW r, r.expr = Literal(TRUE), r.valid = NoLimits
    PROVE  Sound(r, e, dom)
BY ModelTests, LiteralsSay, NoLimitsAdmit, Zenon DEF Sound

LEMMA ReplacedByFalse ==
    ASSUME NEW e, NEW dom \in Domains, NEW r, r.expr = Literal(FALSE), r.valid = NoLimits,
           \A t \in TestsOver(dom) : ~ Eval(e, t)
    PROVE  Sound(r, e, dom)
BY NoLimitsAdmit, Zenon DEF Sound

LEMMA PropSound ==
    ASSUME NEW e \in Plain, e.type = "PROP", NEW dom \in Domains
    PROVE  Sound(SimplifyProp(e, dom), e, dom)
<1> DEFINE valid == {x \in dom[e.param] : Holds(e.op, x, e.value)}
           r == SimplifyProp(e, dom)
<1>1. e \in Exprs /\ Kinds(e, Plain) /\ e.param \in Params
  BY PlainExprs, PlainKinds DEF Kinds
<1>2. ASSUME NEW t \in TestsOver(dom)
      PROVE  /\ Eval(e, t) => t[e.param] \in valid
  <2>1. t[e.param] \in dom[e.param]
    BY <1>1, AssignedValues DEF TestsOver
  <2>2. Covers(t, e)
    BY <1>1, ModelTests, TestsCover
  <2>3. Eval(e, t) = Holds(e.op, t[e.param], e.value)
    BY <1>1, <2>2, EvalKinds
  <2> QED
    BY <2>1, <2>3, Zenon
<1>3. CASE valid = {}
  <2>1. r.expr = Literal(FALSE) /\ r.valid = NoLimits
    BY <1>3 DEF SimplifyProp, Result
  <2> HIDE DEF r
  <2>2. Sound(r, e, dom)
    BY <1>2, <1>3, <2>1, ReplacedByFalse
  <2> QED
    BY <2>2 DEF r
<1>4. CASE valid # {} /\ valid = dom[e.param]
  <2>1. r.expr = Literal(TRUE) /\ r.valid = NoLimits
    BY <1>4 DEF SimplifyProp, Result
  <2> HIDE DEF r
  <2>2. Sound(r, e, dom)
    BY <2>1, ReplacedByTrue
  <2> QED
    BY <2>2 DEF r
<1>5. CASE valid # {} /\ valid # dom[e.param]
  <2>1. r.expr = e /\ r.valid = [p \in {e.param} |-> valid]
    BY <1>5 DEF SimplifyProp, Result
  <2>2. valid \subseteq dom[e.param]
    OBVIOUS
  <2> HIDE DEF r, valid
  <2>3. IsLimits(r.valid, dom)
    BY <1>1, <2>1, <2>2 DEF IsLimits
  <2>4. ASSUME NEW t \in TestsOver(dom), Eval(e, t)
        PROVE  Eval(r.expr, t) /\ Admits(r.valid, t)
    <3>1. t[e.param] \in valid
      BY <1>2, <2>4
    <3>2. Admits(r.valid, t)
      BY <2>1, <3>1 DEF Admits
    <3> QED
      BY <2>1, <2>4, <3>2
  <2> QED
    BY <2>3, <2>4 DEF Sound, r
<1> QED
  BY <1>3, <1>4, <1>5

LEMMA CombineSound ==
    ASSUME NEW e \in Plain, e.type \in {"AND", "OR"}, NEW dom \in Domains,
           NEW results, DOMAIN results = DOMAIN Operands(e), results \in Seq(ToSet(results)),
           \A i \in DOMAIN results :
               results[i].expr \in Plain /\ Sound(results[i], Operands(e)[i], dom),
           Combine(e, results, dom).expr \in Plain
    PROVE  Sound(Combine(e, results, dom), e, dom)
<1> DEFINE isOr == e.type = "OR"
           r == Combine(e, results, dom)
           kept == NonLiterals(results)
           limits == {kept[i].valid : i \in DOMAIN kept}
           valid == IF isOr THEN Join(limits) ELSE Meet(limits)
           MeetUpTo(k) == Meet({results[j].valid : j \in 1 .. k})
           Absorbs(k) == \/ IsLiteral(results[k].expr, isOr)
                         \/ ~isOr /\ NoValueLeft(MeetUpTo(k))
<1>1. e \in Exprs /\ Kinds(e, Plain) /\ Operands(e) \in Seq(Plain)
  BY PlainExprs, PlainKinds, ExprOperands
<1>2. ASSUME NEW t \in TestsOver(dom)
      PROVE  /\ Covers(t, e)
             /\ \A i \in DOMAIN results : Eval(Operands(e)[i], t) =>
                    Eval(results[i].expr, t) /\ Admits(results[i].valid, t)
             /\ \A i \in DOMAIN results : IsLiteral(results[i].expr, FALSE) =>
                    ~ Eval(Operands(e)[i], t)
  <2>1. t \in TestsOver(Dom)
    BY ModelTests
  <2>2. \A i \in DOMAIN results : Eval(Operands(e)[i], t) =>
            Eval(results[i].expr, t) /\ Admits(results[i].valid, t)
    BY Zenon DEF Sound
  <2>3. ASSUME NEW i \in DOMAIN results, IsLiteral(results[i].expr, FALSE)
        PROVE  ~ Eval(Operands(e)[i], t)
    <3>1. results[i].expr \in Exprs /\ Covers(t, results[i].expr)
      BY <2>1, PlainExprs, TestsCover
    <3>2. Eval(results[i].expr, t) = FALSE
      BY <2>3, <3>1, EvalKinds DEF IsLiteral
    <3> QED
      BY <2>2, <3>2, Zenon
  <2> QED
    BY <1>1, <2>1, <2>2, <2>3, TestsCover
<1>3. CASE \E k \in DOMAIN results : Absorbs(k)
  <2>1. r.expr = Literal(isOr) /\ r.valid = NoLimits
    BY <1>3 DEF Combine, Result
  <2>2. CASE isOr
    <3>1. r.expr = Literal(TRUE)
      BY <2>1, <2>2
    <3> HIDE DEF r
    <3>2. Sound(r, e, dom)
      BY <2>1, <3>1, ReplacedByTrue
    <3> QED
      BY <3>2 DEF r
  <2>3. CASE ~ isOr
    <3>1. r.expr = Literal(FALSE) /\ e.type = "AND"
      BY <2>1, <2>3
    <3>2. ASSUME NEW t \in TestsOver(dom), Eval(e, t)
          PROVE  FALSE
      <4>1. PICK k \in DOMAIN results : Absorbs(k)
        BY <1>3
      <4>2. Eval(e, t) = \A i \in DOMAIN Operands(e) : Eval(Operands(e)[i], t)
        BY <1>1, <1>2, <3>1, EvalKinds
      <4>3. \A i \in DOMAIN results : Eval(Operands(e)[i], t)
        BY <3>2, <4>2
      <4>4. NoValueLeft(MeetUpTo(k))
        <5>1. ~ IsLiteral(results[k].expr, FALSE)
          BY <1>2, <4>3
        <5> QED
          BY <2>3, <4>1, <5>1
      <4> DEFINE upTo == {results[j].valid : j \in 1 .. k}
      <4>5. \A j \in 1 .. k : j \in DOMAIN results
        BY <1>1, LenProperties
      <4>6. \A f \in upTo : IsLimits(f, dom) /\ Admits(f, t)
        BY <1>2, <4>3, <4>5, Zenon DEF Sound
      <4> HIDE DEF upTo
      <4>7. Admits(Meet(upTo), t)
        BY <4>6, MeetSound, Zenon
      <4> QED
        BY <4>4, <4>7 DEF NoValueLeft, Admits, upTo
    <3> HIDE DEF r
    <3>3. Sound(r, e, dom)
      BY <2>1, <3>1, <3>2, ReplacedByFalse
    <3> QED
      BY <3>3 DEF r
  <2> QED
    BY <2>2, <2>3
<1>4. ASSUME ~ \E k \in DOMAIN results : Absorbs(k)
      PROVE  Sound(r, e, dom)
  <2>1. /\ kept \in Seq(ToSet(results))
        /\ \A x : x \in ToSet(kept) <=>
               \E i \in DOMAIN results : x = results[i] /\ results[i].expr.type # "LITERAL"
    BY NonLiteralElements
  \* A true operand of a disjunction is kept.
  <2>2. ASSUME isOr, NEW i \in DOMAIN results, NEW t \in TestsOver(dom),
               Eval(Operands(e)[i], t)
        PROVE  results[i] \in ToSet(kept)
    <3>1. ~ IsLiteral(results[i].expr, TRUE) /\ ~ IsLiteral(results[i].expr, FALSE)
      BY <1>2, <1>4, <2>2
    <3>2. results[i].expr.type = "LITERAL" => results[i].expr.value \in BOOLEAN
      BY PlainKinds DEF Kinds
    <3>3. results[i].expr.type # "LITERAL"
      BY <3>1, <3>2 DEF IsLiteral
    <3> QED
      BY <2>1, <3>3
  <2>3. ASSUME NEW t \in TestsOver(dom), Eval(e, t), isOr
        PROVE  \E i \in DOMAIN results : results[i] \in ToSet(kept) /\ Eval(results[i].expr, t)
                                         /\ Admits(results[i].valid, t)
    <3>1. Eval(e, t) = \E i \in DOMAIN Operands(e) : Eval(Operands(e)[i], t)
      BY <1>1, <1>2, <2>3, EvalKinds
    <3>2. PICK i \in DOMAIN results : Eval(Operands(e)[i], t)
      BY <2>3, <3>1
    <3> QED
      BY <1>2, <2>2, <2>3, <3>2
  <2>4. ASSUME NEW t \in TestsOver(dom), Eval(e, t), ~ isOr
        PROVE  \A x \in ToSet(kept) : Eval(x.expr, t) /\ Admits(x.valid, t)
    <3>1. Eval(e, t) = \A i \in DOMAIN Operands(e) : Eval(Operands(e)[i], t)
      BY <1>1, <1>2, <2>4, EvalKinds
    <3> QED
      BY <1>2, <2>1, <2>4, <3>1
  <2>5. CASE kept = <<>>
    <3>1. r.expr = Literal(~ isOr) /\ r.valid = NoLimits
      BY <1>4, <2>5 DEF Combine, Result
    <3>2. ToSet(kept) = {}
      BY <2>5 DEF ToSet
    <3>3. CASE isOr
      <4>1. r.expr = Literal(FALSE)
        BY <3>1, <3>3
      <4>2. \A t \in TestsOver(dom) : ~ Eval(e, t)
        BY <2>3, <3>2, <3>3
      <4> HIDE DEF r
      <4>3. Sound(r, e, dom)
        BY <3>1, <4>1, <4>2, ReplacedByFalse
      <4> QED
        BY <4>3 DEF r
    <3>4. CASE ~ isOr
      <4>1. r.expr = Literal(TRUE)
        BY <3>1, <3>4
      <4> HIDE DEF r
      <4>2. Sound(r, e, dom)
        BY <3>1, <4>1, ReplacedByTrue
      <4> QED
        BY <4>2 DEF r
    <3> QED
      BY <3>3, <3>4
  <2>6. CASE kept # <<>> /\ OneFullParameter(valid, dom)
    <3>1. r.expr = Literal(TRUE) /\ r.valid = NoLimits
      BY <1>4, <2>6 DEF Combine, Result
    <3> HIDE DEF r
    <3>2. Sound(r, e, dom)
      BY <3>1, ReplacedByTrue
    <3> QED
      BY <3>2 DEF r
  <2>7. CASE kept # <<>> /\ ~ OneFullParameter(valid, dom)
    <3> DEFINE exprs == [i \in DOMAIN kept |-> kept[i].expr]
    <3>1. r.expr = [e EXCEPT !.operands = exprs] /\ r.valid = valid
      BY <1>4, <2>7 DEF Combine, Result
    <3>2. e = [type |-> e.type, operands |-> e.operands]
      BY <1>1 DEF Kinds
    <3>3. r.expr.type = e.type /\ r.expr.operands = exprs
      BY <3>1, <3>2
    <3>4. Operands(r.expr) = exprs
      BY <3>3 DEF Operands
    <3>5. \A f \in limits : IsLimits(f, dom)
      <4>1. \A x \in ToSet(kept) : IsLimits(x.valid, dom)
        BY <2>1, Zenon DEF Sound
      <4>2. \A i \in DOMAIN kept : kept[i] \in ToSet(kept)
        BY DEF ToSet
      <4> QED
        BY <4>1, <4>2
    <3>6. \A x : x \in ToSet(kept) => x.valid \in limits
      BY Zenon DEF ToSet
    <3>7. \A i \in DOMAIN kept : kept[i] \in ToSet(kept) /\ exprs[i] = kept[i].expr
      BY DEF ToSet
    <3>8. DOMAIN exprs = DOMAIN kept
      OBVIOUS
    <3>9. \A x \in ToSet(kept) : \E i \in DOMAIN kept : x = kept[i]
      BY Zenon DEF ToSet
    <3>10. \A f \in limits : \E x \in ToSet(kept) : f = x.valid
      BY <3>7
    <3> HIDE DEF exprs, r, kept, limits
    <3>11. ASSUME NEW t \in TestsOver(dom), Eval(e, t)
           PROVE  Eval(r.expr, t) /\ Admits(r.valid, t)
      <4>1. t \in TestsOver(Dom) /\ r.expr \in Exprs /\ Covers(t, r.expr)
        BY ModelTests, PlainExprs, TestsCover DEF r
      <4>2. CASE isOr
        <5>1. PICK i \in DOMAIN results : results[i] \in ToSet(kept)
                        /\ Eval(results[i].expr, t) /\ Admits(results[i].valid, t)
          BY <2>3, <3>11, <4>2
        <5>2. PICK k \in DOMAIN kept : results[i] = kept[k]
          BY <3>9, <5>1
        <5>3. k \in DOMAIN Operands(r.expr) /\ Eval(Operands(r.expr)[k], t)
          BY <3>4, <3>7, <3>8, <5>1, <5>2
        <5>4. Eval(r.expr, t) = \E j \in DOMAIN Operands(r.expr) : Eval(Operands(r.expr)[j], t)
          <6>1. r.expr.type = "OR"
            BY <3>3, <4>2, Zenon
          <6> QED
            BY <4>1, <6>1, EvalKinds, Zenon
        <5>5. Admits(Join(limits), t)
          BY <3>5, <3>6, <5>1, JoinSound, Zenon
        <5> QED
          BY <3>1, <4>2, <5>3, <5>4, <5>5
      <4>3. CASE ~ isOr
        <5>1. \A x \in ToSet(kept) : Eval(x.expr, t) /\ Admits(x.valid, t)
          BY <2>4, <3>11, <4>3
        <5>2. \A k \in DOMAIN Operands(r.expr) : Eval(Operands(r.expr)[k], t)
          BY <3>4, <3>7, <3>8, <5>1
        <5>3. Eval(r.expr, t) = \A j \in DOMAIN Operands(r.expr) : Eval(Operands(r.expr)[j], t)
          <6>1. r.expr.type = "AND"
            <7>1. e.type = "AND"
              BY <4>3
            <7> QED
              BY <3>3, <7>1, Zenon
          <6> QED
            BY <4>1, <6>1, EvalKinds, Zenon
        <5>4. \A f \in limits : Admits(f, t)
          BY <3>10, <5>1
        <5>5. Admits(Meet(limits), t)
          BY <3>5, <5>4, MeetSound, Zenon
        <5> QED
          BY <3>1, <4>3, <5>2, <5>3, <5>5
      <4> QED
        BY <4>2, <4>3
    <3>12. IsLimits(r.valid, dom)
      <4>1. IsLimits(Join(limits), dom) /\ IsLimits(Meet(limits), dom)
        BY <3>5, JoinSound, MeetSound, Zenon
      <4>2. r.valid = Join(limits) \/ r.valid = Meet(limits)
        BY <3>1, Zenon
      <4> QED
        BY <4>1, <4>2, Zenon
    <3> QED
      BY <3>11, <3>12, Zenon DEF Sound, r
  <2> QED
    BY <2>5, <2>6, <2>7
<1> QED
  BY <1>3, <1>4
LEMMA SimplifiedSound ==
    \A e \in Plain : \A dom \in Domains :
        Simplified(e, dom).expr \in Plain /\ Sound(Simplified(e, dom), e, dom)
<1> DEFINE T == {e \in Plain : \A dom \in Domains : Sound(Simplified(e, dom), e, dom)}
<1>1. ASSUME NEW e \in Plain, \A i \in DOMAIN Operands(e) : Operands(e)[i] \in T
      PROVE  e \in T
  <2>1. SUFFICES ASSUME NEW dom \in Domains
                 PROVE  Sound(Simplified(e, dom), e, dom)
    OBVIOUS
  <2> DEFINE results == [i \in DOMAIN Operands(e) |-> Simplified(Operands(e)[i], dom)]
             r == Simplified(e, dom)
  <2>2. r = SimplifyNode(e, results, dom) /\ r.expr \in Plain
    BY SimplifiedAssumption
  <2>3. Kinds(e, Plain) /\ e.type # "IMPLICATION" /\ Operands(e) \in Seq(Plain)
        /\ \A i \in DOMAIN Operands(e) : Operands(e)[i] \in Plain
    BY PlainKinds, ExprOperands
  <2>4. CASE e.type = "LITERAL"
    <3>1. r.expr = e /\ r.valid = NoLimits
      BY <2>2, <2>4 DEF SimplifyNode, Result
    <3> QED
      BY <3>1, NoLimitsAdmit, Zenon DEF Sound
  <2>5. CASE e.type = "PROP"
    <3>1. r = SimplifyProp(e, dom)
      BY <2>2, <2>5 DEF SimplifyNode
    <3> QED
      BY <2>5, <3>1, PropSound, Zenon
  <2>6. CASE e.type \in {"AND", "OR"}
    <3>1. r = Combine(e, results, dom)
      BY <2>2, <2>6 DEF SimplifyNode
    <3>2. /\ DOMAIN results = DOMAIN Operands(e)
          /\ \A i \in DOMAIN results :
                 results[i].expr \in Plain /\ Sound(results[i], Operands(e)[i], dom)
      BY <1>1, <2>3, SimplifiedAssumption
    <3>3. results \in [DOMAIN Operands(e) -> ToSet(results)]
      BY DEF ToSet
    <3> HIDE DEF results, r
    <3>4. results \in Seq(ToSet(results))
      BY <2>3, <3>3, ResultSeq
    <3>5. Sound(Combine(e, results, dom), e, dom)
      BY <2>2, <2>6, <3>1, <3>2, <3>4, CombineSound
    <3> QED
      BY <3>1, <3>5 DEF r
  <2> QED
    BY <2>3, <2>4, <2>5, <2>6 DEF Kinds
<1>2. Plain \subseteq T
  <2>1. \A e \in Plain : (\A i \in DOMAIN Operands(e) : Operands(e)[i] \in T) => e \in T
    BY <1>1
  <2> HIDE DEF T
  <2> QED
    BY <2>1, PlainInduction
<1> QED
  BY <1>2, SimplifiedAssumption, Zenon

-------------------------------------------------------------------------------
(* The inductive invariant *)

Steps == {"resolve", "flatten", "simplify", "simplified", "partition", "apply", "ready"}

SimplifierTyped ==
    /\ input \in Inputs /\ pc \in Steps
    /\ domain \in Domains
    /\ constraints \in Seq(Exprs)
    /\ pc = "resolve" => constraints = input /\ domain = Dom
    /\ pc # "resolve" => constraints \in Seq(Plain)
    /\ pass.rest \in Seq(Plain) /\ pass.kept \in Seq(Plain)
    /\ IsLimits(pass.valid, domain) /\ ~ NoValueLeft(pass.valid)

\* What is known so far holds of an allowed test.
Retained(t) ==
    /\ t \in TestsOver(domain)
    /\ SatisfiesAll(constraints, t)
    /\ SatisfiesAll(pass.rest, t) /\ SatisfiesAll(pass.kept, t)
    /\ Admits(pass.valid, t)

SimplifierInv ==
    /\ SimplifierTyped
    /\ \A t \in AllowedTests : Retained(t)
-------------------------------------------------------------------------------
(* The simplifier *)

LEMMA SatisfiesElements ==
    ASSUME NEW cs, NEW t
    PROVE  SatisfiesAll(cs, t) <=> \A c \in ToSet(cs) : Eval(c, t)
BY Zenon DEF SatisfiesAll, ToSet

LEMMA SatisfiesParts ==
    ASSUME NEW cs \in Seq(Plain), NEW t
    PROVE  /\ cs # <<>> /\ SatisfiesAll(cs, t) =>
                  Eval(Head(cs), t) /\ SatisfiesAll(Tail(cs), t)
           /\ \A e \in Plain : SatisfiesAll(cs, t) /\ Eval(e, t) => SatisfiesAll(Append(cs, e), t)
<1>1. ASSUME cs # <<>>, SatisfiesAll(cs, t)
      PROVE  Eval(Head(cs), t) /\ SatisfiesAll(Tail(cs), t)
  <2>1. Head(cs) = cs[1] /\ 1 \in DOMAIN cs
    BY <1>1, LenProperties, EmptySeq
  <2>2. \A i \in DOMAIN Tail(cs) : i + 1 \in DOMAIN cs /\ Tail(cs)[i] = cs[i + 1]
    BY <1>1, LenProperties
  <2> QED
    BY <1>1, <2>1, <2>2, Zenon DEF SatisfiesAll
<1>2. ASSUME NEW e \in Plain, SatisfiesAll(cs, t), Eval(e, t)
      PROVE  SatisfiesAll(Append(cs, e), t)
  <2>1. \A i \in DOMAIN Append(cs, e) :
            Append(cs, e)[i] = e \/ (i \in DOMAIN cs /\ Append(cs, e)[i] = cs[i])
    BY LenProperties, AppendProperties
  <2> QED
    BY <1>2, <2>1, Zenon DEF SatisfiesAll
<1> QED
  BY <1>1, <1>2

LEMMA AllowedUnchanged ==
    ASSUME input' = input
    PROVE  AllowedTests' = AllowedTests /\ AllowedTests \subseteq TestsOver(Dom)
BY DEF AllowedTests, SatisfiesAll

LEMMA SimplifierStart ==
    ASSUME SimplifierInit
    PROVE  SimplifierInv
<1>1. Dom \in Domains
  BY ParamsAssumption DEF Domains
<1>2. /\ input \in Inputs /\ pc = "resolve" /\ constraints = input /\ domain = Dom
      /\ pass.rest = <<>> /\ pass.kept = <<>> /\ pass.valid = NoLimits
  BY DEF SimplifierInit, FirstPass
<1>3. constraints \in Seq(Exprs)
  BY <1>2, ExpressionsAssumption
<1>4. SimplifierTyped
  BY <1>1, <1>2, <1>3, NoLimitsAdmit DEF SimplifierTyped, Steps
<1>5. ASSUME NEW t \in AllowedTests
      PROVE  Retained(t)
  BY <1>2, NoLimitsAdmit DEF AllowedTests, Retained, SatisfiesAll
<1> QED
  BY <1>4, <1>5 DEF SimplifierInv

LEMMA SimplifierKeeps ==
    ASSUME SimplifierInv, UNCHANGED <<input, constraints, domain, pass>>,
           pc # "resolve", pc' \in Steps \ {"resolve"}
    PROVE  SimplifierInv'
<1>1. SimplifierTyped'
  BY DEF SimplifierInv, SimplifierTyped, IsLimits, NoValueLeft
<1>2. ASSUME NEW t \in AllowedTests'
      PROVE  Retained(t)'
  <2>1. t \in AllowedTests
    BY AllowedUnchanged
  <2> QED
    BY <2>1 DEF SimplifierInv, Retained, SatisfiesAll, Admits
<1> QED
  BY <1>1, <1>2 DEF SimplifierInv

LEMMA SimplifierResolves ==
    ASSUME SimplifierInv, ResolveImplications
    PROVE  SimplifierInv'
<1>1. /\ pc = "resolve" /\ pc' = "flatten" /\ UNCHANGED <<input, domain, pass>>
      /\ constraints' = [i \in DOMAIN constraints |-> Resolve(constraints[i], FALSE)]
  BY DEF ResolveImplications
<1>2. constraints \in Seq(Exprs) /\ \A i \in DOMAIN constraints : constraints[i] \in Exprs
  BY LenProperties, ElementOfSeq DEF SimplifierInv, SimplifierTyped
<1>3. constraints' \in [DOMAIN constraints -> Plain]
  BY <1>1, <1>2, ResolveAssumption
<1>4. constraints' \in Seq(Plain) /\ constraints' \in Seq(Exprs)
  BY <1>2, <1>3, ResultSeq, PlainExprs
<1>5. SimplifierTyped'
  BY <1>1, <1>4 DEF SimplifierInv, SimplifierTyped, IsLimits, NoValueLeft, Steps
<1>6. ASSUME NEW t \in AllowedTests'
      PROVE  Retained(t)'
  <2>1. t \in AllowedTests /\ t \in TestsOver(Dom)
    BY <1>1, AllowedUnchanged
  <2>2. Retained(t)
    BY <2>1 DEF SimplifierInv
  <2>3. SatisfiesAll(constraints', t)
    <3>1. \A i \in DOMAIN constraints : Eval(constraints[i], t)
      BY <2>2, Zenon DEF Retained, SatisfiesAll
    <3>2. \A i \in DOMAIN constraints' : i \in DOMAIN constraints
                                         /\ constraints'[i] = Resolve(constraints[i], FALSE)
      BY <1>1
    <3>3. \A i \in DOMAIN constraints :
              Eval(Resolve(constraints[i], FALSE), t) = Eval(constraints[i], t)
      BY <1>2, <2>1, ResolveKeeps
    <3> QED
      BY <3>1, <3>2, <3>3, Zenon DEF SatisfiesAll
  <2> QED
    BY <1>1, <2>2, <2>3 DEF Retained, SatisfiesAll, Admits
<1> QED
  BY <1>5, <1>6 DEF SimplifierInv

LEMMA SimplifierFlattens ==
    ASSUME SimplifierInv, FlattenConstraints
    PROVE  SimplifierInv'
<1> DEFINE parts == [i \in DOMAIN constraints |-> Unnested(Flat(constraints[i]), "AND")]
<1>1. /\ pc = "flatten" /\ pc' = "simplify" /\ UNCHANGED <<input, domain>>
      /\ constraints' = FlattenSeq(parts)
      /\ pass' = [FirstPass EXCEPT !.rest = constraints']
  BY DEF FlattenConstraints, Unnested
<1>2. constraints \in Seq(Plain) /\ \A i \in DOMAIN constraints : constraints[i] \in Plain
  BY <1>1, LenProperties, ElementOfSeq DEF SimplifierInv, SimplifierTyped
<1>3. \A e \in Plain : Unnested(e, "AND") \in Seq(Plain)
  <2> TAKE e \in Plain
  <2>1. CASE e.type = "AND"
    BY <2>1, PlainKinds DEF Unnested, Kinds
  <2>2. CASE e.type # "AND"
    BY <2>2 DEF Unnested
  <2> QED
    BY <2>1, <2>2
<1>4. /\ DOMAIN parts = DOMAIN constraints
      /\ \A i \in DOMAIN constraints : parts[i] = Unnested(Flat(constraints[i]), "AND")
      /\ parts \in [DOMAIN constraints -> Seq(Plain)]
  BY <1>2, <1>3, FlatKeeps
<1> HIDE DEF parts
<1>5. parts \in Seq(Seq(Plain))
  BY <1>2, <1>4, ResultSeq
<1>6. /\ constraints' \in Seq(Plain)
      /\ \A x : x \in ToSet(constraints') <=> \E i \in DOMAIN parts : x \in ToSet(parts[i])
  BY <1>1, <1>5, Flattened, Zenon
<1>7. pass'.rest = constraints' /\ pass'.kept = <<>> /\ pass'.valid = NoLimits
  BY <1>1 DEF FirstPass
<1>8. SimplifierTyped'
  <2>1. constraints' \in Seq(Exprs)
    BY <1>6, PlainExprs
  <2>2. IsLimits(NoLimits, domain') /\ ~ NoValueLeft(NoLimits)
    BY NoLimitsAdmit
  <2>3. IsLimits(pass'.valid, domain') /\ ~ NoValueLeft(pass'.valid)
    BY <1>7, <2>2, Zenon
  <2>4. pass'.rest \in Seq(Plain) /\ pass'.kept \in Seq(Plain)
    BY <1>6, <1>7
  <2>5. pc' \in Steps /\ pc' # "resolve"
    BY <1>1 DEF Steps
  <2> QED
    BY <1>1, <1>6, <2>1, <2>3, <2>4, <2>5, Zenon DEF SimplifierInv, SimplifierTyped
<1>9. ASSUME NEW t \in AllowedTests'
       PROVE  Retained(t)'
  <2>1. t \in AllowedTests /\ t \in TestsOver(Dom)
    BY <1>1, AllowedUnchanged
  <2>2. Retained(t)
    BY <2>1 DEF SimplifierInv
  <2>3. ASSUME NEW i \in DOMAIN constraints, NEW x \in ToSet(parts[i])
        PROVE  Eval(x, t)
    <3>1. Eval(constraints[i], t)
      BY <2>2, Zenon DEF Retained, SatisfiesAll
    <3>2. Flat(constraints[i]) \in Plain /\ Eval(Flat(constraints[i]), t)
      BY <1>2, <2>1, <3>1, FlatKeeps
    <3>3. Eval(Flat(constraints[i]), t) =
          \A o \in ToSet(Unnested(Flat(constraints[i]), "AND")) : Eval(o, t)
      BY <2>1, <3>2, UnnestedSays
    <3> QED
      BY <1>4, <2>3, <3>2, <3>3
  <2>4. SatisfiesAll(constraints', t)
    BY <1>4, <1>6, <2>3, SatisfiesElements, Zenon
  <2>5. SatisfiesAll(pass'.kept, t) /\ Admits(pass'.valid, t)
    BY <1>7, NoLimitsAdmit DEF SatisfiesAll
  <2> QED
    BY <1>1, <1>7, <2>2, <2>4, <2>5 DEF Retained, SatisfiesAll, Admits
<1> QED
  BY <1>8, <1>9 DEF SimplifierInv
LEMMA SimplifierSimplifies ==
    ASSUME SimplifierInv, SimplifyConstraint
    PROVE  SimplifierInv'
<1> DEFINE e == Head(pass.rest)
           r == Simplified(e, domain)
           isLiteral == r.expr.type = "LITERAL"
           valid == IF isLiteral THEN pass.valid ELSE Meet({pass.valid, r.valid})
           fails == IsLiteral(r.expr, FALSE) \/ NoValueLeft(valid)
<1>1. /\ pc = "simplify" /\ pass.rest # <<>> /\ UNCHANGED <<input, domain>>
      /\ fails => /\ constraints' = <<Literal(FALSE)>> /\ pc' = "simplified"
                  /\ pass' = FirstPass
      /\ ~fails => /\ pass' = [rest |-> Tail(pass.rest),
                               kept |-> IF isLiteral THEN pass.kept
                                        ELSE Append(pass.kept, r.expr),
                               valid |-> valid, did |-> pass.did \/ r.did]
                   /\ UNCHANGED <<pc, constraints>>
  BY DEF SimplifyConstraint
<1>2. /\ domain \in Domains /\ constraints \in Seq(Plain) /\ constraints \in Seq(Exprs)
      /\ pass.rest \in Seq(Plain) /\ pass.kept \in Seq(Plain) /\ input \in Inputs
      /\ IsLimits(pass.valid, domain) /\ ~ NoValueLeft(pass.valid)
  BY <1>1 DEF SimplifierInv, SimplifierTyped
<1>3. e \in Plain /\ Tail(pass.rest) \in Seq(Plain)
  BY <1>1, <1>2
<1>4. r.expr \in Plain /\ Sound(r, e, domain)
  BY <1>2, <1>3, SimplifiedSound
<1> HIDE DEF r
<1>5. IsLimits(r.valid, domain)
  BY <1>4 DEF Sound
<1>6. \A f \in {pass.valid, r.valid} : IsLimits(f, domain)
  BY <1>2, <1>5
<1>7. IsLimits(valid, domain)
  <2>1. IsLimits(Meet({pass.valid, r.valid}), domain)
    BY <1>2, <1>6, MeetSound
  <2> QED
    BY <1>2, <2>1
<1>8. ASSUME NEW t \in AllowedTests
      PROVE  /\ Retained(t) /\ t \in TestsOver(Dom)
             /\ Eval(r.expr, t) /\ Admits(valid, t) /\ SatisfiesAll(Tail(pass.rest), t)
  <2>1. Retained(t) /\ t \in TestsOver(domain)
    BY DEF SimplifierInv, Retained
  <2>2. Eval(e, t) /\ SatisfiesAll(Tail(pass.rest), t)
    BY <1>1, <1>2, <2>1, SatisfiesParts DEF Retained
  <2>3. Eval(r.expr, t) /\ Admits(r.valid, t)
    BY <1>4, <2>1, <2>2, Zenon DEF Sound
  <2>4. \A f \in {pass.valid, r.valid} : Admits(f, t)
    BY <2>1, <2>3 DEF Retained
  <2>5. Admits(Meet({pass.valid, r.valid}), t)
    BY <1>2, <1>6, <2>1, <2>4, MeetSound
  <2>6. Admits(valid, t)
    BY <2>1, <2>5 DEF Retained
  <2> QED
    BY <1>2, <2>1, <2>2, <2>3, <2>6, ModelTests
<1> HIDE DEF valid, isLiteral
<1>9. CASE fails
  <2>1. ASSUME NEW t \in AllowedTests'
        PROVE  FALSE
    <3>1. t \in AllowedTests
      BY <1>1, AllowedUnchanged
    <3>2. r.expr \in Exprs /\ Covers(t, r.expr)
      BY <1>4, <1>8, <3>1, PlainExprs, TestsCover
    <3>3. ~ IsLiteral(r.expr, FALSE)
      BY <1>8, <3>1, <3>2, EvalKinds DEF IsLiteral
    <3>4. ~ NoValueLeft(valid)
      BY <1>8, <3>1 DEF NoValueLeft, Admits
    <3> QED
      BY <1>9, <3>3, <3>4
  <2>2. constraints' = <<Literal(FALSE)>> /\ pc' = "simplified" /\ pass' = FirstPass
    BY <1>1, <1>9, Zenon
  <2>3. constraints' \in Seq(Plain) /\ constraints' \in Seq(Exprs)
    <3>1. Literal(FALSE) \in Plain /\ Literal(FALSE) \in Exprs
      BY PlainExprs
    <3>2. \A S : \A x \in S : <<x>> \in Seq(S)
      OBVIOUS
    <3> QED
      BY <2>2, <3>1, <3>2, Zenon
  <2>4. pass'.rest = <<>> /\ pass'.kept = <<>> /\ pass'.valid = NoLimits
    BY <2>2 DEF FirstPass
  <2>5. IsLimits(pass'.valid, domain') /\ ~ NoValueLeft(pass'.valid)
    BY <2>4, NoLimitsAdmit
  <2>6. pc' \in Steps /\ pc' # "resolve" /\ pass'.rest \in Seq(Plain) /\ pass'.kept \in Seq(Plain)
    <3>1. <<>> \in Seq(Plain)
      OBVIOUS
    <3> QED
      BY <2>4, <2>2, <3>1 DEF Steps
  <2>7. SimplifierTyped'
    BY <1>1, <1>2, <2>3, <2>5, <2>6, Zenon DEF SimplifierTyped
  <2> QED
    BY <2>1, <2>7 DEF SimplifierInv
<1>10. CASE ~ fails
  <2>1. /\ UNCHANGED <<pc, constraints>>
        /\ pass'.rest = Tail(pass.rest) /\ pass'.valid = valid
        /\ pass'.kept = IF isLiteral THEN pass.kept ELSE Append(pass.kept, r.expr)
    BY <1>1, <1>10
  <2>2. pass'.kept \in Seq(Plain)
    BY <1>2, <1>4, <2>1
  <2>3. ~ NoValueLeft(valid)
    BY <1>10
  <2>4. SimplifierTyped'
    BY <1>1, <1>2, <1>3, <1>7, <2>1, <2>2, <2>3 DEF SimplifierTyped, Steps
  <2>5. ASSUME NEW t \in AllowedTests'
        PROVE  Retained(t)'
    <3>1. t \in AllowedTests
      BY <1>1, AllowedUnchanged
    <3>2. SatisfiesAll(Append(pass.kept, r.expr), t)
      BY <1>2, <1>4, <1>8, <3>1, SatisfiesParts DEF Retained
    <3>3. SatisfiesAll(pass'.kept, t)
      BY <1>8, <2>1, <3>1, <3>2 DEF Retained
    <3>4. SatisfiesAll(pass'.rest, t) /\ Admits(pass'.valid, t)
      BY <1>8, <2>1, <3>1
    <3> QED
      BY <1>1, <1>8, <2>1, <3>1, <3>3, <3>4 DEF Retained, SatisfiesAll, Admits
  <2> QED
    BY <2>4, <2>5 DEF SimplifierInv
<1> QED
  BY <1>9, <1>10

LEMMA SimplifierEndsPass ==
    ASSUME SimplifierInv, EndPass
    PROVE  SimplifierInv'
<1>1. /\ pc = "simplify" /\ constraints' = pass.kept /\ UNCHANGED input
      /\ domain' = [p \in Params |-> Remaining(pass.valid, p)]
      /\ \/ pass' = NextPass /\ UNCHANGED pc
         \/ pass' = FirstPass /\ pc' = "simplified"
  BY DEF EndPass
<1>2. /\ domain \in Domains /\ input \in Inputs
      /\ pass.rest \in Seq(Plain) /\ pass.kept \in Seq(Plain)
      /\ IsLimits(pass.valid, domain) /\ ~ NoValueLeft(pass.valid)
  BY <1>1 DEF SimplifierInv, SimplifierTyped
<1>3. \A p \in Params : /\ domain'[p] \subseteq domain[p]
                        /\ p \in DOMAIN pass.valid => domain'[p] = pass.valid[p]
                        /\ p \notin DOMAIN pass.valid => domain'[p] = domain[p]
  BY <1>1, <1>2 DEF Remaining, IsLimits
<1>4. domain' \in Domains
  <2>1. \A p \in Params : domain[p] \subseteq Dom[p] /\ domain[p] # {}
    BY <1>2 DEF Domains
  <2>2. \A p \in Params : domain'[p] \subseteq Dom[p] /\ domain'[p] # {}
    BY <1>2, <1>3, <2>1 DEF NoValueLeft
  <2>3. \A p \in Params : domain'[p] \subseteq UNION {Dom[q] : q \in Params}
    BY <2>2
  <2>4. domain' = [p \in Params |-> domain'[p]]
    BY <1>1
  <2>5. domain' \in [Params -> SUBSET UNION {Dom[q] : q \in Params}]
    BY <2>3, <2>4
  <2> QED
    BY <2>2, <2>5 DEF Domains
<1>5. /\ pass'.rest \in {<<>>, pass.kept} /\ pass'.kept = <<>> /\ pass'.valid = NoLimits
  BY <1>1 DEF NextPass, FirstPass
<1>6. IsLimits(pass'.valid, domain') /\ ~ NoValueLeft(pass'.valid)
  BY <1>5, NoLimitsAdmit
<1>7. constraints' \in Seq(Plain) /\ constraints' \in Seq(Exprs)
      /\ pass'.rest \in Seq(Plain) /\ pass'.kept \in Seq(Plain)
  <2>1. <<>> \in Seq(Plain) /\ pass.kept \in Seq(Exprs)
    BY <1>2, PlainExprs
  <2> QED
    BY <1>1, <1>2, <1>5, <2>1, Zenon
<1>8. pc' \in Steps /\ pc' # "resolve"
  BY <1>1 DEF Steps
<1>9. SimplifierTyped'
  BY <1>1, <1>2, <1>4, <1>6, <1>7, <1>8, Zenon DEF SimplifierTyped
<1>10. ASSUME NEW t \in AllowedTests'
       PROVE  Retained(t)'
  <2>1. t \in AllowedTests
    BY <1>1, AllowedUnchanged
  <2>2. t \in TestsOver(domain) /\ SatisfiesAll(pass.kept, t) /\ Admits(pass.valid, t)
    BY <2>1 DEF SimplifierInv, Retained
  <2>3. t = [p \in Params |-> t[p]] /\ \A p \in Params : t[p] \in domain[p]
    BY <2>2, AssignmentFunction, AssignedValues DEF TestsOver
  <2>4. \A p \in Params : t[p] \in domain'[p]
    BY <1>3, <2>2, <2>3 DEF Admits
  <2>5. t \in TestsOver(domain')
    BY <2>3, <2>4, AssignmentFrom, Zenon DEF TestsOver
  <2>6. SatisfiesAll(pass'.rest, t) /\ SatisfiesAll(pass'.kept, t) /\ Admits(pass'.valid, t)
    BY <1>5, <2>2, NoLimitsAdmit DEF SatisfiesAll
  <2> QED
    BY <1>1, <2>2, <2>5, <2>6 DEF Retained, SatisfiesAll, Admits
<1> QED
  BY <1>9, <1>10 DEF SimplifierInv
LEMMA SimplifierInductive ==
    ASSUME SimplifierInv, [Next]_vars
    PROVE  SimplifierInv'
<1>1. CASE Simplify
  BY <1>1, SimplifierResolves, SimplifierFlattens, SimplifierSimplifies, SimplifierEndsPass
     DEF Simplify
<1>2. CASE SetUp
  <2>1. /\ UNCHANGED <<input, constraints, domain, pass>>
        /\ pc # "resolve" /\ pc' \in Steps \ {"resolve"}
    BY <1>2 DEF SetUp, CreateHandler, StartPartition, VisitParameter, CreateComponent,
                EndComponents, ApplyConstraint, simplifierVars, Steps
  <2> QED
    BY <2>1, SimplifierKeeps
<1>3. CASE UNCHANGED vars
  <2>1. UNCHANGED <<input, pc, constraints, domain, pass>>
    BY <1>3 DEF vars, simplifierVars
  <2>2. SimplifierTyped'
    BY <2>1 DEF SimplifierInv, SimplifierTyped
  <2>3. ASSUME NEW t \in AllowedTests'
        PROVE  Retained(t)'
    <3>1. t \in AllowedTests
      BY <2>1, AllowedUnchanged
    <3> QED
      BY <2>1, <3>1 DEF SimplifierInv, Retained, SatisfiesAll, Admits
  <2> QED
    BY <2>2, <2>3 DEF SimplifierInv
<1> QED
  BY <1>1, <1>2, <1>3 DEF Next, Terminated

THEOREM SimplifierInvariant == Spec => []SimplifierInv
<1>1. Init => SimplifierInv
  BY SimplifierStart DEF Init
<1>2. SimplifierInv /\ [Next]_vars => SimplifierInv'
  BY SimplifierInductive
<1> QED
  BY <1>1, <1>2, PTL DEF Spec

\* No step of simplify_model excludes a test that the client's model allows.
THEOREM AllowedTestsRetained == Spec => []NoAllowedTestLost
<1>1. SimplifierInv => NoAllowedTestLost
  <2>1. ASSUME SimplifierInv, NEW t \in AllowedTests
        PROVE  t \in TestsOver(domain) /\ SatisfiesAll(constraints, t)
    BY <2>1 DEF SimplifierInv, Retained
  <2> QED
    BY <2>1, Zenon DEF NoAllowedTestLost, TestsNow
<1> QED
  BY <1>1, SimplifierInvariant, PTL
Nothing == pc \in {"resolve", "flatten", "simplify", "simplified"} =>
    /\ visited = {} /\ queue = <<>> /\ part = {} /\ partitions = <<>>
    /\ created = 0

Placed == UNION {partitions[k] : k \in DOMAIN partitions}

\* The parameters that are in no partition yet, but reached.
Reached == part \cup ToSet(queue)

PartitionTyped ==
    /\ Nothing
    /\ pc = "partition" => ToSet(order) \subseteq Params
    /\ queue \in Seq(Params) /\ part \subseteq Params
    /\ partitions \in Seq(SUBSET Params)
    /\ visited = Placed \cup Reached
    /\ queue = <<>> => part = {}

\* A partition has all the neighbours of its parameters.
PartitionsClosed ==
    /\ Placed \cap Reached = {}
    /\ \A k, l \in DOMAIN partitions : k # l => partitions[k] \cap partitions[l] = {}
    /\ \A k \in DOMAIN partitions : \A p \in partitions[k] : Adjacent(p) \subseteq partitions[k]
    /\ \A p \in part : Adjacent(p) \subseteq Reached

AllPlaced == queue = <<>> /\ visited = Params

PartitionInv ==
    /\ PartitionTyped
    /\ PartitionsClosed
    /\ created \in 0 .. Len(partitions)
    /\ created > 0 => AllPlaced
    /\ pc = "apply" => AllPlaced /\ created = Len(partitions)
    /\ pc = "ready" => \/ constraints = <<>> /\ created = 0
                       \/ AllPlaced /\ created = Len(partitions)

\* The variables of component i, for a parameter belongs to one component only.
VariablesOf(i) == {p \in ConstrainedParams : componentOf[p] = i}

Component ==
    [variables : SUBSET Params,
     idd : SUBSET UNION {AssignmentsOver(S, Dom) : S \in SUBSET Params}]

ComponentsTyped ==
    /\ components \in Seq(Component)
    /\ componentOf \in [Params -> 0 .. Len(components)]
    /\ applied \in 0 .. Len(constraints)
    /\ pc \notin {"apply", "ready"} => applied = 0
    /\ created = 0 => components = <<>>
    /\ pc = "ready" => applied = Len(constraints)

\* Which component a parameter belongs to.
ComponentsPlaced ==
    /\ \A k \in 1 .. created : \A p, q \in partitions[k] : componentOf[p] = componentOf[q]
    /\ \A k \in 1 .. created : \A p \in partitions[k] \cap ConstrainedParams :
           componentOf[p] # NoComponent
    /\ \A p \in Params : componentOf[p] # NoComponent =>
           \E k \in 1 .. created : p \in partitions[k]

\* A diagram has the assignments that satisfy what was put into its component.
Satisfying(i) ==
    {a \in AssignmentsOf(VariablesOf(i)) :
        \A k \in 1 .. applied : i \in Targets(constraints[k]) => Eval(constraints[k], a)}

ComponentsExact ==
    \A i \in DOMAIN components :
        components[i] = [variables |-> VariablesOf(i), idd |-> Satisfying(i)]

ComponentsInv == ComponentsTyped /\ ComponentsPlaced /\ ComponentsExact

IInv == SimplifierInv /\ PartitionInv /\ ComponentsInv /\ listing \in JobListings
-------------------------------------------------------------------------------
(* The partitions *)

LEMMA QueueElements ==
    ASSUME NEW S, NEW q \in Seq(S), q # <<>>
    PROVE  /\ Tail(q) \in Seq(S) /\ Head(q) \in S
           /\ ToSet(q) = {Head(q)} \cup ToSet(Tail(q))
<1>1. Head(q) = q[1] /\ 1 \in DOMAIN q /\ Tail(q) \in Seq(S) /\ Head(q) \in S
  BY LenProperties, EmptySeq, ElementOfSeq
<1>2. \A i \in DOMAIN q : i # 1 => i - 1 \in DOMAIN Tail(q) /\ q[i] = Tail(q)[i - 1]
  BY LenProperties
<1>3. \A i \in DOMAIN Tail(q) : i + 1 \in DOMAIN q /\ Tail(q)[i] = q[i + 1]
  BY LenProperties
<1>4. ASSUME NEW x \in ToSet(q)
      PROVE  x \in {Head(q)} \cup ToSet(Tail(q))
  <2>1. PICK i \in DOMAIN q : x = q[i]
    BY <1>4, Zenon DEF ToSet
  <2>2. CASE i = 1
    BY <1>1, <2>1, <2>2
  <2>3. CASE i # 1
    BY <1>2, <2>1, <2>3, Zenon DEF ToSet
  <2> QED
    BY <2>2, <2>3
<1>5. ASSUME NEW x \in {Head(q)} \cup ToSet(Tail(q))
      PROVE  x \in ToSet(q)
  <2>1. CASE x = Head(q)
    BY <1>1, <2>1, Zenon DEF ToSet
  <2>2. CASE x # Head(q)
    <3>1. PICK i \in DOMAIN Tail(q) : x = Tail(q)[i]
      BY <1>5, <2>2, Zenon DEF ToSet
    <3> QED
      BY <1>3, <3>1, Zenon DEF ToSet
  <2> QED
    BY <2>1, <2>2
<1> QED
  BY <1>4, <1>5, <1>1

LEMMA AscendingElements ==
    ASSUME NEW S \in SUBSET Params, NEW s \in Ascending(S)
    PROVE  s \in Seq(Params) /\ ToSet(s) = S
<1>1. Cardinality(S) \in Nat
  BY ParamsAssumption, FS_Subset, FS_CardinalityType
<1>2. s \in [1 .. Cardinality(S) -> S] /\ ToSet(s) = S
  BY DEF Ascending
<1>3. s \in Seq(S)
  BY <1>1, <1>2, IsASeq
<1> QED
  BY <1>2, <1>3

LEMMA EmptyElements == ToSet(<<>>) = {}
BY DEF ToSet

LEMMA AppendedElements ==
    ASSUME NEW S, NEW s \in Seq(S), NEW x \in S
    PROVE  /\ Append(s, x) \in Seq(S) /\ Len(Append(s, x)) = Len(s) + 1
           /\ DOMAIN s = 1 .. Len(s) /\ DOMAIN Append(s, x) = 1 .. Len(s) + 1
           /\ Len(s) \in Nat
           /\ \A i \in DOMAIN s : Append(s, x)[i] = s[i]
           /\ Append(s, x)[Len(s) + 1] = x
BY AppendProperties, LenProperties

LEMMA AdjacentBoth ==
    ASSUME NEW p \in Params, NEW q \in Adjacent(p)
    PROVE  q \in Params /\ p \in Adjacent(q)
BY DEF Adjacent

LEMMA AdjacentUnchanged ==
    ASSUME constraints' = constraints
    PROVE  \A p : Adjacent(p)' = Adjacent(p)
BY DEF Adjacent

\* Before the construction of the handler there are no partitions.
LEMMA NothingPlaced ==
    ASSUME PartitionInv, pc \in {"resolve", "flatten", "simplify", "simplified"},
           UNCHANGED <<visited, queue, part, partitions, created>>,
           \/ pc' \in {"resolve", "flatten", "simplify", "simplified"}
           \/ pc' = "partition" /\ ToSet(order') \subseteq Params
           \/ pc' = "ready" /\ constraints' = <<>>
    PROVE  PartitionInv'
<1>1. visited = {} /\ queue = <<>> /\ part = {} /\ partitions = <<>> /\ created = 0
  BY DEF PartitionInv, PartitionTyped, Nothing
<1>2. visited' = {} /\ queue' = <<>> /\ part' = {} /\ partitions' = <<>> /\ created' = 0
  BY <1>1
<1>3. Placed' = {} /\ Reached' = {}
  BY <1>2, EmptyElements DEF Placed, Reached
<1>4. PartitionTyped'
  <2>1. Nothing'
    BY <1>2 DEF Nothing
  <2>2. <<>> \in Seq(Params) /\ <<>> \in Seq(SUBSET Params)
    OBVIOUS
  <2> QED
    BY <1>2, <1>3, <2>1, <2>2 DEF PartitionTyped
<1>5. PartitionsClosed'
  BY <1>2, <1>3 DEF PartitionsClosed
<1>6. created' \in 0 .. Len(partitions')
  BY <1>2
<1> QED
  BY <1>2, <1>4, <1>5, <1>6 DEF PartitionInv

\* Once there are partitions, they stay.
LEMMA PartitionsStay ==
    ASSUME PartitionInv, UNCHANGED <<constraints, order, visited, queue, part, partitions>>,
           created' \in 0 .. Len(partitions),
           pc \in {"partition", "apply"}, pc' \in {"partition", "apply", "ready"},
           pc' = "partition" => pc = "partition",
           created' > 0 => AllPlaced,
           pc' \in {"apply", "ready"} => AllPlaced /\ created' = Len(partitions)
    PROVE  PartitionInv'
<1>1. AllPlaced' = AllPlaced /\ Placed' = Placed /\ Reached' = Reached
  BY DEF AllPlaced, Placed, Reached
<1>2. PartitionTyped'
  BY <1>1 DEF PartitionInv, PartitionTyped, Nothing
<1>3. PartitionsClosed'
  BY <1>1, AdjacentUnchanged DEF PartitionInv, PartitionsClosed
<1> QED
  BY <1>1, <1>2, <1>3 DEF PartitionInv

LEMMA PartitionStarts ==
    ASSUME PartitionInv, StartPartition
    PROVE  PartitionInv'
<1>1. /\ pc = "partition" /\ queue = <<>>
      /\ UNCHANGED <<pc, constraints, order, part, partitions, created>>
  BY DEF StartPartition, simplifierVars
<1>2. PICK i \in DOMAIN order :
          order[i] \notin visited /\ queue' = <<order[i]>> /\ visited' = visited \cup {order[i]}
  BY DEF StartPartition
<1> DEFINE p == order[i]
<1>3. p \in Params
  <2>1. order[i] \in ToSet(order)
    BY Zenon DEF ToSet
  <2> QED
    BY <1>1, <2>1 DEF PartitionInv, PartitionTyped
<1>4. created = 0 /\ created' = 0
  BY <1>1, <1>2, <1>3 DEF PartitionInv, AllPlaced
<1>5. part = {} /\ part' = {}
  BY <1>1 DEF PartitionInv, PartitionTyped
<1>6. ToSet(queue') = {p} /\ queue' \in Seq(Params) /\ queue' # <<>>
  BY <1>2, <1>3 DEF ToSet
<1>7. Reached = {} /\ Reached' = {p} /\ Placed' = Placed
  BY <1>1, <1>5, <1>6, EmptyElements DEF Reached, Placed
<1>8. PartitionTyped'
  BY <1>1, <1>2, <1>4, <1>5, <1>6, <1>7 DEF PartitionInv, PartitionTyped, Nothing
<1>9. PartitionsClosed'
  <2>1. p \notin Placed
    BY <1>2 DEF PartitionInv, PartitionTyped
  <2> QED
    BY <1>1, <1>5, <1>7, <2>1, AdjacentUnchanged DEF PartitionInv, PartitionsClosed
<1>10. created' \in 0 .. Len(partitions')
  BY <1>1 DEF PartitionInv
<1> QED
  BY <1>1, <1>4, <1>8, <1>9, <1>10 DEF PartitionInv
LEMMA PartitionVisits ==
    ASSUME PartitionInv, VisitParameter
    PROVE  PartitionInv'
<1> DEFINE h == Head(queue)
           new == Adjacent(h) \ visited
           found == part \cup {h}
<1>1. /\ pc = "partition" /\ queue # <<>>
      /\ UNCHANGED <<pc, constraints, order, created>>
      /\ visited' = visited \cup new
      /\ \/ queue' = <<>> /\ part' = {} /\ partitions' = Append(partitions, found)
         \/ queue' # <<>> /\ part' = found /\ partitions' = partitions
  BY DEF VisitParameter, simplifierVars
<1>2. PICK s \in Ascending(new) : queue' = Tail(queue) \o s
  BY DEF VisitParameter
<1>3. /\ queue \in Seq(Params) /\ part \subseteq Params /\ partitions \in Seq(SUBSET Params)
      /\ visited = Placed \cup Reached /\ PartitionsClosed
  BY DEF PartitionInv, PartitionTyped
<1>4. h \in Params /\ Tail(queue) \in Seq(Params)
      /\ ToSet(queue) = {h} \cup ToSet(Tail(queue))
  BY <1>1, <1>3, QueueElements
<1>5. new \subseteq Params
  BY DEF Adjacent
<1>6. s \in Seq(Params) /\ ToSet(s) = new
  BY <1>2, <1>5, AscendingElements
<1>7. queue' \in Seq(Params) /\ ToSet(queue') = ToSet(Tail(queue)) \cup new
  <2>1. queue' \in Seq(Params)
    BY <1>2, <1>4, <1>6, ConcatProperties
  <2>2. \A x : x \in ToSet(queue') <=> x \in ToSet(Tail(queue)) \/ x \in ToSet(s)
    BY <1>2, <1>4, <1>6, ConcatElements
  <2> QED
    BY <1>6, <2>1, <2>2
<1>8. found \cup ToSet(queue') = Reached \cup new
  BY <1>4, <1>7 DEF Reached
<1>9. new \cap Placed = {} /\ Placed \cap Reached = {} /\ h \in Reached
  BY <1>3, <1>4 DEF PartitionsClosed, Reached
<1>10. \A p \in found : Adjacent(p) \subseteq Reached \cup new
  <2>1. \A p \in part : Adjacent(p) \subseteq Reached
    BY <1>3 DEF PartitionsClosed
  <2>2. ASSUME NEW q \in Adjacent(h), q \in Placed
        PROVE  FALSE
    <3>1. PICK k \in DOMAIN partitions : q \in partitions[k]
      BY <2>2 DEF Placed
    <3>2. h \in Adjacent(q)
      BY <1>4, AdjacentBoth
    <3>3. h \in partitions[k]
      BY <1>3, <3>1, <3>2 DEF PartitionsClosed
    <3> QED
      BY <1>9, <3>3 DEF Placed
  <2>3. \A q \in Adjacent(h) : q \in Reached \cup new
    BY <1>3, <2>2
  <2> QED
    BY <2>1, <2>3
<1>11. created = 0 /\ created' = 0
  BY <1>1 DEF PartitionInv, AllPlaced
<1>12. \A p : Adjacent(p)' = Adjacent(p)
  BY <1>1, AdjacentUnchanged
<1>13. found \subseteq Params
  BY <1>3, <1>4
<1>14. CASE queue' = <<>>
  <2>1. part' = {} /\ partitions' = Append(partitions, found)
    BY <1>1, <1>14
  <2> DEFINE n == Len(partitions)
  <2>2. /\ partitions' \in Seq(SUBSET Params) /\ Len(partitions') = n + 1 /\ n \in Nat
        /\ DOMAIN partitions = 1 .. n /\ DOMAIN partitions' = 1 .. n + 1
        /\ \A k \in DOMAIN partitions : partitions'[k] = partitions[k]
        /\ partitions'[n + 1] = found
    BY <1>3, <1>13, <2>1, AppendedElements
  <2> HIDE DEF n
  <2>3. /\ DOMAIN partitions \subseteq DOMAIN partitions' /\ n + 1 \in DOMAIN partitions'
        /\ \A k \in DOMAIN partitions' : k \in DOMAIN partitions \/ k = n + 1
    BY <2>2
  <2>4. Placed' = Placed \cup found
    BY <2>2, <2>3 DEF Placed
  <2>5. Reached' = {} /\ found = Reached \cup new
    BY <1>8, <1>14, <2>1, EmptyElements DEF Reached
  <2>6. PartitionTyped'
    BY <1>1, <1>3, <1>7, <2>1, <2>2, <2>4, <2>5 DEF PartitionInv, PartitionTyped, Nothing
  <2>7. \A k \in DOMAIN partitions : partitions[k] \cap found = {}
    BY <1>9, <2>5 DEF Placed
  <2>8. \A k, l \in DOMAIN partitions' : k # l => partitions'[k] \cap partitions'[l] = {}
    BY <1>3, <2>2, <2>3, <2>7 DEF PartitionsClosed
  <2>9. \A k \in DOMAIN partitions' : \A p \in partitions'[k] : Adjacent(p) \subseteq partitions'[k]
    <3>1. \A k \in DOMAIN partitions : \A p \in partitions[k] : Adjacent(p) \subseteq partitions[k]
      BY <1>3 DEF PartitionsClosed
    <3>2. \A p \in found : Adjacent(p) \subseteq found
      BY <1>10, <2>5
    <3> QED
      BY <2>2, <2>3, <3>1, <3>2
  <2>10. PartitionsClosed'
    BY <1>12, <2>1, <2>5, <2>8, <2>9 DEF PartitionsClosed
  <2> QED
    BY <1>1, <1>11, <2>2, <2>6, <2>10 DEF PartitionInv
<1>15. CASE queue' # <<>>
  <2>1. part' = found /\ partitions' = partitions
    BY <1>1, <1>15
  <2>2. Placed' = Placed /\ Reached' = Reached \cup new
    BY <1>8, <2>1 DEF Placed, Reached
  <2>3. PartitionTyped'
    BY <1>1, <1>3, <1>7, <1>13, <1>15, <2>1, <2>2 DEF PartitionInv, PartitionTyped, Nothing
  <2>4. PartitionsClosed'
    BY <1>3, <1>9, <1>10, <1>12, <2>1, <2>2 DEF PartitionsClosed
  <2> QED
    BY <1>1, <1>11, <2>1, <2>3, <2>4 DEF PartitionInv
<1> QED
  BY <1>14, <1>15

LEMMA PartitionStart ==
    ASSUME Init
    PROVE  PartitionInv
<1>1. /\ pc = "resolve" /\ visited = {} /\ queue = <<>> /\ part = {} /\ partitions = <<>>
      /\ created = 0
  BY DEF Init, SimplifierInit
<1>2. Placed = {} /\ Reached = {}
  BY <1>1, EmptyElements DEF Placed, Reached
<1>3. <<>> \in Seq(Params) /\ <<>> \in Seq(SUBSET Params)
  OBVIOUS
<1>4. PartitionTyped
  BY <1>1, <1>2, <1>3 DEF PartitionTyped, Nothing
<1>5. PartitionsClosed
  BY <1>1, <1>2 DEF PartitionsClosed
<1> QED
  BY <1>1, <1>4, <1>5 DEF PartitionInv

LEMMA PartitionInductive ==
    ASSUME PartitionInv, [Next]_vars
    PROVE  PartitionInv'
<1>1. CASE Simplify /\ UNCHANGED handlerVars
  <2>1. /\ pc \in {"resolve", "flatten", "simplify", "simplified"}
        /\ pc' \in {"resolve", "flatten", "simplify", "simplified"}
    BY <1>1 DEF Simplify, ResolveImplications, FlattenConstraints, SimplifyConstraint, EndPass
  <2> QED
    BY <1>1, <2>1, NothingPlaced DEF handlerVars
<1>2. CASE CreateHandler
  <2>1. PICK n : order' \in [1 .. n -> Params]
    BY <1>2 DEF CreateHandler
  <2>2. ToSet(order') \subseteq Params
    BY <2>1 DEF ToSet
  <2> QED
    BY <1>2, <2>2, NothingPlaced DEF CreateHandler
<1>3. CASE StartPartition
  BY <1>3, PartitionStarts
<1>4. CASE VisitParameter
  BY <1>4, PartitionVisits
<1>5. CASE CreateComponent
  <2>1. /\ UNCHANGED <<constraints, order, visited, queue, part, partitions, pc>>
        /\ pc = "partition" /\ AllPlaced /\ created < Len(partitions) /\ created' = created + 1
    BY <1>5 DEF CreateComponent, AllPlaced, simplifierVars
  <2>2. created' \in 0 .. Len(partitions)
    BY <2>1 DEF PartitionInv
  <2> QED
    BY <2>1, <2>2, PartitionsStay
<1>6. CASE EndComponents
  <2>1. /\ UNCHANGED <<constraints, order, visited, queue, part, partitions, created>>
        /\ pc = "partition" /\ pc' = "apply" /\ AllPlaced /\ created = Len(partitions)
    BY <1>6 DEF EndComponents, AllPlaced, handlerVars
  <2> QED
    BY <2>1, PartitionsStay DEF PartitionInv
<1>7. CASE ApplyConstraint
  <2>1. /\ UNCHANGED <<constraints, order, visited, queue, part, partitions, created>>
        /\ pc = "apply" /\ pc' \in {"apply", "ready"}
    BY <1>7 DEF ApplyConstraint
  <2>2. AllPlaced /\ created = Len(partitions)
    BY <2>1 DEF PartitionInv
  <2> QED
    BY <2>1, <2>2, PartitionsStay DEF PartitionInv
<1>8. CASE UNCHANGED vars
  <2>1. UNCHANGED <<pc, constraints, order, visited, queue, part, partitions, created>>
    BY <1>8 DEF vars, simplifierVars, handlerVars
  <2>2. AllPlaced' = AllPlaced /\ Placed' = Placed /\ Reached' = Reached
    BY <2>1 DEF AllPlaced, Placed, Reached
  <2>3. PartitionTyped'
    BY <2>1, <2>2 DEF PartitionInv, PartitionTyped, Nothing
  <2>4. PartitionsClosed'
    BY <2>1, <2>2, AdjacentUnchanged DEF PartitionInv, PartitionsClosed
  <2> QED
    BY <2>1, <2>2, <2>3, <2>4 DEF PartitionInv
<1> QED
  BY <1>1, <1>2, <1>3, <1>4, <1>5, <1>6, <1>7, <1>8 DEF Next, SetUp, Terminated
-------------------------------------------------------------------------------
(* The components *)

LEMMA ConstrainedAreParams ==
    ASSUME constraints \in Seq(Exprs)
    PROVE  ConstrainedParams \subseteq Params
<1>1. \A i \in DOMAIN constraints : constraints[i] \in Exprs
  BY LenProperties, ElementOfSeq
<1> QED
  BY <1>1, OccurringParams DEF ConstrainedParams

LEMMA SatisfyingPartials ==
    ASSUME SimplifierTyped, NEW i
    PROVE  [variables |-> VariablesOf(i), idd |-> Satisfying(i)] \in Component
<1>1. VariablesOf(i) \in SUBSET Params
  BY ConstrainedAreParams DEF VariablesOf, SimplifierTyped
<1>2. AssignmentsOf(VariablesOf(i)) \subseteq AssignmentsOver(VariablesOf(i), Dom)
  <2>1. \A p \in VariablesOf(i) : domain[p] \subseteq Dom[p]
    BY <1>1 DEF SimplifierTyped, Domains
  <2> QED
    BY <2>1, MoreValues DEF AssignmentsOf
<1>3. Satisfying(i) \subseteq UNION {AssignmentsOver(S, Dom) : S \in SUBSET Params}
  BY <1>1, <1>2 DEF Satisfying
<1> QED
  BY <1>1, <1>3 DEF Component

LEMMA NoComponents ==
    ASSUME created' = 0, components' = <<>>, componentOf' \in [Params -> 0 .. 0], applied' = 0,
           constraints' \in Seq(Exprs), pc' = "ready" => constraints' = <<>>
    PROVE  ComponentsInv'
<1>1. <<>> \in Seq(Component) /\ Len(<<>>) = 0 /\ DOMAIN <<>> = {}
  OBVIOUS
<1>2. Len(constraints') \in Nat /\ (constraints' = <<>> => Len(constraints') = 0)
  BY LenProperties
<1>3. ComponentsTyped'
  BY <1>1, <1>2 DEF ComponentsTyped
<1>4. ComponentsPlaced'
  BY DEF ComponentsPlaced, NoComponent
<1>5. ComponentsExact'
  BY <1>1 DEF ComponentsExact
<1> QED
  BY <1>3, <1>4, <1>5 DEF ComponentsInv

LEMMA ComponentsStart ==
    ASSUME Init
    PROVE  ComponentsInv
<1>1. /\ created = 0 /\ components = <<>> /\ componentOf \in [Params -> 0 .. 0] /\ applied = 0
      /\ pc = "resolve" /\ constraints \in Seq(Exprs)
  BY ExpressionsAssumption DEF Init, SimplifierInit, NoComponent
<1>2. <<>> \in Seq(Component) /\ Len(<<>>) = 0 /\ DOMAIN <<>> = {} /\ Len(constraints) \in Nat
  BY <1>1, LenProperties
<1>3. ComponentsTyped
  BY <1>1, <1>2 DEF ComponentsTyped
<1>4. ComponentsPlaced
  BY <1>1 DEF ComponentsPlaced, NoComponent
<1>5. ComponentsExact
  BY <1>1, <1>2 DEF ComponentsExact
<1> QED
  BY <1>3, <1>4, <1>5 DEF ComponentsInv

LEMMA ComponentsStay ==
    ASSUME ComponentsInv, pc' = "ready" => pc = "ready", pc' \in {"apply", "ready"} \/ pc' = pc,
           UNCHANGED <<constraints, domain, partitions, created, components, componentOf,
                       applied>>
    PROVE  ComponentsInv'
<1>1. ComponentsTyped'
  BY DEF ComponentsInv, ComponentsTyped
<1>2. ComponentsPlaced'
  BY DEF ComponentsInv, ComponentsPlaced, ConstrainedParams
<1>3. \A i : VariablesOf(i)' = VariablesOf(i)
  BY DEF VariablesOf, ConstrainedParams
<1>4. \A i, c : (i \in Targets(c))' <=> i \in Targets(c)
  BY DEF Targets
<1>5. \A i : Satisfying(i)' = Satisfying(i)
  BY <1>3, <1>4 DEF Satisfying, AssignmentsOf
<1>6. ComponentsExact'
  BY <1>3, <1>5 DEF ComponentsInv, ComponentsExact
<1> QED
  BY <1>1, <1>2, <1>6 DEF ComponentsInv
\* The parameters of the next partition have no component yet.
LEMMA NotPlacedYet ==
    ASSUME PartitionInv, ComponentsInv, created < Len(partitions)
    PROVE  /\ created + 1 \in DOMAIN partitions /\ partitions[created + 1] \subseteq Params
           /\ \A p \in partitions[created + 1] : componentOf[p] = NoComponent
           /\ \A k \in 1 .. created : partitions[k] \subseteq Params
                                      /\ partitions[k] \cap partitions[created + 1] = {}
<1>1. partitions \in Seq(SUBSET Params) /\ created \in 0 .. Len(partitions)
  BY DEF PartitionInv, PartitionTyped
<1>2. /\ DOMAIN partitions = 1 .. Len(partitions) /\ Len(partitions) \in Nat
      /\ \A k \in DOMAIN partitions : partitions[k] \subseteq Params
  BY <1>1, LenProperties, ElementOfSeq
<1>3. /\ created + 1 \in DOMAIN partitions
      /\ \A k \in 1 .. created : k \in DOMAIN partitions /\ k # created + 1
  BY <1>1, <1>2
<1>4. \A k \in 1 .. created : partitions[k] \cap partitions[created + 1] = {}
  BY <1>3 DEF PartitionInv, PartitionsClosed
<1>5. ASSUME NEW p \in partitions[created + 1], componentOf[p] # NoComponent
      PROVE  FALSE
  <2>1. p \in Params
    BY <1>2, <1>3
  <2>2. PICK k \in 1 .. created : p \in partitions[k]
    BY <1>5, <2>1 DEF ComponentsInv, ComponentsPlaced
  <2> QED
    BY <1>4, <2>2
<1> QED
  BY <1>2, <1>3, <1>4, <1>5

LEMMA ComponentCreated ==
    ASSUME SimplifierInv, PartitionInv, ComponentsInv, CreateComponent
    PROVE  ComponentsInv'
<1> DEFINE members == partitions[created + 1]
           variables == members \cap ConstrainedParams
           n == Len(components)
<1>1. /\ pc = "partition" /\ created < Len(partitions) /\ created' = created + 1
      /\ UNCHANGED <<pc, constraints, domain, partitions, applied>>
      /\ \/ variables = {} /\ UNCHANGED <<components, componentOf>>
         \/ /\ variables # {}
            /\ components' = Append(components, [variables |-> variables,
                                                 idd |-> AssignmentsOf(variables)])
            /\ componentOf' = [p \in Params |->
                   IF p \in members THEN Len(components') ELSE componentOf[p]]
  BY DEF CreateComponent, simplifierVars
<1>2. /\ SimplifierTyped /\ ComponentsTyped /\ ComponentsPlaced /\ ComponentsExact
      /\ created \in Nat /\ ConstrainedParams \subseteq Params
  <2>1. SimplifierTyped /\ ComponentsTyped /\ ComponentsPlaced /\ ComponentsExact
    BY DEF SimplifierInv, ComponentsInv
  <2> QED
    BY <2>1, ConstrainedAreParams DEF SimplifierTyped, PartitionInv
<1>3. /\ members \subseteq Params
      /\ \A p \in members : componentOf[p] = NoComponent
      /\ \A k \in 1 .. created : partitions[k] \subseteq Params /\ partitions[k] \cap members = {}
  BY <1>1, NotPlacedYet
<1>4. \A k \in 1 .. created' : k \in 1 .. created \/ k = created + 1
  BY <1>1, <1>2
<1>5. created + 1 \in 1 .. created' /\ \A k \in 1 .. created : k \in 1 .. created'
  BY <1>1, <1>2
<1>6. /\ ConstrainedParams' = ConstrainedParams /\ applied' = 0 /\ applied = 0
      /\ \A S : AssignmentsOf(S)' = AssignmentsOf(S)
  BY <1>1, <1>2 DEF ConstrainedParams, AssignmentsOf, ComponentsTyped
<1>7. created' # 0
  BY <1>1, <1>2
<1>8. \A i : Satisfying(i) = AssignmentsOf(VariablesOf(i))
             /\ Satisfying(i)' = AssignmentsOf(VariablesOf(i)')
  BY <1>6 DEF Satisfying
<1> HIDE DEF members
<1>9. CASE variables = {}
  <2>1. UNCHANGED <<components, componentOf>>
    BY <1>1, <1>9
  <2>2. ComponentsTyped'
    BY <1>1, <1>2, <1>7, <2>1 DEF ComponentsTyped
  <2>3. ComponentsPlaced'
    <3>1. \A k \in 1 .. created' : \A p, q \in partitions[k] : componentOf[p] = componentOf[q]
      BY <1>2, <1>3, <1>4 DEF ComponentsPlaced, members
    <3>2. \A k \in 1 .. created' : \A p \in partitions[k] \cap ConstrainedParams :
              componentOf[p] # NoComponent
      BY <1>2, <1>4, <1>9 DEF ComponentsPlaced, members
    <3>3. \A p \in Params : componentOf[p] # NoComponent =>
              \E k \in 1 .. created' : p \in partitions[k]
      BY <1>2, <1>5 DEF ComponentsPlaced
    <3> QED
      BY <1>1, <1>6, <2>1, <3>1, <3>2, <3>3 DEF ComponentsPlaced
  <2>4. \A i : VariablesOf(i)' = VariablesOf(i)
    BY <1>6, <2>1 DEF VariablesOf
  <2>5. ComponentsExact'
    BY <1>2, <1>8, <2>1, <2>4 DEF ComponentsExact
  <2> QED
    BY <2>2, <2>3, <2>5 DEF ComponentsInv
<1>10. CASE variables # {}
  <2> DEFINE comp == [variables |-> variables, idd |-> AssignmentsOf(variables)]
  <2>1. components' = Append(components, comp)
    BY <1>1, <1>10
  <2>2. components \in Seq(Component) /\ componentOf \in [Params -> 0 .. n]
    BY <1>2 DEF ComponentsTyped
  <2>3. comp \in Component
    <3>1. AssignmentsOf(variables) \subseteq AssignmentsOver(variables, Dom)
      <4>1. \A p \in variables : domain[p] \subseteq Dom[p]
        BY <1>2 DEF SimplifierTyped, Domains
      <4> QED
        BY <4>1, MoreValues DEF AssignmentsOf
    <3>2. variables \in SUBSET Params
      BY <1>2
    <3> QED
      BY <3>1, <3>2 DEF Component
  <2> HIDE DEF comp
  <2>4. /\ components' \in Seq(Component) /\ Len(components') = n + 1 /\ n \in Nat
        /\ DOMAIN components = 1 .. n /\ DOMAIN components' = 1 .. n + 1
        /\ \A i \in DOMAIN components : components'[i] = components[i]
        /\ components'[n + 1] = comp
    BY <2>1, <2>2, <2>3, AppendedElements
  <2>5. componentOf' = [p \in Params |-> IF p \in members THEN n + 1 ELSE componentOf[p]]
    BY <1>1, <1>10, <2>4
  <2> HIDE DEF n
  <2>6. componentOf' \in [Params -> 0 .. n + 1]
    BY <2>2, <2>4, <2>5
  <2>7. /\ \A p \in members : componentOf'[p] = n + 1 /\ componentOf[p] = 0
        /\ \A p \in Params \ members : componentOf'[p] = componentOf[p] /\ componentOf[p] # n + 1
        /\ n + 1 # 0
    BY <1>3, <2>2, <2>4, <2>5 DEF NoComponent
  <2>8. ComponentsTyped'
    BY <1>1, <1>2, <1>7, <2>4, <2>6 DEF ComponentsTyped
  <2>9. ComponentsPlaced'
    <3>1. \A k \in 1 .. created : \A p \in partitions[k] : componentOf'[p] = componentOf[p]
      BY <1>3, <2>7
    <3>2. \A k \in 1 .. created' : \A p, q \in partitions[k] : componentOf'[p] = componentOf'[q]
      BY <1>2, <1>4, <2>7, <3>1 DEF ComponentsPlaced, members
    <3>3. \A k \in 1 .. created' : \A p \in partitions[k] \cap ConstrainedParams :
              componentOf'[p] # NoComponent
      BY <1>2, <1>4, <2>7, <3>1 DEF ComponentsPlaced, members, NoComponent
    <3>4. ASSUME NEW p \in Params, componentOf'[p] # NoComponent
          PROVE  \E k \in 1 .. created' : p \in partitions[k]
      <4>1. CASE p \in members
        BY <1>5, <4>1 DEF members
      <4>2. CASE p \notin members
        BY <1>2, <1>5, <2>7, <3>4, <4>2 DEF ComponentsPlaced
      <4> QED
        BY <4>1, <4>2
    <3> QED
      BY <1>1, <1>6, <3>2, <3>3, <3>4 DEF ComponentsPlaced
  <2>10. \A i : i = n + 1 => VariablesOf(i)' = variables
    <3>1. \A i : VariablesOf(i)' = {p \in ConstrainedParams : componentOf'[p] = i}
      BY <1>6 DEF VariablesOf
    <3>2. {p \in ConstrainedParams : componentOf'[p] = n + 1} = variables
      BY <1>2, <2>7
    <3> QED
      BY <3>1, <3>2
  <2>11. \A i \in DOMAIN components : VariablesOf(i)' = VariablesOf(i)
    <3>1. \A i \in DOMAIN components : i # n + 1 /\ i # 0
      BY <2>4
    <3> QED
      BY <1>2, <1>6, <2>7, <3>1 DEF VariablesOf
  <2>12. ASSUME NEW i \in DOMAIN components'
         PROVE  components'[i] = [variables |-> VariablesOf(i)', idd |-> Satisfying(i)']
    <3>1. CASE i = n + 1
      <4>1. components'[i] = comp /\ VariablesOf(i)' = variables
        BY <2>4, <2>10, <3>1
      <4> QED
        BY <1>8, <4>1 DEF comp
    <3>2. CASE i # n + 1
      <4>1. i \in DOMAIN components
        BY <2>4, <3>2
      <4> QED
        BY <1>2, <1>8, <2>4, <2>11, <4>1 DEF ComponentsExact
    <3> QED
      BY <3>1, <3>2
  <2>13. ComponentsExact'
    BY <2>12 DEF ComponentsExact
  <2> QED
    BY <2>8, <2>9, <2>13 DEF ComponentsInv
<1> QED
  BY <1>9, <1>10

LEMMA ComponentIndices ==
    ASSUME IInv
    PROVE  /\ DOMAIN components = 1 .. Len(components) /\ Len(components) \in Nat
           /\ \A p \in Params : componentOf[p] # NoComponent =>
                                    componentOf[p] \in DOMAIN components
           /\ \A i \in DOMAIN components : i # NoComponent
<1>1. components \in Seq(Component) /\ componentOf \in [Params -> 0 .. Len(components)]
  BY DEF IInv, ComponentsInv, ComponentsTyped
<1>2. DOMAIN components = 1 .. Len(components) /\ Len(components) \in Nat
  BY <1>1, LenProperties
<1> QED
  BY <1>1, <1>2 DEF NoComponent

\* All parameters of a constraint belong to the component it is put into, and
\* there is one.
LEMMA TargetOwns ==
    ASSUME IInv, pc \in {"apply", "ready"}, NEW k \in DOMAIN constraints
    PROVE  LET c == constraints[k] IN
           /\ c \in Exprs
           /\ \A i \in Targets(c) : i \in DOMAIN components /\ Occurring(c) \subseteq VariablesOf(i)
           /\ Occurring(c) # {} => Targets(c) # {}
<1> DEFINE c == constraints[k]
<1>1. /\ constraints \in Seq(Exprs) /\ PartitionTyped /\ PartitionsClosed /\ ComponentsPlaced
      /\ PartitionInv
  BY DEF IInv, SimplifierInv, SimplifierTyped, PartitionInv, ComponentsInv
<1>2. c \in Exprs /\ constraints # <<>>
  BY <1>1, LenProperties, ElementOfSeq
<1>3. AllPlaced /\ created = Len(partitions)
  BY <1>1, <1>2 DEF PartitionInv
<1>4. Placed = Params
  <2>1. Reached = {}
    BY <1>1, <1>3, EmptyElements DEF PartitionTyped, AllPlaced, Reached
  <2> QED
    BY <1>1, <1>3, <2>1 DEF PartitionTyped, AllPlaced
<1>5. CollectedParams(c) \in Seq(Params) /\ Occurring(c) \subseteq Params
      /\ Occurring(c) \subseteq ConstrainedParams
  BY <1>2, Collected, OccurringParams DEF ConstrainedParams
<1>6. CASE CollectedParams(c) = <<>>
  <2>1. Occurring(c) = {} /\ Targets(c) = DOMAIN components
    BY <1>6, EmptyElements DEF Occurring, Targets
  <2> QED
    BY <1>2, <2>1
<1>7. CASE CollectedParams(c) # <<>>
  <2> DEFINE p == Head(CollectedParams(c))
  <2>1. p \in Occurring(c) /\ p \in Params
    BY <1>5, <1>7, QueueElements DEF Occurring
  <2>2. Targets(c) = {componentOf[p]}
    BY <1>7 DEF Targets
  <2> HIDE DEF p
  <2>3. PICK m \in DOMAIN partitions : p \in partitions[m]
    BY <1>4, <2>1 DEF Placed
  <2>4. m \in 1 .. created
    BY <1>1, <1>3, LenProperties DEF PartitionTyped
  <2>5. componentOf[p] # NoComponent
    BY <1>1, <1>5, <2>1, <2>3, <2>4 DEF ComponentsPlaced
  <2>6. ASSUME NEW q \in Occurring(c)
        PROVE  q \in VariablesOf(componentOf[p])
    <3>1. q = p \/ q \in Adjacent(p)
      BY <1>5, <2>1 DEF Adjacent
    <3>2. q \in partitions[m]
      BY <1>1, <2>3, <3>1 DEF PartitionsClosed
    <3>3. componentOf[q] = componentOf[p]
      BY <1>1, <2>3, <2>4, <3>2 DEF ComponentsPlaced
    <3> QED
      BY <1>5, <3>3 DEF VariablesOf
  <2>7. componentOf[p] \in DOMAIN components
    BY <2>1, <2>5, ComponentIndices
  <2> QED
    BY <1>2, <2>2, <2>6, <2>7
<1> QED
  BY <1>6, <1>7

LEMMA IntersectedRecord ==
    ASSUME NEW v, NEW S, NEW c
    PROVE  Intersected([variables |-> v, idd |-> S], c) =
               [variables |-> v, idd |-> {a \in S : DiagramAdmits(c, a, domain, listing)}]
BY DEF Intersected

LEMMA ConstraintApplied ==
    ASSUME IInv, ApplyConstraint
    PROVE  ComponentsInv'
<1> DEFINE c == constraints[applied + 1]
<1>1. /\ applied < Len(constraints) /\ applied' = applied + 1
      /\ pc' = IF applied' = Len(constraints) THEN "ready" ELSE pc
      /\ pc = "apply"
      /\ UNCHANGED <<constraints, domain, partitions, created, componentOf>>
      /\ components' = [i \in DOMAIN components |->
             IF i \in Targets(c) THEN Intersected(components[i], c) ELSE components[i]]
  BY DEF ApplyConstraint
<1>2. SimplifierTyped /\ ComponentsTyped /\ ComponentsPlaced /\ ComponentsExact
  BY DEF IInv, SimplifierInv, ComponentsInv
<1>3. components \in Seq(Component) /\ applied \in 0 .. Len(constraints) /\ Len(constraints) \in Nat
  BY <1>2, LenProperties DEF ComponentsTyped, SimplifierTyped
<1>4. \A k : k \in 1 .. applied' <=> k \in 1 .. applied \/ k = applied + 1
  BY <1>1, <1>3
<1>5. \A i : VariablesOf(i)' = VariablesOf(i)
  BY <1>1 DEF VariablesOf, ConstrainedParams
<1>6. DOMAIN components' = DOMAIN components
  BY <1>1
<1>7. \A i, k : (i \in Targets(k))' <=> i \in Targets(k)
  BY <1>1, <1>6 DEF Targets
<1>8. ASSUME NEW i
      PROVE  Satisfying(i)' = IF i \in Targets(c) THEN {a \in Satisfying(i) : Eval(c, a)}
                              ELSE Satisfying(i)
  <2>1. Satisfying(i)' =
            {a \in AssignmentsOf(VariablesOf(i)) :
                \A k \in 1 .. applied' : i \in Targets(constraints[k]) => Eval(constraints[k], a)}
    BY <1>1, <1>5, <1>7 DEF Satisfying, AssignmentsOf
  <2>2. \A a : (\A k \in 1 .. applied' : i \in Targets(constraints[k]) => Eval(constraints[k], a))
            <=> /\ \A k \in 1 .. applied : i \in Targets(constraints[k]) => Eval(constraints[k], a)
                /\ i \in Targets(c) => Eval(c, a)
    BY <1>4, Zenon
  <2> QED
    BY <2>1, <2>2 DEF Satisfying
<1>13. ASSUME NEW i \in Targets(c), NEW a \in Satisfying(i)
       PROVE  DiagramAdmits(c, a, domain, listing) = Eval(c, a)
  <2>1. applied + 1 \in DOMAIN constraints /\ constraints \in Seq(Plain)
    BY <1>1, <1>2, <1>3, LenProperties DEF SimplifierTyped
  <2>2. c \in Plain
    BY <2>1, LenProperties, ElementOfSeq
  <2>3. Occurring(c) \subseteq VariablesOf(i)
    BY <1>1, <2>1, TargetOwns
  <2>4. VariablesOf(i) \in SUBSET Params
    BY <1>2, ConstrainedAreParams DEF VariablesOf, SimplifierTyped
  <2>5. a \in AssignmentsOver(VariablesOf(i), domain)
    BY DEF Satisfying, AssignmentsOf
  <2>6. domain \in Domains /\ listing \in JobListings
    BY <1>2 DEF IInv, SimplifierTyped
  <2> HIDE DEF c
  <2> QED
    BY <2>2, <2>3, <2>4, <2>5, <2>6, DiagramMeans
<1>9. ASSUME NEW i \in DOMAIN components
      PROVE  components'[i] = [variables |-> VariablesOf(i)', idd |-> Satisfying(i)']
  <2>1. components[i] = [variables |-> VariablesOf(i), idd |-> Satisfying(i)]
    BY <1>2 DEF ComponentsExact
  <2>2. CASE i \in Targets(c)
    <3>1. components'[i] = Intersected(components[i], c)
      BY <1>1, <2>2
    <3>2. Intersected(components[i], c) =
              [variables |-> VariablesOf(i),
               idd |-> {a \in Satisfying(i) : DiagramAdmits(c, a, domain, listing)}]
      BY <2>1, IntersectedRecord, Zenon
    <3>3. \A a \in Satisfying(i) : DiagramAdmits(c, a, domain, listing) = Eval(c, a)
      BY <1>13, <2>2
    <3>4. {a \in Satisfying(i) : DiagramAdmits(c, a, domain, listing)} =
          {a \in Satisfying(i) : Eval(c, a)}
      BY <3>3
    <3> QED
      BY <1>5, <1>8, <2>2, <3>1, <3>2, <3>4
  <2>3. CASE i \notin Targets(c)
    BY <1>1, <1>5, <1>8, <2>1, <2>3
  <2> QED
    BY <2>2, <2>3
<1>10. ComponentsExact'
  BY <1>6, <1>9 DEF ComponentsExact
<1>11. ComponentsTyped'
  <2>1. ASSUME NEW i \in DOMAIN components
        PROVE  components'[i] \in Component
    <3>1. [variables |-> VariablesOf(i), idd |-> Satisfying(i)] \in Component
      BY <1>2, SatisfyingPartials
    <3>2. Satisfying(i)' \subseteq Satisfying(i)
      BY <1>8
    <3>3. [variables |-> VariablesOf(i), idd |-> Satisfying(i)'] \in Component
      BY <3>1, <3>2 DEF Component
    <3> QED
      BY <1>5, <1>9, <3>3
  <2>2. components' \in [DOMAIN components -> Component]
    BY <1>1, <1>6, <2>1
  <2>3. components' \in Seq(Component) /\ Len(components') = Len(components)
    BY <1>3, <2>2, ResultSeq
  <2> QED
    BY <1>1, <1>2, <1>3, <2>3 DEF ComponentsTyped
<1>12. ComponentsPlaced'
  BY <1>1, <1>2 DEF ComponentsPlaced, ConstrainedParams
<1> QED
  BY <1>10, <1>11, <1>12 DEF ComponentsInv
LEMMA ComponentsInductive ==
    ASSUME IInv, [Next]_vars
    PROVE  ComponentsInv'
<1>1. SimplifierInv /\ PartitionInv /\ ComponentsInv
  BY DEF IInv
<1>2. constraints' \in Seq(Exprs)
  BY <1>1, SimplifierInductive DEF SimplifierInv, SimplifierTyped
<1>3. /\ components \in Seq(Component) /\ componentOf \in [Params -> 0 .. Len(components)]
      /\ pc \notin {"apply", "ready"} => applied = 0
      /\ created = 0 => components = <<>>
  BY <1>1 DEF ComponentsInv, ComponentsTyped
<1>4. Len(<<>>) = 0
  OBVIOUS
<1>5. ASSUME created = 0, created' = 0, UNCHANGED <<components, componentOf, applied>>,
             applied = 0, pc' = "ready" => constraints' = <<>>
      PROVE  ComponentsInv'
  BY <1>2, <1>3, <1>4, <1>5, NoComponents
<1>6. CASE Simplify /\ UNCHANGED handlerVars
  <2>1. /\ pc \in {"resolve", "flatten", "simplify", "simplified"} /\ pc' # "ready"
        /\ UNCHANGED <<created, components, componentOf, applied>>
    BY <1>6 DEF Simplify, ResolveImplications, FlattenConstraints, SimplifyConstraint, EndPass,
                handlerVars
  <2>2. created = 0
    BY <1>1, <2>1 DEF PartitionInv, PartitionTyped, Nothing
  <2> QED
    BY <1>3, <1>5, <2>1, <2>2
<1>7. CASE CreateHandler
  <2>1. /\ pc = "simplified" /\ (pc' = "ready" => constraints' = <<>>)
        /\ UNCHANGED <<created, components, componentOf, applied>>
    BY <1>7 DEF CreateHandler
  <2>2. created = 0
    BY <1>1, <2>1 DEF PartitionInv, PartitionTyped, Nothing
  <2> QED
    BY <1>3, <1>5, <2>1, <2>2
<1>8. CASE StartPartition
  <2>1. /\ pc = "partition" /\ pc' = pc
        /\ UNCHANGED <<constraints, domain, partitions, created, components, componentOf, applied>>
    BY <1>8 DEF StartPartition, simplifierVars
  <2> QED
    BY <1>1, <2>1, ComponentsStay
<1>9. CASE VisitParameter
  <2>1. /\ pc = "partition" /\ pc' = pc /\ queue # <<>>
        /\ UNCHANGED <<created, components, componentOf, applied>>
    BY <1>9 DEF VisitParameter, simplifierVars
  <2>2. created = 0
    BY <1>1, <2>1 DEF PartitionInv, AllPlaced
  <2> QED
    BY <1>3, <1>5, <2>1, <2>2
<1>10. CASE CreateComponent
  BY <1>1, <1>10, ComponentCreated
<1>11. CASE EndComponents
  <2>1. /\ pc' = "apply"
        /\ UNCHANGED <<constraints, domain, partitions, created, components, componentOf, applied>>
    BY <1>11 DEF EndComponents, handlerVars
  <2> QED
    BY <1>1, <2>1, ComponentsStay
<1>12. CASE ApplyConstraint
  BY <1>12, ConstraintApplied
<1>13. CASE UNCHANGED vars
  <2>1. UNCHANGED <<pc, constraints, domain, partitions, created, components, componentOf, applied>>
    BY <1>13 DEF vars, simplifierVars, handlerVars
  <2> QED
    BY <1>1, <2>1, ComponentsStay
<1> QED
  BY <1>6, <1>7, <1>8, <1>9, <1>10, <1>11, <1>12, <1>13 DEF Next, SetUp, Terminated

THEOREM InductiveInvariant == Spec => []IInv
<1>1. Init => IInv
  BY SimplifierStart, PartitionStart, ComponentsStart DEF Init, IInv
<1>2. [Next]_vars => listing' = listing
  BY DEF Next, SetUp, CreateHandler, StartPartition, VisitParameter, CreateComponent,
         EndComponents, ApplyConstraint, Terminated, vars, handlerVars
<1>3. IInv /\ [Next]_vars => IInv'
  BY <1>2, SimplifierInductive, PartitionInductive, ComponentsInductive DEF IInv
<1> QED
  BY <1>1, <1>3, PTL DEF Spec

-------------------------------------------------------------------------------
(* What follows from the invariant *)

LEMMA PlacedParams ==
    ASSUME PartitionTyped
    PROVE  Placed \subseteq Params /\ Reached \subseteq Params /\ visited \subseteq Params
<1>1. \A k \in DOMAIN partitions : partitions[k] \subseteq Params
  BY LenProperties, ElementOfSeq DEF PartitionTyped
<1>2. \A i \in DOMAIN queue : queue[i] \in Params
  BY LenProperties, ElementOfSeq DEF PartitionTyped
<1>3. ToSet(queue) \subseteq Params
  BY <1>2, Zenon DEF ToSet
<1> QED
  BY <1>1, <1>3 DEF PartitionTyped, Placed, Reached

\* The types of the variables.
THEOREM TypeCorrect == Spec => []TypeOK
<1>1. IInv => TypeOK
  <2> SUFFICES ASSUME IInv
               PROVE  TypeOK
    OBVIOUS
  <2>1. SimplifierTyped /\ PartitionTyped /\ ComponentsTyped /\ ComponentsExact
    BY DEF IInv, SimplifierInv, PartitionInv, ComponentsInv
  <2>2. \A i \in DOMAIN constraints : Occurring(constraints[i]) \subseteq Params
    <3>1. \A i \in DOMAIN constraints : constraints[i] \in Exprs
      BY <2>1, LenProperties, ElementOfSeq DEF SimplifierTyped
    <3> QED
      BY <3>1, OccurringParams
  <2>3. \A p \in Params : domain[p] \subseteq Dom[p] /\ domain[p] # {}
    BY <2>1 DEF SimplifierTyped, Domains
  <2>4. visited \subseteq Params /\ ToSet(queue) \subseteq visited /\ part \subseteq visited
    BY <2>1, PlacedParams DEF PartitionTyped, Reached
  <2>5. \A i \in DOMAIN components :
            components[i].idd \subseteq AssignmentsOf(components[i].variables)
    BY <2>1 DEF ComponentsExact, Satisfying
  <2>6. \A p \in Params : componentOf[p] \in DOMAIN components \cup {NoComponent}
    <3>1. DOMAIN components = 1 .. Len(components) /\ Len(components) \in Nat
      BY <2>1, LenProperties DEF ComponentsTyped
    <3> QED
      BY <2>1, <3>1 DEF ComponentsTyped, NoComponent
  <2>7. applied \in 0 .. Len(constraints) /\ input \in Inputs /\ pc \in Steps
    BY <2>1 DEF ComponentsTyped, SimplifierTyped
  <2>8. \A p \in Params : ToSet(listing[p]) = Dom[p]
    BY JobListed DEF IInv
  <2> QED
    BY <2>2, <2>3, <2>4, <2>5, <2>6, <2>7, <2>8 DEF TypeOK, Steps
<1> QED
  BY <1>1, InductiveInvariant, PTL

\* The components share no parameter, and are closed under the constraints.
THEOREM IndependentComponents == Spec => []ComponentsIndependent
<1>1. IInv => ComponentsIndependent
  <2> SUFFICES ASSUME IInv, pc \in {"apply", "ready"}
               PROVE  /\ \A i, j \in DOMAIN components : i # j =>
                             components[i].variables \cap components[j].variables = {}
                      /\ \A k \in DOMAIN constraints : \A i \in Targets(constraints[k]) :
                             Occurring(constraints[k]) \subseteq components[i].variables
    BY DEF ComponentsIndependent
  <2>1. \A i \in DOMAIN components : components[i].variables = VariablesOf(i)
    BY DEF IInv, ComponentsInv, ComponentsExact
  <2>2. \A i, j \in DOMAIN components : i # j => VariablesOf(i) \cap VariablesOf(j) = {}
    BY DEF VariablesOf
  <2> QED
    BY <2>1, <2>2, TargetOwns
<1> QED
  BY <1>1, InductiveInvariant, PTL
-------------------------------------------------------------------------------
(* The answers of the handler, and the tests that satisfy the constraints it was *)
(* made of.                                                                      *)

LEMMA ReadyFacts ==
    ASSUME IInv, pc = "ready"
    PROVE  /\ constraints \in Seq(Exprs) /\ domain \in Domains
           /\ DOMAIN constraints = 1 .. applied
           /\ ConstrainedParams \subseteq Params
           /\ TestsOver(domain) \subseteq TestsOver(Dom)
           /\ \A S \in SUBSET Params : AssignmentsOf(S) \subseteq AssignmentsOver(S, Dom)
           /\ \A i : VariablesOf(i) \subseteq Params
           /\ \A i \in DOMAIN components :
                  components[i].variables = VariablesOf(i) /\ components[i].idd = Satisfying(i)
<1>1. SimplifierTyped /\ ComponentsTyped /\ ComponentsExact
  BY DEF IInv, SimplifierInv, ComponentsInv
<1>2. /\ constraints \in Seq(Exprs) /\ domain \in Domains /\ applied = Len(constraints)
  BY <1>1 DEF SimplifierTyped, ComponentsTyped
<1>3. ConstrainedParams \subseteq Params /\ \A i : VariablesOf(i) \subseteq Params
  BY <1>2, ConstrainedAreParams DEF VariablesOf
<1>4. \A S \in SUBSET Params : AssignmentsOf(S) \subseteq AssignmentsOver(S, Dom)
  <2> TAKE S \in SUBSET Params
  <2>1. \A p \in S : domain[p] \subseteq Dom[p]
    BY <1>2 DEF Domains
  <2> QED
    BY <2>1, MoreValues DEF AssignmentsOf
<1>5. \A i \in DOMAIN components :
          components[i].variables = VariablesOf(i) /\ components[i].idd = Satisfying(i)
  BY <1>1 DEF ComponentsExact
<1> QED
  BY <1>2, <1>3, <1>4, <1>5, LenProperties, ModelTests

\* What a test assigns to the variables of a component.
Restricted(u, i) == [p \in VariablesOf(i) |-> u[p]]

\* Satisfying the constraints of a component is a matter of its variables.
LEMMA RestrictedSatisfies ==
    ASSUME IInv, pc = "ready", NEW u \in TestsNow, NEW i \in DOMAIN components
    PROVE  Restricted(u, i) \in Satisfying(i)
<1> DEFINE S == VariablesOf(i)
           a == Restricted(u, i)
<1>1. u \in TestsOver(domain) /\ u \in TestsOver(Dom) /\ SatisfiesAll(constraints, u)
  BY ReadyFacts DEF TestsNow
<1>2. S \subseteq Params
  BY ReadyFacts
<1>3. a = [p \in S |-> a[p]] /\ \A p \in S : a[p] = u[p]
  BY DEF Restricted
<1>4. \A p \in S : a[p] \in domain[p]
  BY <1>1, <1>2, <1>3, AssignedValues DEF TestsOver
<1> HIDE DEF a
<1>5. a \in AssignmentsOf(S)
  BY <1>3, <1>4, AssignmentFrom, Zenon DEF AssignmentsOf
<1>6. ASSUME NEW k \in 1 .. applied, i \in Targets(constraints[k])
      PROVE  Eval(constraints[k], a)
  <2> DEFINE c == constraints[k]
  <2>1. k \in DOMAIN constraints /\ c \in Exprs /\ Occurring(c) \subseteq S
    BY <1>6, ReadyFacts, TargetOwns
  <2>2. Covers(u, c)
    BY <1>1, <2>1, TestsCover
  <2>3. Covers(a, c)
    BY <1>2, <1>5, <2>1, ReadyFacts DEF Covers
  <2>4. \A p \in Occurring(c) : u[p] = a[p]
    BY <1>3, <2>1
  <2>5. Eval(c, u) = Eval(c, a)
    BY <2>1, <2>2, <2>3, <2>4, EvalLocal, Zenon
  <2>6. Eval(c, u)
    BY <1>1, <2>1, Zenon DEF SatisfiesAll
  <2> QED
    BY <2>5, <2>6, Zenon
<1> QED
  BY <1>5, <1>6, Zenon DEF Satisfying, a

\* A test made of one assignment of each component satisfies all constraints, if
\* any test does.
LEMMA ComposedSatisfies ==
    ASSUME IInv, pc = "ready", TestsNow # {}, NEW u \in TestsOver(domain),
           \A i \in DOMAIN components :
               \E a \in Satisfying(i) : \A p \in VariablesOf(i) : u[p] = a[p]
    PROVE  u \in TestsNow
<1>1. u \in TestsOver(Dom)
  BY ReadyFacts
<1>2. ASSUME NEW k \in DOMAIN constraints
      PROVE  Eval(constraints[k], u)
  <2> DEFINE c == constraints[k]
  <2>1. c \in Exprs /\ k \in 1 .. applied
    BY ReadyFacts, TargetOwns
  <2>2. Covers(u, c)
    BY <1>1, <2>1, TestsCover
  <2>3. CASE Occurring(c) = {}
    <3>1. PICK w \in TestsNow : TRUE
      OBVIOUS
    <3>2. w \in TestsOver(Dom) /\ Eval(c, w)
      BY ReadyFacts, Zenon DEF TestsNow, SatisfiesAll
    <3>3. Covers(w, c)
      BY <2>1, <3>2, TestsCover
    <3>4. Eval(c, w) = Eval(c, u)
      BY <2>1, <2>2, <2>3, <3>3, EvalLocal, Zenon
    <3> QED
      BY <3>2, <3>4, Zenon
  <2>4. CASE Occurring(c) # {}
    <3>1. PICK i \in Targets(c) : i \in DOMAIN components /\ Occurring(c) \subseteq VariablesOf(i)
      BY <2>4, TargetOwns
    <3>2. PICK a \in Satisfying(i) : \A p \in VariablesOf(i) : u[p] = a[p]
      BY <3>1
    <3>3. a \in AssignmentsOf(VariablesOf(i)) /\ Eval(c, a)
      BY <2>1, <3>1, Zenon DEF Satisfying
    <3>4. Covers(a, c)
      BY <3>1, <3>3, ReadyFacts DEF Covers
    <3>5. \A p \in Occurring(c) : a[p] = u[p]
      BY <3>1, <3>2
    <3>6. Eval(c, a) = Eval(c, u)
      BY <2>1, <2>2, <3>4, <3>5, EvalLocal, Zenon
    <3> QED
      BY <3>3, <3>6, Zenon
  <2> QED
    BY <2>3, <2>4
<1> QED
  BY <1>2, Zenon DEF TestsNow, SatisfiesAll

LEMMA SatWithMeans ==
    ASSUME IInv, pc = "ready"
    PROVE  \A t : \A i \in DOMAIN components :
               SatWith(components[i], t) <=>
                   \E a \in Satisfying(i) : Fills(a, t, VariablesOf(i))
<1>1. \A i \in DOMAIN components :
          components[i].variables = VariablesOf(i) /\ components[i].idd = Satisfying(i)
  BY ReadyFacts
<1> QED
  BY <1>1, Zenon DEF SatWith

LEMMA PartialValues ==
    ASSUME NEW t \in PartialTests
    PROVE  /\ t = [p \in Params |-> t[p]]
           /\ \A p \in Params : t[p] # DontCare => t[p] \in domain[p]
<1> DEFINE wider == [p \in Params |-> domain[p] \cup {DontCare}]
<1>1. t \in AssignmentsOver(Params, wider)
  BY DEF PartialTests, TestsOver
<1>2. t = [p \in Params |-> t[p]] /\ \A p \in Params : t[p] \in wider[p]
  BY <1>1, AssignedValues, AssignmentFunction
<1> QED
  BY <1>2

LEMMA FirstValueIn ==
    ASSUME IInv, NEW p \in Params
    PROVE  FirstValue(p) \in domain[p]
<1> DEFINE list == listing[p]
           Left(i) == list[i] \in domain[p]
           B == {i \in DOMAIN list : Left(i)}
<1>1. domain[p] \subseteq Dom[p] /\ domain[p] # {}
  BY DEF IInv, SimplifierInv, SimplifierTyped, Domains
<1>2. list \in Seq(Dom[p]) /\ ToSet(list) = Dom[p]
  BY JobListed DEF IInv
<1>3. DOMAIN list = 1 .. Len(list) /\ Len(list) \in Nat
  BY <1>2, LenProperties
<1>4. \A v \in Dom[p] : \E i \in DOMAIN list : list[i] = v
  BY <1>2 DEF ToSet
<1> HIDE DEF list
<1>5. B \in SUBSET Nat /\ B # {}
  BY <1>1, <1>3, <1>4
<1>6. PICK n \in B : \A m \in B : n <= m
  <2> HIDE DEF B
  <2> QED
    BY <1>5, LeastNumber
<1>7. n \in DOMAIN list /\ Left(n) /\ \A j \in 1 .. n - 1 : ~ Left(j)
  BY <1>3, <1>6
<1> DEFINE First(i) == Left(i) /\ \A j \in 1 .. i - 1 : ~ Left(j)
<1>8. First(CHOOSE i \in DOMAIN list : First(i))
  BY <1>7
<1>9. FirstValue(p) = list[CHOOSE i \in DOMAIN list : First(i)]
  BY DEF FirstValue, list
<1> QED
  BY <1>8, <1>9

\* t with the first value of each parameter it leaves open.
Filled(t) == [p \in Params |-> IF t[p] = DontCare THEN FirstValue(p) ELSE t[p]]

LEMMA FilledTest ==
    ASSUME IInv, NEW t \in PartialTests
    PROVE  Filled(t) \in TestsOver(domain) /\ Fills(Filled(t), t, Params)
<1> DEFINE w == Filled(t)
<1>1. w = [p \in Params |-> w[p]] /\ \A p \in Params : t[p] # DontCare => w[p] = t[p]
  BY DEF Filled
<1>2. \A p \in Params : w[p] \in domain[p]
  BY FirstValueIn, PartialValues DEF Filled
<1> HIDE DEF w
<1>3. w \in TestsOver(domain)
  BY <1>1, <1>2, AssignmentFrom, Zenon DEF TestsOver
<1>4. Fills(w, t, Params)
  BY <1>1, Zenon DEF Fills
<1> QED
  BY <1>3, <1>4 DEF w
\* Whatever the components choose, and whatever the other parameters have, is a
\* test that satisfies all constraints.
LEMMA Combination ==
    ASSUME IInv, pc = "ready", TestsNow # {}, NEW t \in PartialTests, IsValid(t),
           NEW w \in TestsOver(domain), Fills(w, t, Params)
    PROVE  \E u \in TestsNow :
               /\ Fills(u, t, Params)
               /\ \A p \in Params : (\A i \in DOMAIN components : p \notin VariablesOf(i)) =>
                                        u[p] = w[p]
               /\ \A i \in DOMAIN components : \E a \in Satisfying(i) :
                      Fills(a, t, VariablesOf(i)) /\ \A p \in VariablesOf(i) : u[p] = a[p]
<1> DEFINE Chosen(i) == CHOOSE a \in Satisfying(i) : Fills(a, t, VariablesOf(i))
           Own(p) == componentOf[p] \in DOMAIN components /\ p \in VariablesOf(componentOf[p])
           u == [p \in Params |-> IF Own(p) THEN Chosen(componentOf[p])[p] ELSE w[p]]
<1>1. ASSUME NEW i \in DOMAIN components
      PROVE  Chosen(i) \in Satisfying(i) /\ Fills(Chosen(i), t, VariablesOf(i))
  <2>1. \E a \in Satisfying(i) : Fills(a, t, VariablesOf(i))
    BY SatWithMeans, Zenon DEF IsValid
  <2> QED
    BY <2>1, Zenon
<1>2. \A i \in DOMAIN components : \A p \in VariablesOf(i) : p \in Params /\ componentOf[p] = i
  BY ReadyFacts DEF VariablesOf
<1>3. ASSUME NEW i \in DOMAIN components, NEW p \in VariablesOf(i)
      PROVE  u[p] = Chosen(i)[p]
  <2>1. p \in Params /\ componentOf[p] = i
    BY <1>2
  <2>2. Own(p)
    BY <2>1
  <2>3. u[p] = Chosen(componentOf[p])[p]
    BY <2>1, <2>2, Zenon
  <2> QED
    BY <2>1, <2>3, Zenon
<1>4. ASSUME NEW p \in Params, ~ Own(p)
      PROVE  u[p] = w[p]
  BY <1>4
<1>5. u = [p \in Params |-> u[p]]
  OBVIOUS
<1> HIDE DEF u, Chosen
<1>6. \A p \in Params : w[p] \in domain[p]
  BY AssignedValues DEF TestsOver
<1>7. ASSUME NEW p \in Params
      PROVE  u[p] \in domain[p] /\ (t[p] # DontCare => u[p] = t[p])
  <2>1. CASE Own(p)
    <3>1. PICK i \in DOMAIN components : p \in VariablesOf(i)
      BY <2>1
    <3>2. Chosen(i) \in AssignmentsOf(VariablesOf(i))
      BY <1>1, Zenon DEF Satisfying
    <3>3. Chosen(i)[p] \in domain[p]
      BY <3>1, <3>2, AssignedValues DEF AssignmentsOf
    <3>4. t[p] # DontCare => Chosen(i)[p] = t[p]
      BY <1>1, <3>1, Zenon DEF Fills
    <3> QED
      BY <1>3, <3>1, <3>3, <3>4, Zenon
  <2>2. CASE ~ Own(p)
    BY <1>4, <1>6, <2>2 DEF Fills
  <2> QED
    BY <2>1, <2>2
<1>8. u \in TestsOver(domain)
  BY <1>5, <1>7, AssignmentFrom, Zenon DEF TestsOver
<1>9. \A i \in DOMAIN components : \E a \in Satisfying(i) :
          Fills(a, t, VariablesOf(i)) /\ \A p \in VariablesOf(i) : u[p] = a[p]
  BY <1>1, <1>3, Zenon
<1>10. u \in TestsNow
  BY <1>8, <1>9, ComposedSatisfies
<1>11. Fills(u, t, Params)
  BY <1>7, Zenon DEF Fills
<1>12. \A p \in Params : (\A i \in DOMAIN components : p \notin VariablesOf(i)) => u[p] = w[p]
  BY <1>4, Zenon
<1> QED
  BY <1>9, <1>10, <1>11, <1>12

LEMMA ValidityNow ==
    ASSUME IInv, pc = "ready", TestsNow # {}, NEW t \in PartialTests
    PROVE  IsValid(t) <=> \E u \in TestsNow : Fills(u, t, Params)
<1>1. ASSUME IsValid(t)
      PROVE  \E u \in TestsNow : Fills(u, t, Params)
  <2>1. Filled(t) \in TestsOver(domain) /\ Fills(Filled(t), t, Params)
    BY FilledTest
  <2> QED
    BY <1>1, <2>1, Combination
<1>2. ASSUME NEW u \in TestsNow, Fills(u, t, Params)
      PROVE  IsValid(t)
  <2>1. ASSUME NEW i \in DOMAIN components
        PROVE  SatWith(components[i], t)
    <3>1. Restricted(u, i) \in Satisfying(i)
      BY RestrictedSatisfies
    <3>2. VariablesOf(i) \subseteq Params
      BY ReadyFacts
    <3>3. Fills(Restricted(u, i), t, VariablesOf(i))
      BY <1>2, <3>2 DEF Fills, Restricted
    <3> QED
      BY <3>1, <3>3, SatWithMeans
  <2> QED
    BY <2>1 DEF IsValid
<1> QED
  BY <1>1, <1>2

LEMMA ValuesNow ==
    ASSUME IInv, pc = "ready", TestsNow # {}, NEW t \in PartialTests, IsValid(t),
           NEW p \in Params, t[p] = DontCare
    PROVE  ValidValues(t, p) = {u[p] : u \in {x \in TestsNow : Fills(x, t, Params)}}
<1>1. \A q \in Params : domain[q] \subseteq Dom[q]
  BY ReadyFacts DEF Domains
<1>2. ASSUME NEW v \in domain[p]
      PROVE  v \in ValidValues(t, p) <=> \E u \in TestsNow : Fills(u, t, Params) /\ u[p] = v
  <2> DEFINE s == [t EXCEPT ![p] = v]
  <2>1. v # DontCare
    BY <1>1, DontCareAssumption
  <2>2. t = [q \in Params |-> t[q]] /\ \A q \in Params : t[q] # DontCare => t[q] \in domain[q]
    BY PartialValues
  <2>3. s = [q \in Params |-> s[q]] /\ s[p] = v /\ \A q \in Params \ {p} : s[q] = t[q]
    BY <2>2
  <2> HIDE DEF s
  <2>4. s \in PartialTests
    <3> DEFINE wider == [q \in Params |-> domain[q] \cup {DontCare}]
    <3>1. \A q \in Params : s[q] \in wider[q]
      BY <2>2, <2>3
    <3> HIDE DEF wider
    <3>2. s \in AssignmentsOver(Params, wider)
      BY <2>3, <3>1, AssignmentFrom, Zenon
    <3> QED
      BY <3>2 DEF PartialTests, TestsOver, wider
  <2>5. ASSUME NEW i \in DOMAIN components, p \notin VariablesOf(i)
        PROVE  SatWith(components[i], s)
    <3>1. VariablesOf(i) \subseteq Params \ {p}
      BY <2>5, ReadyFacts
    <3>2. \A a : Fills(a, s, VariablesOf(i)) <=> Fills(a, t, VariablesOf(i))
      BY <2>3, <3>1 DEF Fills
    <3>3. SatWith(components[i], t)
      BY DEF IsValid
    <3> QED
      BY <3>2, <3>3, SatWithMeans, Zenon
  <2>6. v \in ValidValues(t, p) <=> IsValid(s)
    <3>1. CASE componentOf[p] = NoComponent
      <4>1. \A i \in DOMAIN components : p \notin VariablesOf(i)
        BY <3>1, ComponentIndices DEF VariablesOf
      <4> QED
        BY <2>5, <3>1, <4>1 DEF IsValid, ValidValues
    <3>2. CASE componentOf[p] # NoComponent
      <4>1. componentOf[p] \in DOMAIN components
        BY <3>2, ComponentIndices
      <4>2. v \in ValidValues(t, p) <=> SatWith(components[componentOf[p]], s)
        BY <3>2 DEF ValidValues, s
      <4>3. \A i \in DOMAIN components : i # componentOf[p] => p \notin VariablesOf(i)
        BY DEF VariablesOf
      <4>4. IsValid(s) <=> SatWith(components[componentOf[p]], s)
        BY <2>5, <4>1, <4>3 DEF IsValid
      <4> QED
        BY <4>2, <4>4
    <3> QED
      BY <3>1, <3>2
  <2>7. IsValid(s) <=> \E u \in TestsNow : Fills(u, s, Params)
    BY <2>4, ValidityNow
  <2>8. \A u : Fills(u, s, Params) <=> Fills(u, t, Params) /\ u[p] = v
    BY <2>1, <2>3 DEF Fills
  <2> QED
    BY <2>6, <2>7, <2>8, Zenon
<1>3. ValidValues(t, p) \subseteq domain[p]
  BY DEF ValidValues
<1>4. \A u \in TestsNow : u[p] \in domain[p]
  BY AssignedValues DEF TestsNow, TestsOver
<1>5. \A v : v \in ValidValues(t, p) <=> \E u \in TestsNow : Fills(u, t, Params) /\ u[p] = v
  BY <1>2, <1>3, <1>4, Zenon
<1> QED
  BY <1>5

LEMMA CompletionsNow ==
    ASSUME IInv, pc = "ready", TestsNow # {}, NEW t \in PartialTests, IsValid(t)
    PROVE  Completions(t) # {} /\ Completions(t) \subseteq TestsNow
<1>1. \A i \in DOMAIN components :
          /\ SatWith(components[i], t)
          /\ components[i].variables = VariablesOf(i) /\ components[i].idd = Satisfying(i)
  BY ReadyFacts DEF IsValid
<1>2. \A u : \A i \in DOMAIN components : FillsComponent(u, t, components[i]) <=>
          \E a \in Satisfying(i) : Fills(a, t, VariablesOf(i))
                                   /\ \A p \in VariablesOf(i) : u[p] = a[p]
  BY <1>1, Zenon DEF FillsComponent
<1>3. ASSUME NEW u \in Completions(t)
      PROVE  u \in TestsNow
  <2>1. u \in TestsOver(domain)
        /\ \A i \in DOMAIN components : FillsComponent(u, t, components[i])
    BY DEF Completions
  <2>2. \A i \in DOMAIN components :
            \E a \in Satisfying(i) : \A p \in VariablesOf(i) : u[p] = a[p]
    BY <1>2, <2>1, Zenon
  <2> QED
    BY <2>1, <2>2, ComposedSatisfies
<1>4. Completions(t) # {}
  <2> DEFINE w == Filled(t)
  <2>1. w \in TestsOver(domain) /\ Fills(w, t, Params)
    BY FilledTest
  <2>2. \A p \in Params : t[p] = DontCare => w[p] = FirstValue(p)
    BY DEF Filled
  <2> HIDE DEF w
  <2>3. PICK u \in TestsNow :
               /\ Fills(u, t, Params)
               /\ \A p \in Params : (\A i \in DOMAIN components : p \notin VariablesOf(i)) =>
                                        u[p] = w[p]
               /\ \A i \in DOMAIN components : \E a \in Satisfying(i) :
                      Fills(a, t, VariablesOf(i)) /\ \A p \in VariablesOf(i) : u[p] = a[p]
    BY <2>1, Combination
  <2>4. u \in TestsOver(domain)
    BY DEF TestsNow
  <2>5. \A i \in DOMAIN components : FillsComponent(u, t, components[i])
    BY <1>2, <2>3, Zenon
  <2>6. \A p \in Params :
            t[p] = DontCare /\ (\A i \in DOMAIN components : p \notin components[i].variables)
                => u[p] = FirstValue(p)
    BY <1>1, <2>2, <2>3
  <2>7. u \in Completions(t)
    BY <2>3, <2>4, <2>5, <2>6, Zenon DEF Completions
  <2> QED
    BY <2>7
<1> QED
  BY <1>3, <1>4
-------------------------------------------------------------------------------
(* The theorems about the answers *)

\* The answers are exactly those of a set of tests.
AnswersAreThoseOf(tests) ==
    \A t \in PartialTests :
        /\ IsValid(t) <=> \E u \in tests : Fills(u, t, Params)
        /\ IsValid(t) =>
               /\ \A p \in Params : t[p] = DontCare =>
                      ValidValues(t, p) = {u[p] : u \in {x \in tests : Fills(x, t, Params)}}
               /\ Completions(t) # {} /\ Completions(t) \subseteq tests

\* For the constraints as the simplifier left them, if any test satisfies them,
\* the handler answers as their conjunction would.
THEOREM AnswersOfSimplified ==
    Spec => [](pc = "ready" /\ TestsNow # {} => AnswersAreThoseOf(TestsNow))
<1>1. IInv => (pc = "ready" /\ TestsNow # {} => AnswersAreThoseOf(TestsNow))
  BY ValidityNow, ValuesNow, CompletionsNow DEF AnswersAreThoseOf
<1> QED
  BY <1>1, InductiveInvariant, PTL

\* The handler refuses no partial test that agrees with a test of the client's
\* model, whatever the simplifier makes of the constraints.
NoneRefused ==
    pc = "ready" => \A t \in PartialTests : \A u \in AllowedTests : Fills(u, t, Params) => IsValid(t)

THEOREM AllowedNeverRefused == Spec => []NoneRefused
<1>1. ASSUME IInv, NoAllowedTestLost
      PROVE  NoneRefused
  <2> SUFFICES ASSUME pc = "ready", NEW t \in PartialTests, NEW u \in AllowedTests,
                      Fills(u, t, Params)
               PROVE  IsValid(t)
    BY DEF NoneRefused
  <2>1. u \in TestsNow
    BY <1>1 DEF NoAllowedTestLost
  <2> QED
    BY <1>1, <2>1, ValidityNow
<1> QED
  BY <1>1, InductiveInvariant, AllowedTestsRetained, PTL

\* What the constraints mean when the handler is made, they mean from then on.
MeaningKept == pc \in {"partition", "apply", "ready"} => TestsNow = AllowedTests

LEMMA MeaningStays == Spec /\ []SimplificationKeepsMeaning => []MeaningKept
<1>1. Init => MeaningKept
  BY DEF Init, SimplifierInit, MeaningKept
<1>2. ASSUME SimplificationKeepsMeaning, MeaningKept, [Next]_vars
      PROVE  MeaningKept'
  <2>1. CASE Simplify
    BY <2>1 DEF Simplify, ResolveImplications, FlattenConstraints, SimplifyConstraint, EndPass,
                MeaningKept
  <2>2. CASE SetUp \/ UNCHANGED vars
    <3>1. /\ UNCHANGED <<input, constraints, domain>>
          /\ pc' \in {"partition", "apply", "ready"} =>
                 pc \in {"simplified", "partition", "apply", "ready"}
      BY <2>2 DEF SetUp, CreateHandler, StartPartition, VisitParameter, CreateComponent,
                  EndComponents, ApplyConstraint, simplifierVars, vars
    <3>2. TestsNow' = TestsNow /\ AllowedTests' = AllowedTests
      BY <3>1 DEF TestsNow, AllowedTests, SatisfiesAll
    <3> QED
      BY <1>2, <3>1, <3>2 DEF SimplificationKeepsMeaning, MeaningKept
  <2> QED
    BY <1>2, <2>1, <2>2 DEF Next, Terminated
<1> QED
  BY <1>1, <1>2, PTL DEF Spec

\* If the simplifier keeps the meaning of the constraints, the answers are those
\* of the client's model.
LEMMA AnswersOfModel ==
    ASSUME IInv, MeaningKept, pc = "ready", Consistent
    PROVE  AnswersAreThoseOf(AllowedTests)
<1>1. TestsNow = AllowedTests /\ TestsNow # {}
  BY DEF MeaningKept, Consistent
<1>2. AnswersAreThoseOf(TestsNow)
  BY <1>1, ValidityNow, ValuesNow, CompletionsNow DEF AnswersAreThoseOf
<1> QED
  BY <1>1, <1>2

\* Partial tests and tuples are valid exactly if some allowed test has their values.
THEOREM ExactValidity == Spec /\ []SimplificationKeepsMeaning => []ValidityExact
<1>1. IInv /\ MeaningKept => ValidityExact
  BY AnswersOfModel, Zenon DEF ValidityExact, AnswersAreThoseOf
<1> QED
  BY <1>1, InductiveInvariant, MeaningStays, PTL

\* The values offered for a parameter are those of the allowed tests.
THEOREM ExactValidValues == Spec /\ []SimplificationKeepsMeaning => []ValidValuesExact
<1>1. IInv /\ MeaningKept => ValidValuesExact
  BY AnswersOfModel, Zenon DEF ValidValuesExact, AnswersAreThoseOf
<1> QED
  BY <1>1, InductiveInvariant, MeaningStays, PTL

\* Completions of valid tests exist, and satisfy all constraints of the model.
THEOREM AllowedCompletions == Spec /\ []SimplificationKeepsMeaning => []CompletionsAllowed
<1>1. IInv /\ MeaningKept => CompletionsAllowed
  BY AnswersOfModel, Zenon DEF CompletionsAllowed, AnswersAreThoseOf
<1> QED
  BY <1>1, InductiveInvariant, MeaningStays, PTL
===============================================================================

-------------------------------- MODULE MCIpog --------------------------------
(* Instances of the IPOG job for model checking. *)
EXTENDS IpogProperties

NoSeeds == {<<>>}

\* One relation over all five parameters, of which the last has one value; two
\* forbidden pairs of values; at most one complete and one partial seeded test.
UniformValues == <<3, 2, 2, 2, 1>>
UniformRelations == <<[params |-> <<1, 2, 3, 4, 5>>, strength |-> 2]>>
TwoForbiddenPairs ==
    {{t \in FullTests : ~(t[1] = a /\ t[p] = x) /\ ~(t[q] = y /\ t[4] = 0)} :
        a \in {0, 2}, p \in 2 .. 4, x \in 0 .. 1, q \in 1 .. 3, y \in 0 .. 1}
UniformSeeds == {<<>>, <<<<2, 1, 1, 1, 0>>, <<0, DontCare, 1, 0, DontCare>>>>}

\* Relations of different strength that overlap, one long enough for several
\* combinations of three earlier parameters, one stronger than it is long; a
\* parameter with one value; a constrained parameter of no relation; seeded tests,
\* some of which some constraints exclude.
MixedValues == <<3, 2, 2, 2, 2, 1, 2>>
MixedRelations ==
    <<[params |-> <<1, 2, 3, 4, 5>>, strength |-> 4],
      [params |-> <<1, 3, 5, 6>>, strength |-> 2],
      [params |-> <<2, 6>>, strength |-> 3]>>
MixedConstraints ==
    {{t \in FullTests : ~(t[1] = x /\ t[p] = 0) /\ ~(t[5] = 1 /\ t[7] = 0)} :
        x \in {0, 2}, p \in {2, 5}}
    \cup {FullTests}
MixedSeeds ==
    {<<>>, <<Unassigned>>,
     <<<<0, 0, DontCare, DontCare, 0, 0, DontCare>>>>,
     <<<<2, 1, 1, 1, 0, 0, 1>>, <<DontCare, 0, 1, 1, 1, DontCare, 0>>>>}

\* Two relations with the first two parameters in common: the stronger one
\* makes the prefix longer than what the weaker one has in it.
OverlapValues == <<2, 2, 2, 2>>
OverlapRelations ==
    <<[params |-> <<1, 2, 4>>, strength |-> 2],
      [params |-> <<1, 2, 3>>, strength |-> 3]>>
NoConstraints == {FullTests}
===============================================================================

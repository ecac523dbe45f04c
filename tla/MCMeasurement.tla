----------------------------- MODULE MCMeasurement -----------------------------
(* Instances of the coverage measurement for model checking. *)
EXTENDS CoverageMeasurement

\* Three relations: one whose combinations are marked in either way, one over
\* parameters that are constrained together, one that is too short for its
\* strength.  The second value of parameter 1 has been removed.
SharedValues == <<3, 2, 2, 2>>
SharedKept == <<<<0, 2, 3>>, <<0, 1>>, <<0, 1>>, <<0, 1>>>>
SharedRelations ==
    <<[params |-> <<1, 2, 3, 4>>, strength |-> 2],
      [params |-> <<2, 3, 4>>, strength |-> 3],
      [params |-> <<3>>, strength |-> 2]>>
SharedConstraints ==
    {FullTests,
     {t \in FullTests : ~(t[1] = 0 /\ t[3] = 0) /\ (t[2] = 0 => t[4] = 1)}}
SharedTests ==
    {<<>>,
     <<<<0, 0, 1, 1>>, <<3, 1, 0, 0>>, <<0, 0, 1, 1>>, <<0, 1, 0, 1>>>>,
     <<<<DontCare, 0, DontCare, 0>>, <<2, DontCare, 0, 0>>, <<2, 1, 0, 1>>>>}

\* What the theorems assume of the tests.
ASSUME SharedTestsKept == TestSets = SharedTests => OnlyKeptValues

\* The second of the client's three values of parameter 1 has been removed.
RemovedValues == <<2, 2>>
RemovedKept == <<<<0, 2>>, <<0, 1>>>>
RemovedRelations == <<[params |-> <<1, 2>>, strength |-> 1]>>
NoConstraints == {FullTests}
RemovedTests == {<<<<2, 0>>, <<1, 1>>>>}
===============================================================================

--------------------------- MODULE MCPackageLifecycle ---------------------------
(* Instances of PackageLifecycle. *)
EXTENDS PackageLifecycle

CONSTANTS g1, g2, m1, m2

\* Two generations with constraints, and a measurement with and one without.
MCJobs == {g1, g2, m1, m2}
MCMeasuring == {m1, m2}
MCConstrained == {g1, g2, m1}
MCThreads == [j \in MCJobs |-> IF j \in {g1, m1} THEN 1 ELSE 2]
===============================================================================

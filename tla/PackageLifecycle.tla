---------------------------- MODULE PackageLifecycle ----------------------------
(***************************************************************************)
(* When Lace and Sylvan run.  Both are global, and the jobs of a process   *)
(* share them: a job that measures coverage uses Lace for its executor, a  *)
(* job with constraints uses Sylvan, which itself uses Lace.  Each package *)
(* has a counter of its users under a mutex; the first user starts it, the *)
(* last one stops it.  The Sylvan mutex is held while the Lace one is      *)
(* taken, never the other way round.                                       *)
(***************************************************************************)
EXTENDS Integers, FiniteSets

CONSTANTS
    Jobs,
    Measuring,      \* jobs with a functor_executor_lace
    Constrained,    \* jobs whose constraint handler is a Sylvan one
    Threads,        \* the number of threads each job is configured with
    Nobody

ASSUME JobsAssumption ==
    /\ IsFiniteSet(Jobs)
    /\ Measuring \subseteq Jobs
    /\ Constrained \subseteq Jobs
    /\ Threads \in [Jobs -> Nat \ {0}]
    /\ Nobody \notin Jobs

VARIABLES
    pc,             \* where the thread of each job is
    laceMutex, sylvanMutex,
    laceCount, sylvanCount,
    lace,           \* the number of Lace workers, 0 if it does not run
    package         \* Sylvan: "off", "tables" after init_package, "ready" after init_ldd

vars == <<pc, laceMutex, sylvanMutex, laceCount, sylvanCount, lace, package>>

Init ==
    /\ pc = [j \in Jobs |-> "idle"]
    /\ laceMutex = Nobody /\ sylvanMutex = Nobody
    /\ laceCount = 0 /\ sylvanCount = 0
    /\ lace = 0
    /\ package = "off"

Goto(j, location) == pc' = [pc EXCEPT ![j] = location]

-------------------------------------------------------------------------------
(* lace_init and lace_quit, called at one location and returning to another. A  *)
(* critical section that only changes the counter is one step.                  *)

\* Mutant of LaceFree: the lock_guard is missing.
LaceUnguarded == TRUE

LaceFree == laceMutex = Nobody

CountLace(j, at, next) ==
    /\ pc[j] = at
    /\ LaceFree /\ laceCount # 0
    /\ laceCount' = laceCount + 1
    /\ Goto(j, next)
    /\ UNCHANGED <<laceMutex, sylvanMutex, sylvanCount, lace, package>>

LockLace(j, at, start) ==
    /\ pc[j] = at
    /\ LaceFree /\ laceCount = 0
    /\ laceMutex' = j
    /\ Goto(j, start)
    /\ UNCHANGED <<sylvanMutex, laceCount, sylvanCount, lace, package>>

StartLace(j, at, next) ==
    /\ pc[j] = at
    /\ lace' = Threads[j]
    /\ laceCount' = laceCount + 1
    /\ laceMutex' = Nobody
    /\ Goto(j, next)
    /\ UNCHANGED <<sylvanMutex, sylvanCount, package>>

\* Mutant of LastLaceUser: one user too early.
LastLaceUserButOne == laceCount <= 2

\* Mutant of LastLaceUser: the counter is looked at before it is decreased.
LastLaceUserGone == laceCount = 0

LastLaceUser == laceCount = 1

LeaveLace(j, at, stop, next) ==
    /\ pc[j] = at
    /\ LaceFree
    /\ laceCount' = laceCount - 1
    /\ IF LastLaceUser THEN laceMutex' = j /\ Goto(j, stop)
                       ELSE Goto(j, next) /\ UNCHANGED laceMutex
    /\ UNCHANGED <<sylvanMutex, sylvanCount, lace, package>>

StopLace(j, at, next) ==
    /\ pc[j] = at
    /\ lace' = 0
    /\ laceMutex' = Nobody
    /\ Goto(j, next)
    /\ UNCHANGED <<sylvanMutex, laceCount, sylvanCount, package>>

-------------------------------------------------------------------------------
(* maybe_initialize_sylvan and maybe_shutdown_sylvan *)

\* Mutant of SylvanFree: the lock_guard is missing.
SylvanUnguarded == TRUE

SylvanFree == sylvanMutex = Nobody

CountSylvan(j) ==
    /\ pc[j] = "handler_ctor" /\ j \in Constrained
    /\ SylvanFree /\ sylvanCount # 0
    /\ sylvanCount' = sylvanCount + 1
    /\ Goto(j, "work")
    /\ UNCHANGED <<laceMutex, sylvanMutex, laceCount, lace, package>>

LockSylvan(j) ==
    /\ pc[j] = "handler_ctor" /\ j \in Constrained
    /\ SylvanFree /\ sylvanCount = 0
    /\ sylvanMutex' = j
    /\ Goto(j, "lace_init")
    /\ UNCHANGED <<laceMutex, laceCount, sylvanCount, lace, package>>

InitPackage(j) ==
    /\ pc[j] = "init_package"
    /\ package' = "tables"
    /\ Goto(j, "init_ldd")
    /\ UNCHANGED <<laceMutex, sylvanMutex, laceCount, sylvanCount, lace>>

InitLdd(j) ==
    /\ pc[j] = "init_ldd"
    /\ package' = "ready"
    /\ sylvanCount' = sylvanCount + 1
    /\ sylvanMutex' = Nobody
    /\ Goto(j, "work")
    /\ UNCHANGED <<laceMutex, laceCount, lace>>

LastSylvanUserButOne == sylvanCount <= 2

LastSylvanUser == sylvanCount = 1

LeaveSylvan(j) ==
    /\ pc[j] = "handler_dtor" /\ j \in Constrained
    /\ SylvanFree
    /\ sylvanCount' = sylvanCount - 1
    /\ IF LastSylvanUser THEN sylvanMutex' = j /\ Goto(j, "quit_package")
                         ELSE Goto(j, "executor_dtor") /\ UNCHANGED sylvanMutex
    /\ UNCHANGED <<laceMutex, laceCount, lace, package>>

QuitPackage(j) ==
    /\ pc[j] = "quit_package"
    /\ package' = "off"
    /\ Goto(j, "lace_quit")
    /\ UNCHANGED <<laceMutex, sylvanMutex, laceCount, sylvanCount, lace>>

\* Mutant of UnlockSylvan: the mutex stays locked.
UnlockForgotten(j) ==
    /\ pc[j] = "unlock"
    /\ Goto(j, "executor_dtor")
    /\ UNCHANGED <<laceMutex, sylvanMutex, laceCount, sylvanCount, lace, package>>

UnlockSylvan(j) ==
    /\ pc[j] = "unlock"
    /\ sylvanMutex' = Nobody
    /\ Goto(j, "executor_dtor")
    /\ UNCHANGED <<laceMutex, laceCount, sylvanCount, lace, package>>

-------------------------------------------------------------------------------
(* entry_point of a job *)

Begin(j) ==
    /\ pc[j] = "idle"
    /\ Goto(j, IF j \in Measuring THEN "executor_ctor" ELSE "handler_ctor")
    /\ UNCHANGED <<laceMutex, sylvanMutex, laceCount, sylvanCount, lace, package>>

\* A job without constraints has a constraint_handler_void.
CreateVoidHandler(j) ==
    /\ pc[j] = "handler_ctor" /\ j \notin Constrained
    /\ Goto(j, "work")
    /\ UNCHANGED <<laceMutex, sylvanMutex, laceCount, sylvanCount, lace, package>>

\* The work is done and the result set; the locals of entry_point are destroyed.
FinishWork(j) ==
    /\ pc[j] = "work"
    /\ Goto(j, IF j \in Constrained THEN "handler_dtor" ELSE "executor_dtor")
    /\ UNCHANGED <<laceMutex, sylvanMutex, laceCount, sylvanCount, lace, package>>

End(j) ==
    /\ pc[j] = "executor_dtor" /\ j \notin Measuring
    /\ Goto(j, "done")
    /\ UNCHANGED <<laceMutex, sylvanMutex, laceCount, sylvanCount, lace, package>>

\* functor_executor_lace and its destructor
Executor(j) ==
    \/ CountLace(j, "executor_ctor", "handler_ctor")
    \/ LockLace(j, "executor_ctor", "executor_start")
    \/ StartLace(j, "executor_start", "handler_ctor")
    \/ j \in Measuring /\ LeaveLace(j, "executor_dtor", "executor_stop", "done")
    \/ StopLace(j, "executor_stop", "done")

\* constraint_handler_sylvan_base and its destructor
Handler(j) ==
    \/ CountSylvan(j) \/ LockSylvan(j)
    \/ CountLace(j, "lace_init", "init_package")
    \/ LockLace(j, "lace_init", "lace_start")
    \/ StartLace(j, "lace_start", "init_package")
    \/ InitPackage(j) \/ InitLdd(j)
    \/ LeaveSylvan(j) \/ QuitPackage(j)
    \/ LeaveLace(j, "lace_quit", "lace_stop", "unlock")
    \/ StopLace(j, "lace_stop", "unlock")
    \/ UnlockSylvan(j)

Step(j) == CreateVoidHandler(j) \/ FinishWork(j) \/ End(j) \/ Executor(j) \/ Handler(j)

Next == \E j \in Jobs : Begin(j) \/ Step(j)

Spec == Init /\ [][Next]_vars

\* The thread of a job that has begun keeps running.
FairSpec == Spec /\ \A j \in Jobs : WF_vars(Step(j))

-------------------------------------------------------------------------------
\* Locations at which a job gives tasks to Lace.
RunsTasks(j) ==
    \/ pc[j] \in {"init_package", "init_ldd", "quit_package"}
    \/ pc[j] = "work" /\ j \in Measuring \cup Constrained

\* A job that has a decision diagram, and has not begun to destroy it.
HasDiagram(j) == pc[j] = "work" /\ j \in Constrained

InLaceSection == {"executor_start", "executor_stop", "lace_start", "lace_stop"}

InSylvanSection == {"lace_init", "lace_start", "init_package", "init_ldd",
                    "quit_package", "lace_quit", "lace_stop", "unlock"}

Locations == {"idle", "executor_ctor", "handler_ctor", "work", "handler_dtor",
              "executor_dtor", "done"} \cup InLaceSection \cup InSylvanSection

TypeOK ==
    /\ pc \in [Jobs -> Locations]
    /\ laceMutex \in Jobs \cup {Nobody} /\ sylvanMutex \in Jobs \cup {Nobody}
    /\ laceCount \in Nat /\ sylvanCount \in Nat
    /\ lace \in Nat
    /\ package \in {"off", "tables", "ready"}

\* A job gives tasks to Lace only while its workers run, whoever started them.
LaceRunsForTasks == \A j \in Jobs : RunsTasks(j) => lace # 0

\* As long as a job works with its decision diagrams Sylvan is ready for use.
SylvanReadyForDiagrams == \A j \in Jobs : HasDiagram(j) => package = "ready"

\* Neither package is started while it runs nor stopped while it does not: Lace's
\* and Sylvan's own start and stop functions are not made for that.
StartsAndStopsAlternate ==
    \A j \in Jobs :
        /\ pc[j] \in {"executor_start", "lace_start"} => lace = 0
        /\ pc[j] \in {"executor_stop", "lace_stop"} => lace # 0
        /\ pc[j] = "init_package" => package = "off"
        /\ pc[j] = "quit_package" => package = "ready"

\* When no job is under way, nothing runs: no worker and no table is left behind.
NothingLeftRunning ==
    (\A j \in Jobs : pc[j] \in {"idle", "done"}) =>
        lace = 0 /\ package = "off" /\ laceCount = 0 /\ sylvanCount = 0

\* While a job uses them, the workers are not replaced: the number of workers it
\* has asked for (get_num_workers) stays what it is.
WorkersKept ==
    [][\A j \in Jobs : RunsTasks(j) /\ RunsTasks(j)' => lace' = lace]_vars

\* Every job that has begun ends: no two jobs wait for each other's mutex.
JobsEnd == \A j \in Jobs : pc[j] # "idle" ~> pc[j] = "done"
===============================================================================

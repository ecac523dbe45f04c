------------------------- MODULE PackageLifecycleProofs -------------------------
(***************************************************************************)
(* Proofs about PackageLifecycle, for any finite set of jobs.              *)
(***************************************************************************)
EXTENDS PackageLifecycle, FiniteSetTheorems, TLAPS

At(locations) == \E j \in Jobs : pc[j] \in locations

\* Jobs that the Lace counter counts for their executor.
NotExecuting == {"idle", "executor_ctor", "executor_start", "executor_stop", "done"}
Executors == {j \in Measuring : pc[j] \notin NotExecuting}

\* Jobs that the Sylvan counter counts.
HandlerLocations == {"work", "handler_dtor"}
Handlers == {j \in Constrained : pc[j] \in HandlerLocations}

\* The Lace counter counts Sylvan once.
SylvanUsesLace ==
    sylvanCount # 0 \/ At({"init_package", "init_ldd", "quit_package", "lace_quit"})

MutexInv ==
    \A j \in Jobs : /\ pc[j] \in InLaceSection <=> laceMutex = j
                    /\ pc[j] \in InSylvanSection <=> sylvanMutex = j

KindInv ==
    \A j \in Jobs :
        /\ pc[j] \in {"executor_ctor", "executor_start", "executor_stop"} => j \in Measuring
        /\ pc[j] \in InSylvanSection \cup {"handler_dtor"} => j \in Constrained

\* Whoever is in a section that is not left at once found the counter at zero, or
\* brought it there.
SectionInv ==
    /\ laceMutex # Nobody => laceCount = 0
    /\ sylvanMutex # Nobody => sylvanCount = 0

LaceCountInv == laceCount = Cardinality(Executors) + IF SylvanUsesLace THEN 1 ELSE 0

SylvanCountInv == sylvanCount = Cardinality(Handlers)

LaceInv == lace # 0 <=> laceCount # 0 \/ At({"executor_stop", "lace_stop"})

PackageInv ==
    /\ package = "ready" <=> sylvanCount # 0 \/ At({"quit_package"})
    /\ package = "tables" <=> At({"init_ldd"})

IInv ==
    /\ TypeOK
    /\ MutexInv
    /\ KindInv
    /\ SectionInv
    /\ LaceCountInv
    /\ SylvanCountInv
    /\ LaceInv
    /\ PackageInv
-------------------------------------------------------------------------------
(* Moves *)

\* A job that goes to a location is there, and the others are where they were.
LEMMA Moved ==
    ASSUME TypeOK, NEW j \in Jobs, NEW loc \in Locations, Goto(j, loc)
    PROVE  /\ pc' \in [Jobs -> Locations]
           /\ pc'[j] = loc
           /\ \A k \in Jobs \ {j} : pc'[k] = pc[k]
BY DEF TypeOK, Goto

\* Adding and removing one element of a finite set.
LEMMA OneMore ==
    ASSUME NEW S, NEW x, IsFiniteSet(S), x \notin S
    PROVE  Cardinality(S \cup {x}) = Cardinality(S) + 1
BY FS_AddElement

LEMMA OneLess ==
    ASSUME NEW S, NEW x, IsFiniteSet(S), x \in S
    PROVE  Cardinality(S \ {x}) = Cardinality(S) - 1
BY FS_RemoveElement

LEMMA FiniteUsers ==
    /\ IsFiniteSet(Executors) /\ IsFiniteSet(Handlers)
    /\ Cardinality(Executors) \in Nat /\ Cardinality(Handlers) \in Nat
<1>1. Executors \subseteq Jobs /\ Handlers \subseteq Jobs
    BY JobsAssumption DEF Executors, Handlers
<1>2. IsFiniteSet(Executors) /\ IsFiniteSet(Handlers)
    BY <1>1, JobsAssumption, FS_Subset
<1> QED BY <1>2, FS_CardinalityType

\* What a move means for the number of executors.
LEMMA ExecutorsMove ==
    ASSUME TypeOK, NEW j \in Jobs, NEW loc \in Locations, Goto(j, loc)
    PROVE  /\ j \notin Measuring \/ (pc[j] \in NotExecuting <=> loc \in NotExecuting)
                  => Cardinality(Executors)' = Cardinality(Executors)
           /\ j \in Measuring /\ pc[j] \in NotExecuting /\ loc \notin NotExecuting
                  => Cardinality(Executors)' = Cardinality(Executors) + 1
           /\ j \in Measuring /\ pc[j] \notin NotExecuting /\ loc \in NotExecuting
                  => /\ Cardinality(Executors)' = Cardinality(Executors) - 1
                     /\ Cardinality(Executors) # 0
<1>1. pc'[j] = loc /\ \A k \in Jobs \ {j} : pc'[k] = pc[k]
    BY Moved
<1>2. \A k \in Jobs : k \in Executors <=> k \in Measuring /\ pc[k] \notin NotExecuting
    BY DEF Executors
<1>3. \A k \in Jobs : k \in Executors' <=> k \in Measuring /\ pc'[k] \notin NotExecuting
    BY DEF Executors
<1>4. Executors \subseteq Jobs /\ Executors' \subseteq Jobs
    BY JobsAssumption DEF Executors
<1>5. ASSUME j \notin Measuring \/ (pc[j] \in NotExecuting <=> loc \in NotExecuting)
      PROVE  Cardinality(Executors)' = Cardinality(Executors)
    <2>1. Executors' = Executors
        BY <1>1, <1>2, <1>3, <1>4, <1>5
    <2> QED BY <2>1
<1>6. ASSUME j \in Measuring, pc[j] \in NotExecuting, loc \notin NotExecuting
      PROVE  Cardinality(Executors)' = Cardinality(Executors) + 1
    <2>1. j \notin Executors /\ Executors' = Executors \cup {j}
        BY <1>1, <1>2, <1>3, <1>4, <1>6
    <2> QED BY <2>1, FiniteUsers, OneMore
<1>7. ASSUME j \in Measuring, pc[j] \notin NotExecuting, loc \in NotExecuting
      PROVE  /\ Cardinality(Executors)' = Cardinality(Executors) - 1
             /\ Cardinality(Executors) # 0
    <2>1. j \in Executors /\ Executors' = Executors \ {j}
        BY <1>1, <1>2, <1>3, <1>4, <1>7
    <2> QED BY <2>1, FiniteUsers, OneLess, FS_EmptySet
<1> QED BY <1>5, <1>6, <1>7

\* What a move means for the number of handlers.
LEMMA HandlersMove ==
    ASSUME TypeOK, NEW j \in Jobs, NEW loc \in Locations, Goto(j, loc)
    PROVE  /\ j \notin Constrained \/ (pc[j] \in HandlerLocations <=> loc \in HandlerLocations)
                  => Cardinality(Handlers)' = Cardinality(Handlers)
           /\ j \in Constrained /\ pc[j] \notin HandlerLocations /\ loc \in HandlerLocations
                  => Cardinality(Handlers)' = Cardinality(Handlers) + 1
           /\ j \in Constrained /\ pc[j] \in HandlerLocations /\ loc \notin HandlerLocations
                  => /\ Cardinality(Handlers)' = Cardinality(Handlers) - 1
                     /\ Cardinality(Handlers) # 0
<1>1. pc'[j] = loc /\ \A k \in Jobs \ {j} : pc'[k] = pc[k]
    BY Moved
<1>2. \A k \in Jobs : k \in Handlers <=> k \in Constrained /\ pc[k] \in HandlerLocations
    BY DEF Handlers
<1>3. \A k \in Jobs : k \in Handlers' <=> k \in Constrained /\ pc'[k] \in HandlerLocations
    BY DEF Handlers
<1>4. Handlers \subseteq Jobs /\ Handlers' \subseteq Jobs
    BY JobsAssumption DEF Handlers
<1>5. ASSUME j \notin Constrained \/ (pc[j] \in HandlerLocations <=> loc \in HandlerLocations)
      PROVE  Cardinality(Handlers)' = Cardinality(Handlers)
    <2>1. Handlers' = Handlers
        BY <1>1, <1>2, <1>3, <1>4, <1>5
    <2> QED BY <2>1
<1>6. ASSUME j \in Constrained, pc[j] \notin HandlerLocations, loc \in HandlerLocations
      PROVE  Cardinality(Handlers)' = Cardinality(Handlers) + 1
    <2>1. j \notin Handlers /\ Handlers' = Handlers \cup {j}
        BY <1>1, <1>2, <1>3, <1>4, <1>6
    <2> QED BY <2>1, FiniteUsers, OneMore
<1>7. ASSUME j \in Constrained, pc[j] \in HandlerLocations, loc \notin HandlerLocations
      PROVE  /\ Cardinality(Handlers)' = Cardinality(Handlers) - 1
             /\ Cardinality(Handlers) # 0
    <2>1. j \in Handlers /\ Handlers' = Handlers \ {j}
        BY <1>1, <1>2, <1>3, <1>4, <1>7
    <2> QED BY <2>1, FiniteUsers, OneLess, FS_EmptySet
<1> QED BY <1>5, <1>6, <1>7

-------------------------------------------------------------------------------
(* Every step keeps the inductive invariant. *)

\* Steps that only go on, outside the critical sections.
LEMMA QuietKeeps ==
    ASSUME IInv, NEW j \in Jobs, NEW loc \in Locations, Goto(j, loc),
           UNCHANGED <<laceMutex, sylvanMutex, laceCount, sylvanCount, lace, package>>,
           pc[j] \notin InLaceSection \cup InSylvanSection,
           loc \notin InLaceSection \cup InSylvanSection,
           loc = "executor_ctor" => j \in Measuring,
           loc = "handler_dtor" => j \in Constrained,
           j \notin Measuring \/ (pc[j] \in NotExecuting <=> loc \in NotExecuting),
           j \notin Constrained \/ (pc[j] \in HandlerLocations <=> loc \in HandlerLocations)
    PROVE  IInv'
<1>1. TypeOK
    BY DEF IInv
<1>2. /\ pc' \in [Jobs -> Locations]
      /\ pc'[j] = loc
      /\ \A k \in Jobs \ {j} : pc'[k] = pc[k]
    BY <1>1, Moved
<1>3. Cardinality(Executors)' = Cardinality(Executors)
    BY <1>1, ExecutorsMove
<1>4. Cardinality(Handlers)' = Cardinality(Handlers)
    BY <1>1, HandlersMove
<1>5. TypeOK'
    BY <1>2 DEF IInv, TypeOK
<1>6. MutexInv' /\ KindInv'
    BY <1>2 DEF IInv, MutexInv, KindInv, InLaceSection, InSylvanSection
<1>7. SectionInv'
    BY DEF IInv, SectionInv
<1>8. LaceCountInv' /\ SylvanCountInv'
    BY <1>2, <1>3, <1>4 DEF IInv, LaceCountInv, SylvanCountInv, SylvanUsesLace, At,
                            InLaceSection, InSylvanSection
<1>9. LaceInv' /\ PackageInv'
    BY <1>2 DEF IInv, LaceInv, PackageInv, At, InLaceSection, InSylvanSection
<1> QED BY <1>5, <1>6, <1>7, <1>8, <1>9 DEF IInv

LEMMA EntryPointKeeps ==
    ASSUME IInv, NEW j \in Jobs,
           Begin(j) \/ CreateVoidHandler(j) \/ FinishWork(j) \/ End(j)
    PROVE  IInv'
<1> USE DEF Locations, InLaceSection, InSylvanSection, NotExecuting, HandlerLocations
<1>1. CASE Begin(j)
    <2> DEFINE loc == IF j \in Measuring THEN "executor_ctor" ELSE "handler_ctor"
    <2> QED BY <1>1, QuietKeeps, loc \in Locations DEF Begin
<1>2. CASE CreateVoidHandler(j)
    BY <1>2, QuietKeeps DEF CreateVoidHandler
<1>3. CASE FinishWork(j)
    <2> DEFINE loc == IF j \in Constrained THEN "handler_dtor" ELSE "executor_dtor"
    <2> QED BY <1>3, QuietKeeps, loc \in Locations DEF FinishWork
<1>4. CASE End(j)
    BY <1>4, QuietKeeps DEF End
<1> QED BY <1>1, <1>2, <1>3, <1>4

\* lace_init of a user that is not the first.
LEMMA CountLaceKeeps ==
    ASSUME IInv, NEW j \in Jobs,
           NEW at, NEW next,
           <<at, next>> \in {<<"executor_ctor", "handler_ctor">>,
                             <<"lace_init", "init_package">>},
           CountLace(j, at, next)
    PROVE  IInv'
<1> DEFINE loc == next
<1>1. /\ TypeOK /\ loc \in Locations /\ Goto(j, loc)
      /\ pc[j] = at
      /\ \/ at = "executor_ctor" /\ next = "handler_ctor" /\ j \in Measuring
         \/ at = "lace_init" /\ next = "init_package" /\ j \in Constrained
    BY DEF IInv, KindInv, CountLace, LaceFree, Locations, InLaceSection, InSylvanSection
<1>2. /\ pc' \in [Jobs -> Locations]
      /\ pc'[j] = loc
      /\ \A k \in Jobs \ {j} : pc'[k] = pc[k]
    BY <1>1, Moved
<1>3. /\ Cardinality(Executors)' = Cardinality(Executors) + IF at = "executor_ctor" THEN 1 ELSE 0
      /\ Cardinality(Handlers)' = Cardinality(Handlers)
    BY <1>1, ExecutorsMove, HandlersMove, FiniteUsers DEF NotExecuting, HandlerLocations
<1>4. TypeOK'
    BY <1>1, <1>2, JobsAssumption DEF IInv, TypeOK, CountLace, LaceFree
<1>5. MutexInv' /\ KindInv'
    BY <1>1, <1>2, JobsAssumption
       DEF IInv, MutexInv, KindInv, InLaceSection, InSylvanSection, CountLace, LaceFree
<1>6. SectionInv'
    BY <1>1, <1>2, JobsAssumption
       DEF IInv, SectionInv, MutexInv, InLaceSection, InSylvanSection, TypeOK,
           CountLace, LaceFree
<1>7. IF at = "lace_init" THEN ~SylvanUsesLace /\ SylvanUsesLace'
      ELSE SylvanUsesLace' <=> SylvanUsesLace
    BY <1>1, <1>2, JobsAssumption
       DEF IInv, SylvanUsesLace, At, MutexInv, SectionInv, InLaceSection, InSylvanSection,
           TypeOK, CountLace, LaceFree
<1>8. LaceCountInv' /\ SylvanCountInv'
    BY <1>1, <1>3, <1>7, FiniteUsers
       DEF IInv, LaceCountInv, SylvanCountInv, TypeOK, CountLace, LaceFree
<1>9. LaceInv'
    BY <1>1, <1>2, JobsAssumption
       DEF IInv, LaceInv, At, TypeOK, MutexInv, SectionInv, InLaceSection, CountLace, LaceFree
<1>10. PackageInv'
    BY <1>1, <1>2, JobsAssumption
       DEF IInv, PackageInv, At, TypeOK, MutexInv, SectionInv, InSylvanSection,
           CountLace, LaceFree
<1> QED BY <1>4, <1>5, <1>6, <1>8, <1>9, <1>10 DEF IInv

\* lace_init of the first user, until it starts Lace.
LEMMA LockLaceKeeps ==
    ASSUME IInv, NEW j \in Jobs,
           NEW at, NEW start,
           <<at, start>> \in {<<"executor_ctor", "executor_start">>,
                             <<"lace_init", "lace_start">>},
           LockLace(j, at, start)
    PROVE  IInv'
<1> DEFINE loc == start
<1>1. /\ TypeOK /\ loc \in Locations /\ Goto(j, loc)
      /\ pc[j] = at
      /\ \/ at = "executor_ctor" /\ start = "executor_start" /\ j \in Measuring
         \/ at = "lace_init" /\ start = "lace_start" /\ j \in Constrained
    BY DEF IInv, KindInv, LockLace, LaceFree, Locations, InLaceSection, InSylvanSection
<1>2. /\ pc' \in [Jobs -> Locations]
      /\ pc'[j] = loc
      /\ \A k \in Jobs \ {j} : pc'[k] = pc[k]
    BY <1>1, Moved
<1>3. /\ Cardinality(Executors)' = Cardinality(Executors)
      /\ Cardinality(Handlers)' = Cardinality(Handlers)
    BY <1>1, ExecutorsMove, HandlersMove, FiniteUsers DEF NotExecuting, HandlerLocations
<1>4. TypeOK'
    BY <1>1, <1>2, JobsAssumption DEF IInv, TypeOK, LockLace, LaceFree
<1>5. MutexInv' /\ KindInv'
    BY <1>1, <1>2, JobsAssumption
       DEF IInv, MutexInv, KindInv, InLaceSection, InSylvanSection, LockLace, LaceFree
<1>6. SectionInv'
    BY <1>1, <1>2, JobsAssumption
       DEF IInv, SectionInv, MutexInv, InLaceSection, InSylvanSection, TypeOK, LockLace,
           LaceFree
<1>7. SylvanUsesLace' <=> SylvanUsesLace
    BY <1>1, <1>2, JobsAssumption
       DEF IInv, SylvanUsesLace, At, MutexInv, SectionInv, InLaceSection, InSylvanSection,
           TypeOK, LockLace, LaceFree
<1>8. LaceCountInv' /\ SylvanCountInv'
    BY <1>1, <1>3, <1>7, FiniteUsers
       DEF IInv, LaceCountInv, SylvanCountInv, TypeOK, LockLace, LaceFree
<1>9. LaceInv'
    BY <1>1, <1>2, JobsAssumption
       DEF IInv, LaceInv, At, TypeOK, MutexInv, SectionInv, InLaceSection, LockLace, LaceFree
<1>10. PackageInv'
    BY <1>1, <1>2, JobsAssumption
       DEF IInv, PackageInv, At, TypeOK, MutexInv, SectionInv, InSylvanSection,
           LockLace, LaceFree
<1> QED BY <1>4, <1>5, <1>6, <1>8, <1>9, <1>10 DEF IInv

\* lace_init of the first user, the rest.
LEMMA StartLaceKeeps ==
    ASSUME IInv, NEW j \in Jobs,
           NEW at, NEW next,
           <<at, next>> \in {<<"executor_start", "handler_ctor">>,
                             <<"lace_start", "init_package">>},
           StartLace(j, at, next)
    PROVE  IInv'
<1> DEFINE loc == next
<1>1. /\ TypeOK /\ loc \in Locations /\ Goto(j, loc)
      /\ pc[j] = at
      /\ \/ at = "executor_start" /\ next = "handler_ctor" /\ j \in Measuring
         \/ at = "lace_start" /\ next = "init_package" /\ j \in Constrained
    BY DEF IInv, KindInv, StartLace, Locations, InLaceSection, InSylvanSection
<1>2. /\ pc' \in [Jobs -> Locations]
      /\ pc'[j] = loc
      /\ \A k \in Jobs \ {j} : pc'[k] = pc[k]
    BY <1>1, Moved
<1>3. /\ Cardinality(Executors)' = Cardinality(Executors) + IF at = "executor_start" THEN 1 ELSE 0
      /\ Cardinality(Handlers)' = Cardinality(Handlers)
    BY <1>1, ExecutorsMove, HandlersMove, FiniteUsers DEF NotExecuting, HandlerLocations
<1>4. TypeOK'
    BY <1>1, <1>2, JobsAssumption DEF IInv, TypeOK, StartLace
<1>5. MutexInv' /\ KindInv'
    BY <1>1, <1>2, JobsAssumption
       DEF IInv, MutexInv, KindInv, InLaceSection, InSylvanSection, StartLace
<1>6. SectionInv'
    BY <1>1, <1>2, JobsAssumption
       DEF IInv, SectionInv, MutexInv, InLaceSection, InSylvanSection, TypeOK, StartLace
<1>7. IF at = "lace_start" THEN ~SylvanUsesLace /\ SylvanUsesLace'
      ELSE SylvanUsesLace' <=> SylvanUsesLace
    BY <1>1, <1>2, JobsAssumption
       DEF IInv, SylvanUsesLace, At, MutexInv, SectionInv, InLaceSection, InSylvanSection,
           TypeOK, StartLace
<1>8. LaceCountInv' /\ SylvanCountInv'
    BY <1>1, <1>3, <1>7, FiniteUsers
       DEF IInv, LaceCountInv, SylvanCountInv, TypeOK, StartLace
<1>9. LaceInv'
    BY <1>1, <1>2, JobsAssumption
       DEF IInv, LaceInv, At, TypeOK, MutexInv, SectionInv, InLaceSection, StartLace
<1>10. PackageInv'
    BY <1>1, <1>2, JobsAssumption
       DEF IInv, PackageInv, At, TypeOK, MutexInv, SectionInv, InSylvanSection, StartLace
<1> QED BY <1>4, <1>5, <1>6, <1>8, <1>9, <1>10 DEF IInv

\* lace_quit, until the last user stops Lace.
LEMMA LeaveLaceKeeps ==
    ASSUME IInv, NEW j \in Jobs,
           NEW at, NEW stop, NEW next,
           <<at, stop, next>> \in {<<"executor_dtor", "executor_stop", "done">>,
                             <<"lace_quit", "lace_stop", "unlock">>},
           at = "executor_dtor" => j \in Measuring,
           LeaveLace(j, at, stop, next)
    PROVE  IInv'
<1> DEFINE loc == IF LastLaceUser THEN stop ELSE next
<1>1. /\ TypeOK /\ loc \in Locations /\ Goto(j, loc)
      /\ pc[j] = at
      /\ \/ at = "executor_dtor" /\ stop = "executor_stop" /\ next = "done" /\ j \in Measuring
         \/ at = "lace_quit" /\ stop = "lace_stop" /\ next = "unlock" /\ j \in Constrained
    BY DEF IInv, KindInv, LeaveLace, LaceFree, LastLaceUser, Locations, InLaceSection,
           InSylvanSection
<1>2. /\ pc' \in [Jobs -> Locations]
      /\ pc'[j] = loc
      /\ \A k \in Jobs \ {j} : pc'[k] = pc[k]
    BY <1>1, Moved
<1>3. /\ Cardinality(Executors)' = Cardinality(Executors) - IF at = "executor_dtor" THEN 1 ELSE 0
      /\ Cardinality(Handlers)' = Cardinality(Handlers)
    BY <1>1, ExecutorsMove, HandlersMove, FiniteUsers DEF NotExecuting, HandlerLocations
<1>4. laceCount # 0
    BY <1>1, ExecutorsMove, HandlersMove, FiniteUsers
       DEF IInv, TypeOK, NotExecuting, HandlerLocations, LaceCountInv, SylvanCountInv,
           SylvanUsesLace, At
<1>5. TypeOK'
    BY <1>1, <1>2, <1>4, JobsAssumption DEF IInv, TypeOK, LeaveLace, LaceFree, LastLaceUser
<1>6. MutexInv' /\ KindInv'
    BY <1>1, <1>2, JobsAssumption
       DEF IInv, MutexInv, KindInv, InLaceSection, InSylvanSection, LeaveLace, LaceFree,
           LastLaceUser
<1>7. SectionInv'
    BY <1>1, <1>2, JobsAssumption
       DEF IInv, SectionInv, MutexInv, InLaceSection, InSylvanSection, TypeOK,
           LeaveLace, LaceFree, LastLaceUser
<1>8. IF at = "lace_quit" THEN SylvanUsesLace /\ ~SylvanUsesLace'
      ELSE SylvanUsesLace' <=> SylvanUsesLace
    BY <1>1, <1>2, <1>4, JobsAssumption
       DEF IInv, SylvanUsesLace, At, MutexInv, SectionInv, InLaceSection, InSylvanSection,
           TypeOK, LeaveLace, LaceFree, LastLaceUser
<1>9. LaceCountInv' /\ SylvanCountInv'
    BY <1>1, <1>3, <1>8, FiniteUsers
       DEF IInv, LaceCountInv, SylvanCountInv, TypeOK, LeaveLace, LaceFree, LastLaceUser
<1>10. LaceInv'
    BY <1>1, <1>2, <1>4, JobsAssumption
       DEF IInv, LaceInv, At, TypeOK, MutexInv, SectionInv, InLaceSection, LeaveLace,
           LaceFree, LastLaceUser
<1>11. PackageInv'
    BY <1>1, <1>2, <1>4, JobsAssumption
       DEF IInv, PackageInv, At, TypeOK, MutexInv, SectionInv, InSylvanSection,
           LeaveLace, LaceFree, LastLaceUser
<1> QED BY <1>5, <1>6, <1>7, <1>9, <1>10, <1>11 DEF IInv

\* lace_quit of the last user, the rest.
LEMMA StopLaceKeeps ==
    ASSUME IInv, NEW j \in Jobs,
           NEW at, NEW next,
           <<at, next>> \in {<<"executor_stop", "done">>,
                             <<"lace_stop", "unlock">>},
           StopLace(j, at, next)
    PROVE  IInv'
<1> DEFINE loc == next
<1>1. /\ TypeOK /\ loc \in Locations /\ Goto(j, loc)
      /\ pc[j] = at
      /\ \/ at = "executor_stop" /\ next = "done" /\ j \in Measuring
         \/ at = "lace_stop" /\ next = "unlock" /\ j \in Constrained
    BY DEF IInv, KindInv, StopLace, Locations, InLaceSection, InSylvanSection
<1>2. /\ pc' \in [Jobs -> Locations]
      /\ pc'[j] = loc
      /\ \A k \in Jobs \ {j} : pc'[k] = pc[k]
    BY <1>1, Moved
<1>3. /\ Cardinality(Executors)' = Cardinality(Executors)
      /\ Cardinality(Handlers)' = Cardinality(Handlers)
    BY <1>1, ExecutorsMove, HandlersMove, FiniteUsers DEF NotExecuting, HandlerLocations
<1>4. TypeOK'
    BY <1>1, <1>2, JobsAssumption DEF IInv, TypeOK, StopLace
<1>5. MutexInv' /\ KindInv'
    BY <1>1, <1>2, JobsAssumption
       DEF IInv, MutexInv, KindInv, InLaceSection, InSylvanSection, StopLace
<1>6. SectionInv'
    BY <1>1, <1>2, JobsAssumption
       DEF IInv, SectionInv, MutexInv, InLaceSection, InSylvanSection, TypeOK, StopLace
<1>7. SylvanUsesLace' <=> SylvanUsesLace
    BY <1>1, <1>2, JobsAssumption
       DEF IInv, SylvanUsesLace, At, MutexInv, SectionInv, InLaceSection, InSylvanSection,
           TypeOK, StopLace
<1>8. LaceCountInv' /\ SylvanCountInv'
    BY <1>1, <1>3, <1>7, FiniteUsers
       DEF IInv, LaceCountInv, SylvanCountInv, TypeOK, StopLace
<1>9. LaceInv'
    BY <1>1, <1>2, JobsAssumption
       DEF IInv, LaceInv, At, TypeOK, MutexInv, SectionInv, InLaceSection, StopLace
<1>10. PackageInv'
    BY <1>1, <1>2, JobsAssumption
       DEF IInv, PackageInv, At, TypeOK, MutexInv, SectionInv, InSylvanSection, StopLace
<1> QED BY <1>4, <1>5, <1>6, <1>8, <1>9, <1>10 DEF IInv

\* maybe_initialize_sylvan of a user that is not the first.
LEMMA CountSylvanKeeps ==
    ASSUME IInv, NEW j \in Jobs,
           CountSylvan(j)
    PROVE  IInv'
<1> DEFINE loc == "work"
<1>1. /\ TypeOK /\ loc \in Locations /\ Goto(j, loc)
      /\ pc[j] = "handler_ctor" /\ j \in Constrained
    BY DEF IInv, KindInv, CountSylvan, SylvanFree, Locations, InLaceSection, InSylvanSection
<1>2. /\ pc' \in [Jobs -> Locations]
      /\ pc'[j] = loc
      /\ \A k \in Jobs \ {j} : pc'[k] = pc[k]
    BY <1>1, Moved
<1>3. /\ Cardinality(Executors)' = Cardinality(Executors)
      /\ Cardinality(Handlers)' = Cardinality(Handlers) + 1
    BY <1>1, ExecutorsMove, HandlersMove, FiniteUsers DEF NotExecuting, HandlerLocations
<1>4. TypeOK'
    BY <1>1, <1>2, JobsAssumption DEF IInv, TypeOK, CountSylvan, SylvanFree
<1>5. MutexInv' /\ KindInv'
    BY <1>1, <1>2, JobsAssumption
       DEF IInv, MutexInv, KindInv, InLaceSection, InSylvanSection, CountSylvan, SylvanFree
<1>6. SectionInv'
    BY <1>1, <1>2, JobsAssumption
       DEF IInv, SectionInv, MutexInv, InLaceSection, InSylvanSection, TypeOK,
           CountSylvan, SylvanFree
<1>7. SylvanUsesLace /\ SylvanUsesLace'
    BY <1>1, <1>2, JobsAssumption
       DEF IInv, SylvanUsesLace, At, MutexInv, SectionInv, InLaceSection, InSylvanSection,
           TypeOK, CountSylvan, SylvanFree
<1>8. LaceCountInv' /\ SylvanCountInv'
    BY <1>1, <1>3, <1>7, FiniteUsers
       DEF IInv, LaceCountInv, SylvanCountInv, TypeOK, CountSylvan, SylvanFree
<1>9. LaceInv'
    BY <1>1, <1>2, JobsAssumption
       DEF IInv, LaceInv, At, TypeOK, MutexInv, SectionInv, InLaceSection, CountSylvan,
           SylvanFree
<1>10. PackageInv'
    BY <1>1, <1>2, JobsAssumption
       DEF IInv, PackageInv, At, TypeOK, MutexInv, SectionInv, InSylvanSection,
           CountSylvan, SylvanFree
<1> QED BY <1>4, <1>5, <1>6, <1>8, <1>9, <1>10 DEF IInv

\* maybe_initialize_sylvan of the first user, until it starts Lace.
LEMMA LockSylvanKeeps ==
    ASSUME IInv, NEW j \in Jobs,
           LockSylvan(j)
    PROVE  IInv'
<1> DEFINE loc == "lace_init"
<1>1. /\ TypeOK /\ loc \in Locations /\ Goto(j, loc)
      /\ pc[j] = "handler_ctor" /\ j \in Constrained
    BY DEF IInv, KindInv, LockSylvan, SylvanFree, Locations, InLaceSection, InSylvanSection
<1>2. /\ pc' \in [Jobs -> Locations]
      /\ pc'[j] = loc
      /\ \A k \in Jobs \ {j} : pc'[k] = pc[k]
    BY <1>1, Moved
<1>3. /\ Cardinality(Executors)' = Cardinality(Executors)
      /\ Cardinality(Handlers)' = Cardinality(Handlers)
    BY <1>1, ExecutorsMove, HandlersMove, FiniteUsers DEF NotExecuting, HandlerLocations
<1>4. TypeOK'
    BY <1>1, <1>2, JobsAssumption DEF IInv, TypeOK, LockSylvan, SylvanFree
<1>5. MutexInv' /\ KindInv'
    BY <1>1, <1>2, JobsAssumption
       DEF IInv, MutexInv, KindInv, InLaceSection, InSylvanSection, LockSylvan, SylvanFree
<1>6. SectionInv'
    BY <1>1, <1>2, JobsAssumption
       DEF IInv, SectionInv, MutexInv, InLaceSection, InSylvanSection, TypeOK,
           LockSylvan, SylvanFree
<1>7. SylvanUsesLace' <=> SylvanUsesLace
    BY <1>1, <1>2, JobsAssumption
       DEF IInv, SylvanUsesLace, At, MutexInv, SectionInv, InLaceSection, InSylvanSection,
           TypeOK, LockSylvan, SylvanFree
<1>8. LaceCountInv' /\ SylvanCountInv'
    BY <1>1, <1>3, <1>7, FiniteUsers
       DEF IInv, LaceCountInv, SylvanCountInv, TypeOK, LockSylvan, SylvanFree
<1>9. LaceInv'
    BY <1>1, <1>2, JobsAssumption
       DEF IInv, LaceInv, At, TypeOK, MutexInv, SectionInv, InLaceSection, LockSylvan,
           SylvanFree
<1>10. PackageInv'
    BY <1>1, <1>2, JobsAssumption
       DEF IInv, PackageInv, At, TypeOK, MutexInv, SectionInv, InSylvanSection,
           LockSylvan, SylvanFree
<1> QED BY <1>4, <1>5, <1>6, <1>8, <1>9, <1>10 DEF IInv

\* maybe_initialize_sylvan of the first user, once Lace runs.
LEMMA InitPackageKeeps ==
    ASSUME IInv, NEW j \in Jobs,
           InitPackage(j)
    PROVE  IInv'
<1> DEFINE loc == "init_ldd"
<1>1. /\ TypeOK /\ loc \in Locations /\ Goto(j, loc)
      /\ pc[j] = "init_package" /\ j \in Constrained
    BY DEF IInv, KindInv, InitPackage, Locations, InLaceSection, InSylvanSection
<1>2. /\ pc' \in [Jobs -> Locations]
      /\ pc'[j] = loc
      /\ \A k \in Jobs \ {j} : pc'[k] = pc[k]
    BY <1>1, Moved
<1>3. /\ Cardinality(Executors)' = Cardinality(Executors)
      /\ Cardinality(Handlers)' = Cardinality(Handlers)
    BY <1>1, ExecutorsMove, HandlersMove, FiniteUsers DEF NotExecuting, HandlerLocations
<1>4. TypeOK'
    BY <1>1, <1>2, JobsAssumption DEF IInv, TypeOK, InitPackage
<1>5. MutexInv' /\ KindInv'
    BY <1>1, <1>2, JobsAssumption
       DEF IInv, MutexInv, KindInv, InLaceSection, InSylvanSection, InitPackage
<1>6. SectionInv'
    BY <1>1, <1>2, JobsAssumption
       DEF IInv, SectionInv, MutexInv, InLaceSection, InSylvanSection, TypeOK, InitPackage
<1>7. SylvanUsesLace /\ SylvanUsesLace'
    BY <1>1, <1>2, JobsAssumption
       DEF IInv, SylvanUsesLace, At, MutexInv, SectionInv, InLaceSection, InSylvanSection,
           TypeOK, InitPackage
<1>8. LaceCountInv' /\ SylvanCountInv'
    BY <1>1, <1>3, <1>7, FiniteUsers
       DEF IInv, LaceCountInv, SylvanCountInv, TypeOK, InitPackage
<1>9. LaceInv'
    BY <1>1, <1>2, JobsAssumption
       DEF IInv, LaceInv, At, TypeOK, MutexInv, SectionInv, InLaceSection, InitPackage
<1>10. PackageInv'
    BY <1>1, <1>2, JobsAssumption
       DEF IInv, PackageInv, At, TypeOK, MutexInv, SectionInv, InSylvanSection, InitPackage
<1> QED BY <1>4, <1>5, <1>6, <1>8, <1>9, <1>10 DEF IInv

\* maybe_initialize_sylvan of the first user, the rest.
LEMMA InitLddKeeps ==
    ASSUME IInv, NEW j \in Jobs,
           InitLdd(j)
    PROVE  IInv'
<1> DEFINE loc == "work"
<1>1. /\ TypeOK /\ loc \in Locations /\ Goto(j, loc)
      /\ pc[j] = "init_ldd" /\ j \in Constrained
    BY DEF IInv, KindInv, InitLdd, Locations, InLaceSection, InSylvanSection
<1>2. /\ pc' \in [Jobs -> Locations]
      /\ pc'[j] = loc
      /\ \A k \in Jobs \ {j} : pc'[k] = pc[k]
    BY <1>1, Moved
<1>3. /\ Cardinality(Executors)' = Cardinality(Executors)
      /\ Cardinality(Handlers)' = Cardinality(Handlers) + 1
    BY <1>1, ExecutorsMove, HandlersMove, FiniteUsers DEF NotExecuting, HandlerLocations
<1>4. TypeOK'
    BY <1>1, <1>2, JobsAssumption DEF IInv, TypeOK, InitLdd
<1>5. MutexInv' /\ KindInv'
    BY <1>1, <1>2, JobsAssumption
       DEF IInv, MutexInv, KindInv, InLaceSection, InSylvanSection, InitLdd
<1>6. SectionInv'
    BY <1>1, <1>2, JobsAssumption
       DEF IInv, SectionInv, MutexInv, InLaceSection, InSylvanSection, TypeOK, InitLdd
<1>7. SylvanUsesLace /\ SylvanUsesLace'
    BY <1>1, <1>2, JobsAssumption
       DEF IInv, SylvanUsesLace, At, MutexInv, SectionInv, InLaceSection, InSylvanSection,
           TypeOK, InitLdd
<1>8. LaceCountInv' /\ SylvanCountInv'
    BY <1>1, <1>3, <1>7, FiniteUsers
       DEF IInv, LaceCountInv, SylvanCountInv, TypeOK, InitLdd
<1>9. LaceInv'
    BY <1>1, <1>2, JobsAssumption
       DEF IInv, LaceInv, At, TypeOK, MutexInv, SectionInv, InLaceSection, InitLdd
<1>10. PackageInv'
    BY <1>1, <1>2, JobsAssumption
       DEF IInv, PackageInv, At, TypeOK, MutexInv, SectionInv, InSylvanSection, InitLdd
<1> QED BY <1>4, <1>5, <1>6, <1>8, <1>9, <1>10 DEF IInv

\* maybe_shutdown_sylvan, until the last user stops Sylvan.
LEMMA LeaveSylvanKeeps ==
    ASSUME IInv, NEW j \in Jobs,
           LeaveSylvan(j)
    PROVE  IInv'
<1> DEFINE loc == IF LastSylvanUser THEN "quit_package" ELSE "executor_dtor"
<1>1. /\ TypeOK /\ loc \in Locations /\ Goto(j, loc)
      /\ pc[j] = "handler_dtor" /\ j \in Constrained
    BY DEF IInv, KindInv, LeaveSylvan, SylvanFree, LastSylvanUser, Locations,
           InLaceSection, InSylvanSection
<1>2. /\ pc' \in [Jobs -> Locations]
      /\ pc'[j] = loc
      /\ \A k \in Jobs \ {j} : pc'[k] = pc[k]
    BY <1>1, Moved
<1>3. /\ Cardinality(Executors)' = Cardinality(Executors)
      /\ Cardinality(Handlers)' = Cardinality(Handlers) - 1
    BY <1>1, ExecutorsMove, HandlersMove, FiniteUsers DEF NotExecuting, HandlerLocations
<1>4. sylvanCount # 0
    BY <1>1, ExecutorsMove, HandlersMove, FiniteUsers
       DEF IInv, TypeOK, NotExecuting, HandlerLocations, LaceCountInv, SylvanCountInv,
           SylvanUsesLace, At
<1>5. TypeOK'
    BY <1>1, <1>2, <1>4, JobsAssumption DEF IInv, TypeOK, LeaveSylvan, SylvanFree, LastSylvanUser
<1>6. MutexInv' /\ KindInv'
    BY <1>1, <1>2, JobsAssumption
       DEF IInv, MutexInv, KindInv, InLaceSection, InSylvanSection, LeaveSylvan,
           SylvanFree, LastSylvanUser
<1>7. SectionInv'
    BY <1>1, <1>2, JobsAssumption
       DEF IInv, SectionInv, MutexInv, InLaceSection, InSylvanSection, TypeOK,
           LeaveSylvan, SylvanFree, LastSylvanUser
<1>8. SylvanUsesLace /\ SylvanUsesLace'
    BY <1>1, <1>2, <1>4, JobsAssumption
       DEF IInv, SylvanUsesLace, At, MutexInv, SectionInv, InLaceSection, InSylvanSection,
           TypeOK, LeaveSylvan, SylvanFree, LastSylvanUser
<1>9. LaceCountInv' /\ SylvanCountInv'
    BY <1>1, <1>3, <1>8, FiniteUsers
       DEF IInv, LaceCountInv, SylvanCountInv, TypeOK, LeaveSylvan, SylvanFree, LastSylvanUser
<1>10. LaceInv'
    BY <1>1, <1>2, <1>4, JobsAssumption
       DEF IInv, LaceInv, At, TypeOK, MutexInv, SectionInv, InLaceSection, LeaveSylvan,
           SylvanFree, LastSylvanUser
<1>11. PackageInv'
    BY <1>1, <1>2, <1>4, JobsAssumption
       DEF IInv, PackageInv, At, TypeOK, MutexInv, SectionInv, InSylvanSection,
           LeaveSylvan, SylvanFree, LastSylvanUser
<1> QED BY <1>5, <1>6, <1>7, <1>9, <1>10, <1>11 DEF IInv

\* maybe_shutdown_sylvan of the last user, until it leaves Lace.
LEMMA QuitPackageKeeps ==
    ASSUME IInv, NEW j \in Jobs,
           QuitPackage(j)
    PROVE  IInv'
<1> DEFINE loc == "lace_quit"
<1>1. /\ TypeOK /\ loc \in Locations /\ Goto(j, loc)
      /\ pc[j] = "quit_package" /\ j \in Constrained
    BY DEF IInv, KindInv, QuitPackage, Locations, InLaceSection, InSylvanSection
<1>2. /\ pc' \in [Jobs -> Locations]
      /\ pc'[j] = loc
      /\ \A k \in Jobs \ {j} : pc'[k] = pc[k]
    BY <1>1, Moved
<1>3. /\ Cardinality(Executors)' = Cardinality(Executors)
      /\ Cardinality(Handlers)' = Cardinality(Handlers)
    BY <1>1, ExecutorsMove, HandlersMove, FiniteUsers DEF NotExecuting, HandlerLocations
<1>4. TypeOK'
    BY <1>1, <1>2, JobsAssumption DEF IInv, TypeOK, QuitPackage
<1>5. MutexInv' /\ KindInv'
    BY <1>1, <1>2, JobsAssumption
       DEF IInv, MutexInv, KindInv, InLaceSection, InSylvanSection, QuitPackage
<1>6. SectionInv'
    BY <1>1, <1>2, JobsAssumption
       DEF IInv, SectionInv, MutexInv, InLaceSection, InSylvanSection, TypeOK, QuitPackage
<1>7. SylvanUsesLace /\ SylvanUsesLace'
    BY <1>1, <1>2, JobsAssumption
       DEF IInv, SylvanUsesLace, At, MutexInv, SectionInv, InLaceSection, InSylvanSection,
           TypeOK, QuitPackage
<1>8. LaceCountInv' /\ SylvanCountInv'
    BY <1>1, <1>3, <1>7, FiniteUsers
       DEF IInv, LaceCountInv, SylvanCountInv, TypeOK, QuitPackage
<1>9. LaceInv'
    BY <1>1, <1>2, JobsAssumption
       DEF IInv, LaceInv, At, TypeOK, MutexInv, SectionInv, InLaceSection, QuitPackage
<1>10. PackageInv'
    BY <1>1, <1>2, JobsAssumption
       DEF IInv, PackageInv, At, TypeOK, MutexInv, SectionInv, InSylvanSection, QuitPackage
<1> QED BY <1>4, <1>5, <1>6, <1>8, <1>9, <1>10 DEF IInv

\* maybe_shutdown_sylvan of the last user, the rest.
LEMMA UnlockSylvanKeeps ==
    ASSUME IInv, NEW j \in Jobs,
           UnlockSylvan(j)
    PROVE  IInv'
<1> DEFINE loc == "executor_dtor"
<1>1. /\ TypeOK /\ loc \in Locations /\ Goto(j, loc)
      /\ pc[j] = "unlock" /\ j \in Constrained
    BY DEF IInv, KindInv, UnlockSylvan, Locations, InLaceSection, InSylvanSection
<1>2. /\ pc' \in [Jobs -> Locations]
      /\ pc'[j] = loc
      /\ \A k \in Jobs \ {j} : pc'[k] = pc[k]
    BY <1>1, Moved
<1>3. /\ Cardinality(Executors)' = Cardinality(Executors)
      /\ Cardinality(Handlers)' = Cardinality(Handlers)
    BY <1>1, ExecutorsMove, HandlersMove, FiniteUsers DEF NotExecuting, HandlerLocations
<1>4. TypeOK'
    BY <1>1, <1>2, JobsAssumption DEF IInv, TypeOK, UnlockSylvan
<1>5. MutexInv' /\ KindInv'
    BY <1>1, <1>2, JobsAssumption
       DEF IInv, MutexInv, KindInv, InLaceSection, InSylvanSection, UnlockSylvan
<1>6. SectionInv'
    BY <1>1, <1>2, JobsAssumption
       DEF IInv, SectionInv, MutexInv, InLaceSection, InSylvanSection, TypeOK, UnlockSylvan
<1>7. SylvanUsesLace' <=> SylvanUsesLace
    BY <1>1, <1>2, JobsAssumption
       DEF IInv, SylvanUsesLace, At, MutexInv, SectionInv, InLaceSection, InSylvanSection,
           TypeOK, UnlockSylvan
<1>8. LaceCountInv' /\ SylvanCountInv'
    BY <1>1, <1>3, <1>7, FiniteUsers
       DEF IInv, LaceCountInv, SylvanCountInv, TypeOK, UnlockSylvan
<1>9. LaceInv'
    BY <1>1, <1>2, JobsAssumption
       DEF IInv, LaceInv, At, TypeOK, MutexInv, SectionInv, InLaceSection, UnlockSylvan
<1>10. PackageInv'
    BY <1>1, <1>2, JobsAssumption
       DEF IInv, PackageInv, At, TypeOK, MutexInv, SectionInv, InSylvanSection, UnlockSylvan
<1> QED BY <1>4, <1>5, <1>6, <1>8, <1>9, <1>10 DEF IInv

-------------------------------------------------------------------------------
(* Theorems *)

\* In the beginning nothing runs and nobody counts.
LEMMA InitKeeps == Init => IInv
<1> SUFFICES ASSUME Init PROVE IInv
    OBVIOUS
<1>1. Executors = {} /\ Handlers = {}
    BY JobsAssumption DEF Init, Executors, Handlers, NotExecuting, HandlerLocations
<1>2. Cardinality(Executors) = 0 /\ Cardinality(Handlers) = 0
    BY <1>1, FS_EmptySet
<1>3. ~ SylvanUsesLace
    BY DEF Init, SylvanUsesLace, At
<1>4. TypeOK /\ MutexInv /\ KindInv /\ SectionInv
    BY JobsAssumption DEF Init, TypeOK, MutexInv, KindInv, SectionInv, Locations,
                          InLaceSection, InSylvanSection
<1>5. LaceCountInv /\ SylvanCountInv
    BY <1>2, <1>3 DEF Init, LaceCountInv, SylvanCountInv
<1>6. LaceInv /\ PackageInv
    BY DEF Init, LaceInv, PackageInv, At
<1> QED BY <1>4, <1>5, <1>6 DEF IInv

\* Steps of functor_executor_lace.
LEMMA ExecutorKeeps ==
    ASSUME IInv, NEW j \in Jobs, Executor(j)
    PROVE  IInv'
<1>1. CASE CountLace(j, "executor_ctor", "handler_ctor")
    BY <1>1, CountLaceKeeps
<1>2. CASE LockLace(j, "executor_ctor", "executor_start")
    BY <1>2, LockLaceKeeps
<1>3. CASE StartLace(j, "executor_start", "handler_ctor")
    BY <1>3, StartLaceKeeps
<1>4. CASE j \in Measuring /\ LeaveLace(j, "executor_dtor", "executor_stop", "done")
    BY <1>4, LeaveLaceKeeps
<1>5. CASE StopLace(j, "executor_stop", "done")
    BY <1>5, StopLaceKeeps
<1> QED BY <1>1, <1>2, <1>3, <1>4, <1>5 DEF Executor

\* Steps of constraint_handler_sylvan_base.
LEMMA HandlerKeeps ==
    ASSUME IInv, NEW j \in Jobs, Handler(j)
    PROVE  IInv'
<1>1. CASE CountLace(j, "lace_init", "init_package")
    BY <1>1, CountLaceKeeps
<1>2. CASE LockLace(j, "lace_init", "lace_start")
    BY <1>2, LockLaceKeeps
<1>3. CASE StartLace(j, "lace_start", "init_package")
    BY <1>3, StartLaceKeeps
<1>4. CASE LeaveLace(j, "lace_quit", "lace_stop", "unlock")
    BY <1>4, LeaveLaceKeeps
<1>5. CASE StopLace(j, "lace_stop", "unlock")
    BY <1>5, StopLaceKeeps
<1>6. CASE CountSylvan(j) \/ LockSylvan(j) \/ InitPackage(j) \/ InitLdd(j)
    BY <1>6, CountSylvanKeeps, LockSylvanKeeps, InitPackageKeeps, InitLddKeeps
<1>7. CASE LeaveSylvan(j) \/ QuitPackage(j) \/ UnlockSylvan(j)
    BY <1>7, LeaveSylvanKeeps, QuitPackageKeeps, UnlockSylvanKeeps
<1> QED BY <1>1, <1>2, <1>3, <1>4, <1>5, <1>6, <1>7 DEF Handler

\* A step that changes nothing.
LEMMA StutterKeeps == IInv /\ UNCHANGED vars => IInv'
<1> SUFFICES ASSUME IInv, UNCHANGED vars PROVE IInv'
    OBVIOUS
<1>1. Executors' = Executors /\ Handlers' = Handlers
    BY DEF vars, Executors, Handlers
<1>2. SylvanUsesLace' <=> SylvanUsesLace
    BY DEF vars, SylvanUsesLace, At
<1>3. LaceCountInv' /\ SylvanCountInv'
    BY <1>1, <1>2 DEF IInv, vars, LaceCountInv, SylvanCountInv
<1>4. TypeOK' /\ MutexInv' /\ KindInv' /\ SectionInv'
    BY DEF IInv, vars, TypeOK, MutexInv, KindInv, SectionInv
<1>5. LaceInv' /\ PackageInv'
    BY DEF IInv, vars, LaceInv, PackageInv, At
<1> QED BY <1>3, <1>4, <1>5 DEF IInv

LEMMA NextKeeps == IInv /\ [Next]_vars => IInv'
<1> SUFFICES ASSUME IInv, Next PROVE IInv'
    BY StutterKeeps
<1> PICK j \in Jobs : Begin(j) \/ Step(j)
    BY DEF Next
<1>1. CASE Begin(j) \/ CreateVoidHandler(j) \/ FinishWork(j) \/ End(j)
    BY <1>1, EntryPointKeeps
<1>2. CASE Executor(j)
    BY <1>2, ExecutorKeeps
<1>3. CASE Handler(j)
    BY <1>3, HandlerKeeps
<1> QED BY <1>1, <1>2, <1>3 DEF Step

\* The counters count the users, the packages run while they are counted, and the
\* mutexes are held by whoever is in a section.
THEOREM InductiveInvariant == Spec => []IInv
BY InitKeeps, NextKeeps, PTL DEF Spec

\* The variables have their types.
THEOREM TypeCorrect == Spec => []TypeOK
<1>1. IInv => TypeOK
    BY DEF IInv
<1> QED BY <1>1, InductiveInvariant, PTL

\* Tasks are given to Lace only while its workers run, with any number of jobs.
LEMMA TasksNeedLace == IInv => LaceRunsForTasks
<1> SUFFICES ASSUME IInv, NEW j \in Jobs, RunsTasks(j) PROVE laceCount # 0
    BY DEF IInv, LaceInv, TypeOK, LaceRunsForTasks
<1>1. CASE j \in Measuring /\ pc[j] = "work"
    <2>1. j \in Executors
        BY <1>1 DEF Executors, NotExecuting
    <2> QED BY <2>1, FiniteUsers, FS_EmptySet DEF IInv, LaceCountInv, TypeOK
<1>2. CASE j \in Constrained /\ pc[j] = "work"
    <2>1. j \in Handlers
        BY <1>2 DEF Handlers, HandlerLocations
    <2>2. sylvanCount # 0
        BY <2>1, FiniteUsers, FS_EmptySet DEF IInv, SylvanCountInv
    <2> QED BY <2>2, FiniteUsers DEF IInv, LaceCountInv, SylvanUsesLace
<1>3. CASE pc[j] \in {"init_package", "init_ldd", "quit_package"}
    BY <1>3, FiniteUsers DEF IInv, LaceCountInv, SylvanUsesLace, At
<1> QED BY <1>1, <1>2, <1>3 DEF RunsTasks

\* The same of every reachable state: the first user has started Lace, and the last
\* one has not stopped it.
THEOREM LaceAlwaysRuns == Spec => []LaceRunsForTasks
BY TasksNeedLace, InductiveInvariant, PTL

\* Sylvan is ready as long as a job works with its decision diagrams.
THEOREM SylvanAlwaysReady == Spec => []SylvanReadyForDiagrams
<1>1. IInv => SylvanReadyForDiagrams
    <2> SUFFICES ASSUME IInv, NEW j \in Jobs, HasDiagram(j) PROVE sylvanCount # 0
        BY DEF IInv, PackageInv, SylvanReadyForDiagrams
    <2>1. j \in Handlers
        BY DEF HasDiagram, Handlers, HandlerLocations
    <2> QED BY <2>1, FiniteUsers, FS_EmptySet DEF IInv, SylvanCountInv
<1> QED BY <1>1, InductiveInvariant, PTL

\* A start finds the package off, a stop finds it running.
LEMMA StartOrStop == IInv => StartsAndStopsAlternate
<1> SUFFICES ASSUME IInv, NEW j \in Jobs
             PROVE  /\ pc[j] \in {"executor_start", "lace_start"} => lace = 0
                    /\ pc[j] \in {"executor_stop", "lace_stop"} => lace # 0
                    /\ pc[j] = "init_package" => package = "off"
                    /\ pc[j] = "quit_package" => package = "ready"
    BY DEF StartsAndStopsAlternate
<1>1. ASSUME pc[j] \in {"executor_start", "lace_start"} PROVE lace = 0
    BY <1>1, JobsAssumption DEF IInv, LaceInv, MutexInv, SectionInv, TypeOK, At, InLaceSection
<1>2. ASSUME pc[j] \in {"executor_stop", "lace_stop"} PROVE lace # 0
    BY <1>2 DEF IInv, LaceInv, At
<1>3. ASSUME pc[j] = "init_package" PROVE package = "off"
    BY <1>3, JobsAssumption
       DEF IInv, PackageInv, MutexInv, SectionInv, TypeOK, At, InSylvanSection
<1>4. ASSUME pc[j] = "quit_package" PROVE package = "ready"
    BY <1>4 DEF IInv, PackageInv, At
<1> QED BY <1>1, <1>2, <1>3, <1>4

\* Lace and Sylvan are started only when they do not run, and stopped only when
\* they do.
THEOREM AlternationAlways == Spec => []StartsAndStopsAlternate
BY StartOrStop, InductiveInvariant, PTL

\* No worker and no table outlives the jobs.
THEOREM NothingEverLeftRunning == Spec => []NothingLeftRunning
<1>1. IInv => NothingLeftRunning
    <2> SUFFICES ASSUME IInv, \A j \in Jobs : pc[j] \in {"idle", "done"}
                 PROVE  lace = 0 /\ package = "off" /\ laceCount = 0 /\ sylvanCount = 0
        BY DEF NothingLeftRunning
    <2>1. Executors = {} /\ Handlers = {}
        BY JobsAssumption DEF Executors, Handlers, NotExecuting, HandlerLocations
    <2>2. sylvanCount = 0
        BY <2>1, FS_EmptySet DEF IInv, SylvanCountInv
    <2>3. laceCount = 0
        BY <2>1, <2>2, FS_EmptySet DEF IInv, LaceCountInv, SylvanUsesLace, At
    <2> QED BY <2>2, <2>3 DEF IInv, LaceInv, PackageInv, TypeOK, At
<1> QED BY <1>1, InductiveInvariant, PTL

\* A step between two states in both of which a job gives tasks keeps the workers:
\* only a start finds none, and only a stop leaves none.
LEMMA StepKeepsWorkers ==
    ASSUME IInv, IInv', Next, NEW k \in Jobs, RunsTasks(k), RunsTasks(k)'
    PROVE  lace' = lace
<1> SUFFICES ASSUME lace' # lace PROVE FALSE
    OBVIOUS
<1>0. LaceRunsForTasks'
    BY TasksNeedLace, PTL
<1>1. lace # 0 /\ lace' # 0
    BY <1>0, TasksNeedLace DEF LaceRunsForTasks
<1> PICK j \in Jobs : Begin(j) \/ Step(j)
    BY DEF Next
<1>2. CASE \/ StartLace(j, "executor_start", "handler_ctor")
           \/ StartLace(j, "lace_start", "init_package")
    BY <1>1, <1>2, StartOrStop DEF StartsAndStopsAlternate, StartLace
<1>3. CASE \/ StopLace(j, "executor_stop", "done")
           \/ StopLace(j, "lace_stop", "unlock")
    BY <1>1, <1>3 DEF StopLace
<1>4. CASE Begin(j) \/ CreateVoidHandler(j) \/ FinishWork(j) \/ End(j)
    BY <1>4 DEF Begin, CreateVoidHandler, FinishWork, End
<1>5. CASE \E at, next : CountLace(j, at, next) \/ LockLace(j, at, next)
    BY <1>5 DEF CountLace, LockLace
<1>6. CASE \E at, stop, next : LeaveLace(j, at, stop, next)
    BY <1>6 DEF LeaveLace
<1>7. CASE CountSylvan(j) \/ LockSylvan(j) \/ InitPackage(j) \/ InitLdd(j)
    BY <1>7 DEF CountSylvan, LockSylvan, InitPackage, InitLdd
<1>8. CASE LeaveSylvan(j) \/ QuitPackage(j) \/ UnlockSylvan(j)
    BY <1>8 DEF LeaveSylvan, QuitPackage, UnlockSylvan
<1> QED BY <1>2, <1>3, <1>4, <1>5, <1>6, <1>7, <1>8 DEF Step, Executor, Handler

\* The workers are not replaced while a job gives tasks to them.
THEOREM WorkersAlwaysKept == Spec => WorkersKept
<1>1. IInv /\ IInv' /\ [Next]_vars
          => [\A j \in Jobs : RunsTasks(j) /\ RunsTasks(j)' => lace' = lace]_vars
    BY StepKeepsWorkers
<1> QED BY <1>1, InductiveInvariant, PTL DEF Spec, WorkersKept
===============================================================================

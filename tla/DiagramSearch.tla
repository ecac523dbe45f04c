----------------------------- MODULE DiagramSearch -----------------------------
(***************************************************************************)
(* The two searches of a diagram under a partial assignment: whether it    *)
(* has a path that agrees with the assignment, and which values of one     *)
(* variable such paths have.  Both walk the diagram by Lace tasks: a task  *)
(* stands on a node and either follows the value the assignment has for    *)
(* the node's level or spawns one task for the node to the right and calls *)
(* another for the node below.  The tasks of a call share the flag         *)
(* terminate, set by one that has found all there is to find; all calls    *)
(* share Sylvan's operation cache, which may lose an entry at any time.    *)
(*                                                                         *)
(* What a task works on is a problem: the node, its level, the rest of the *)
(* assignment (the two cubes of the code, as a function from levels to     *)
(* values) and the level of the variable searched for, 0 if there is none. *)
(* What it finds is a set: of values on and above the variable's level,    *)
(* and below it, or without a variable, {Yes} for true and {} for false.   *)
(***************************************************************************)
EXTENDS DiagramNodes, Sequences

CONSTANTS
    Calls,        \* calls of a search
    Problems,     \* what tasks may have to work on
    Questions,    \* [problem, full]: what a call may ask, and all it may find
    Solution      \* what is to be found, for each problem

Yes == -1

IsSat(p) == p.target = 0

\* variables_cube == lddmc_true, and the variable's level has been passed.
Solved(p) == DOMAIN p.cube = {} /\ p.target < p.level

Assigned(p) == p.level \in DOMAIN p.cube
Value(p) == p.cube[p.level]

At(p, n) == [p EXCEPT !.node = n]

\* The problem of the task below: one level deeper, without the assignment's
\* value for this one.
Below(p) == [node |-> Down(p.node), level |-> p.level + 1,
             cube |-> [l \in DOMAIN p.cube \ {p.level} |-> p.cube[l]],
             target |-> p.target]

\* What the two branches amount to.
Collected(p, down, right) ==
    IF p.level # p.target THEN down \union right
    ELSE IF down = {Yes} THEN (Lb(p.node) .. Ub(p.node)) \union right ELSE right

\* There is something to look at below and to the right.
Open(p) == ~Solved(p) /\ p.node # lddFalse

InInterval(p) == Value(p) \in Lb(p.node) .. Ub(p.node)

(***************************************************************************)
(* The solution of a problem is what the search finds with no cache, no    *)
(* flag and one task at a time.  A variable's values are within its        *)
(* domain.                                                                 *)
(***************************************************************************)
ASSUME SolutionAssumption ==
    \A p \in Problems :
        /\ Solution[p] \subseteq Int
        /\ Solved(p) => Solution[p] = {Yes}
        /\ ~Solved(p) /\ p.node = lddFalse => Solution[p] = {}
        /\ Open(p) /\ ~Assigned(p) =>
              /\ {Below(p), At(p, Right(p.node))} \subseteq Problems
              /\ Solution[p] = Collected(p, Solution[Below(p)],
                                         Solution[At(p, Right(p.node))])
        /\ Open(p) /\ Assigned(p) =>
              IF InInterval(p)
              THEN Below(p) \in Problems /\ Solution[p] = Solution[Below(p)]
              ELSE IF Value(p) < Lb(p.node) THEN Solution[p] = {}
              ELSE /\ At(p, Right(p.node)) \in Problems
                   /\ Solution[p] = Solution[At(p, Right(p.node))]

ASSUME ProblemAssumption ==
    \A p \in Problems :
        /\ p = [node |-> p.node, level |-> p.level, cube |-> p.cube, target |-> p.target]
        /\ p.level \in Nat \ {0} /\ p.target \in Nat
        /\ p.level > p.target => Solution[p] \subseteq {Yes}

ASSUME QuestionAssumption ==
    \A q \in Questions :
        /\ q = [problem |-> q.problem, full |-> q.full]
        /\ q.problem \in Problems
        /\ q.problem.node # lddFalse
        /\ Solution[q.problem] \subseteq q.full
        /\ IF IsSat(q.problem) THEN q.full = {Yes}
           ELSE q.full \subseteq Nat /\ q.full # {} /\ q.problem.level <= q.problem.target

VARIABLES
    question,     \* what each call has asked
    answer,       \* what each call has returned
    tasks,        \* the tasks that have not been joined, by call and path
    terminate,    \* per call
    cache         \* Sylvan's operation cache, for these two searches

vars == <<question, answer, tasks, terminate, cache>>

Unasked == [full |-> {}]
Unanswered == {-2}

SearchInit ==
    /\ question = [c \in Calls |-> Unasked]
    /\ answer = [c \in Calls |-> Unanswered]
    /\ tasks = <<>>
    /\ terminate = [c \in Calls |-> FALSE]
    /\ cache = <<>>

\* A task is named by its call and by the way to it from the root task.
Root(c) == <<c, <<>>>>
Child(t, branch) == <<t[1], Append(t[2], branch)>>

Started(p) == [problem |-> p, node |-> p.node, pc |-> "visit", found |-> {}]

Problem(t) == At(tasks[t].problem, tasks[t].node)

Begin(c, q) ==
    /\ question[c] = Unasked
    /\ question' = [question EXCEPT ![c] = q]
    /\ tasks' = [t \in DOMAIN tasks \union {Root(c)} |->
                   IF t = Root(c) THEN Started(q.problem) ELSE tasks[t]]
    /\ UNCHANGED <<answer, terminate, cache>>

\* The task returns; whoever joins it reads what it has found.
End(t, found) ==
    tasks' = [tasks EXCEPT ![t].pc = "ended", ![t].found = found]

\* Up to the cache: the end of the recursion, first of all; a stop on false or
\* because of the flag; and one step to the right, when the assignment has a
\* value for this level and it is greater than those of this node.
Visit(t) ==
    LET p == Problem(t)
        n == p.node
    IN /\ tasks[t].pc = "visit"
       /\ IF Solved(p)
          THEN End(t, {Yes}) /\ terminate' = [terminate EXCEPT ![t[1]] = @ \/ IsSat(p)]
          ELSE /\ UNCHANGED terminate
               /\ IF n = lddFalse \/ terminate[t[1]] THEN End(t, {})
                  ELSE IF ~Assigned(p) \/ InInterval(p)
                  THEN tasks' = [tasks EXCEPT ![t].pc = "lookup"]
                  ELSE IF Value(p) < Lb(n) THEN End(t, {})
                  ELSE tasks' = [tasks EXCEPT ![t].node = Right(n)]
       /\ UNCHANGED <<question, answer, cache>>

\* Mutant: the key without the level.
KeyWithoutLevel(p) == [p EXCEPT !.level = 0]

\* The key of the cache: the node, both cubes, the level and the variable.
Key(p) == p

Hit(t) ==
    /\ tasks[t].pc = "lookup"
    /\ Key(Problem(t)) \in DOMAIN cache
    /\ End(t, cache[Key(Problem(t))])
    /\ UNCHANGED <<question, answer, terminate, cache>>

Branches(p) == IF Assigned(p) THEN {"down"} ELSE {"down", "right"}

Branch(p, branch) == IF branch = "down" THEN Below(p) ELSE At(p, Right(p.node))

\* An entry may have been lost, so that none is found where one was put.
Miss(t) ==
    LET p == Problem(t)
        children == {Child(t, b) : b \in Branches(p)}
    IN /\ tasks[t].pc = "lookup"
       /\ tasks' = [u \in DOMAIN tasks \union children |->
                      IF u = t THEN [tasks[t] EXCEPT !.pc = "wait"]
                      ELSE IF u = Child(t, "down") THEN Started(Branch(p, "down"))
                      ELSE IF u = Child(t, "right") THEN Started(Branch(p, "right"))
                      ELSE tasks[u]]
       /\ UNCHANGED <<question, answer, terminate, cache>>

Found(t, branch) == tasks[Child(t, branch)].found

\* What the branches have found; of a search for values on a level without one
\* in the assignment, nothing if the flag is set and this is not all there is:
\* it may be a part.
Result(t, p) ==
    IF Assigned(p) THEN Found(t, "down")
    ELSE LET all == Collected(p, Found(t, "down"), Found(t, "right"))
         IN IF ~IsSat(p) /\ all # question[t[1]].full /\ terminate[t[1]] THEN {} ELSE all

\* Mutant: whatever has been found is put into the cache.
CachableAlways(t, result) == TRUE

\* Only what cannot be a part of the solution is put into the cache.
Cachable(t, result) == ~terminate[t[1]] \/ result = question[t[1]].full

\* The search for values sets the flag when it has all of the domain.
FindsAll(t, p, result) ==
    ~IsSat(p) /\ ~Assigned(p) /\ result = question[t[1]].full

Sync(t) ==
    LET p == Problem(t)
        children == {Child(t, b) : b \in Branches(p)}
        result == Result(t, p)
    IN /\ tasks[t].pc = "wait"
       /\ \A u \in children : tasks[u].pc = "ended"
       /\ tasks' = [u \in DOMAIN tasks \ children |->
                      IF u = t THEN [tasks[t] EXCEPT !.pc = "ended", !.found = result]
                      ELSE tasks[u]]
       /\ terminate' = [terminate EXCEPT ![t[1]] = @ \/ FindsAll(t, p, result)]
       /\ IF Cachable(t, result)
          THEN cache' = [k \in DOMAIN cache \union {Key(p)} |->
                           IF k = Key(p) THEN result ELSE cache[k]]
          ELSE UNCHANGED cache
       /\ UNCHANGED <<question, answer>>

Return(c) ==
    LET t == Root(c)
    IN /\ t \in DOMAIN tasks
       /\ tasks[t].pc = "ended"
       /\ answer' = [answer EXCEPT ![c] = tasks[t].found]
       /\ tasks' = [u \in DOMAIN tasks \ {t} |-> tasks[u]]
       /\ UNCHANGED <<question, terminate, cache>>

Step(t) == Visit(t) \/ Hit(t) \/ Miss(t) \/ Sync(t)

Advance(c) == Return(c) \/ \E t \in DOMAIN tasks : t[1] = c /\ Step(t)

SearchNext == \E c \in Calls : Advance(c) \/ \E q \in Questions : Begin(c, q)

SearchSpec == SearchInit /\ [][SearchNext]_vars

\* Lace runs every task that has been spawned or called.
FairSearchSpec == SearchSpec /\ \A c \in Calls : WF_vars(Advance(c))

-------------------------------------------------------------------------------
(***************************************************************************)
(* The cache never holds a part of a solution: an entry is what there is   *)
(* to find, though tasks that have been stopped by the flag of their call  *)
(* return less, and though the same node is searched at different levels,  *)
(* for different variables and under different assignments.                *)
(***************************************************************************)
CacheSound == \A k \in DOMAIN cache : cache[k] = Solution[k]

Exact(q) == Solution[q.problem]

Query == INSTANCE DiagramQuery
         WITH Calls <- Calls, Questions <- Questions, Exact <- Exact,
              question <- question, answer <- answer

\* Every search is answered with what the diagram and the assignment determine,
\* and is answered at all.
ImplementsQuery == Query!Spec
===============================================================================

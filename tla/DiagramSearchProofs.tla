-------------------------- MODULE DiagramSearchProofs --------------------------
(***************************************************************************)
(* Proofs about the searches of a decision diagram, for diagrams of any    *)
(* size and any number of concurrent calls.                                *)
(***************************************************************************)
EXTENDS DiagramSearch, TLAPS

Directions == {"down", "right"}

TaskNames == Calls \X Seq(Directions)

\* The tasks that wait, at once or in the end, for t.
Above(t) == {<<t[1], SubSeq(t[2], 1, i)>> : i \in 0 .. Len(t[2]) - 1}

-------------------------------------------------------------------------------
(* Names of tasks *)

LEMMA RootName ==
    ASSUME NEW c \in Calls
    PROVE  Root(c) \in TaskNames /\ Above(Root(c)) = {} /\ Root(c)[1] = c
<1>1. << >> \in Seq(Directions) /\ Len(<< >>) = 0
  OBVIOUS
<1>2. 0 .. 0 - 1 = {}
  OBVIOUS
<1>3. Above(Root(c)) = {}
  BY <1>1, <1>2 DEF Root, Above
<1>4. QED BY <1>1, <1>3 DEF Root, TaskNames

LEMMA RootAbove ==
    ASSUME NEW t \in TaskNames, t # Root(t[1])
    PROVE  Root(t[1]) \in Above(t)
<1>1. t = <<t[1], t[2]>> /\ t[2] \in Seq(Directions) /\ Len(t[2]) \in Nat
  BY DEF TaskNames
<1>2. t[2] # << >>
  BY <1>1 DEF Root
<1>3. Len(t[2]) # 0
  BY <1>1, <1>2
<1>4. SubSeq(t[2], 1, 0) = << >> /\ 0 \in 0 .. Len(t[2]) - 1
  BY <1>1, <1>3
<1>5. QED BY <1>4 DEF Root, Above

LEMMA ChildName ==
    ASSUME NEW t \in TaskNames, NEW b \in Directions
    PROVE  /\ Child(t, b) \in TaskNames
           /\ Child(t, b)[1] = t[1]
           /\ \A c \in Calls : Child(t, b) # Root(c)
           /\ Child(t, b) # t
           /\ \A u \in TaskNames, d \in Directions :
                 Child(t, b) = Child(u, d) => t = u /\ b = d
<1>1. t = <<t[1], t[2]>> /\ t[1] \in Calls /\ t[2] \in Seq(Directions)
  BY DEF TaskNames
<1>2. Append(t[2], b) \in Seq(Directions) /\ Len(Append(t[2], b)) = Len(t[2]) + 1
  BY <1>1
<1>3. Child(t, b) \in TaskNames /\ Child(t, b)[1] = t[1]
  BY <1>1, <1>2 DEF Child, TaskNames
<1>4. \A c \in Calls : Child(t, b) # Root(c)
  BY <1>1, <1>2 DEF Child, Root
<1>5. Child(t, b) # t
  BY <1>1, <1>2 DEF Child
<1>6. ASSUME NEW u \in TaskNames, NEW d \in Directions, Child(t, b) = Child(u, d)
      PROVE  t = u /\ b = d
  <2>1. u = <<u[1], u[2]>> /\ u[2] \in Seq(Directions)
    BY DEF TaskNames
  <2>2. t[1] = u[1] /\ Append(t[2], b) = Append(u[2], d)
    BY <1>6 DEF Child
  <2>3. Len(Append(u[2], d)) = Len(u[2]) + 1
    BY <2>1
  <2>4. Len(t[2]) = Len(u[2])
    BY <1>1, <1>2, <2>1, <2>2, <2>3
  <2>5. b = d
    <3>1. Append(t[2], b)[Len(t[2]) + 1] = b
      BY <1>1
    <3>2. Append(u[2], d)[Len(u[2]) + 1] = d
      BY <2>1
    <3>3. QED BY <3>1, <3>2, <2>2, <2>4
  <2>6. t[2] = u[2]
    <3>1. \A i \in 1 .. Len(t[2]) : t[2][i] = Append(t[2], b)[i]
      BY <1>1
    <3>2. \A i \in 1 .. Len(u[2]) : u[2][i] = Append(u[2], d)[i]
      BY <2>1
    <3>3. QED BY <3>1, <3>2, <2>2, <2>4, <1>1, <2>1
  <2>7. QED BY <2>1, <2>2, <2>5, <2>6, <1>1
<1>7. QED BY <1>3, <1>4, <1>5, <1>6

LEMMA AboveChild ==
    ASSUME NEW t \in TaskNames, NEW b \in Directions
    PROVE  Above(Child(t, b)) = Above(t) \union {t}
<1>1. t = <<t[1], t[2]>> /\ t[2] \in Seq(Directions)
  BY DEF TaskNames
<1> DEFINE s == Append(t[2], b)
<1>2. Len(s) = Len(t[2]) + 1 /\ Len(t[2]) \in Nat
  BY <1>1
<1>3. \A i \in 0 .. Len(t[2]) : SubSeq(s, 1, i) = SubSeq(t[2], 1, i)
  BY <1>1
<1>4. SubSeq(t[2], 1, Len(t[2])) = t[2]
  BY <1>1
<1>5. Above(Child(t, b)) = {<<t[1], SubSeq(s, 1, i)>> : i \in 0 .. Len(t[2])}
  BY <1>2 DEF Above, Child
<1>6. 0 .. Len(t[2]) = (0 .. Len(t[2]) - 1) \union {Len(t[2])}
  BY <1>2
<1>7. Above(Child(t, b)) = {<<t[1], SubSeq(t[2], 1, i)>> : i \in 0 .. Len(t[2])}
  BY <1>5, <1>3
<1>8. QED BY <1>7, <1>6, <1>4, <1>1 DEF Above

LEMMA AboveName ==
    ASSUME NEW t \in TaskNames, NEW a \in Above(t)
    PROVE  /\ a \in TaskNames /\ a # t /\ a[1] = t[1]
           /\ Root(t[1]) \in Above(t)
           /\ \E b \in Directions : Child(a, b) = t \/ Child(a, b) \in Above(t)
<1>1. t = <<t[1], t[2]>> /\ t[1] \in Calls /\ t[2] \in Seq(Directions) /\ Len(t[2]) \in Nat
  BY DEF TaskNames
<1>2. PICK i \in 0 .. Len(t[2]) - 1 : a = <<t[1], SubSeq(t[2], 1, i)>>
  BY DEF Above
<1>3. SubSeq(t[2], 1, i) \in Seq(Directions) /\ Len(SubSeq(t[2], 1, i)) = i
  BY <1>1, <1>2
<1>4. a \in TaskNames /\ a # t /\ a[1] = t[1]
  BY <1>1, <1>2, <1>3 DEF TaskNames
<1>5. Root(t[1]) \in Above(t)
  <2>1. SubSeq(t[2], 1, 0) = << >> /\ 0 \in 0 .. Len(t[2]) - 1
    BY <1>1, <1>2
  <2>2. QED BY <2>1 DEF Root, Above
<1>6. \E b \in Directions : Child(a, b) = t \/ Child(a, b) \in Above(t)
  <2>1. t[2][i + 1] \in Directions
    BY <1>1, <1>2
  <2>2. Append(SubSeq(t[2], 1, i), t[2][i + 1]) = SubSeq(t[2], 1, i + 1)
    BY <1>1, <1>2
  <2>3. Child(a, t[2][i + 1]) = <<t[1], SubSeq(t[2], 1, i + 1)>>
    BY <1>2, <2>2 DEF Child
  <2>4. CASE i + 1 = Len(t[2])
    <3>1. SubSeq(t[2], 1, Len(t[2])) = t[2]
      BY <1>1
    <3>2. QED BY <3>1, <2>1, <2>3, <2>4, <1>1
  <2>5. CASE i + 1 # Len(t[2])
    <3>1. i + 1 \in 0 .. Len(t[2]) - 1
      BY <1>1, <1>2, <2>5
    <3>2. Child(a, t[2][i + 1]) \in Above(t)
      BY <3>1, <2>3 DEF Above
    <3>3. QED BY <3>2, <2>1
  <2>6. QED BY <2>4, <2>5
<1>7. QED BY <1>4, <1>5, <1>6

-------------------------------------------------------------------------------
(* The invariant *)

Nodes == {p.node : p \in Problems}

Task == [problem : Problems, node : Nodes,
         pc : {"visit", "lookup", "wait", "ended"}, found : SUBSET Int]

TypeOK ==
    /\ question \in [Calls -> Questions \union {Unasked}]
    /\ answer \in [Calls -> SUBSET Int]
    /\ DOMAIN tasks \subseteq TaskNames
    /\ \A t \in DOMAIN tasks : tasks[t] \in Task /\ Problem(t) \in Problems
    /\ terminate \in [Calls -> BOOLEAN]
    /\ DOMAIN cache \subseteq Problems

Asked(t) == question[t[1]]

\* Below the level of the variable searched for, a task only says whether there
\* is a path; what the others find is all of it wanted.
OnPath(t) == IsSat(Problem(t)) \/ Problem(t).level <= Problem(t).target

\* Steps to the right do not change what there is to find.
SameSolution(t) == Solution[tasks[t].problem] = Solution[Problem(t)]

\* A task works for the question of its call.
Serves(t) ==
    /\ Asked(t) \in Questions
    /\ answer[t[1]] = Unanswered
    /\ Problem(t).target = Asked(t).problem.target
    /\ OnPath(t) => Solution[Problem(t)] \subseteq Asked(t).full
    /\ t = Root(t[1]) => tasks[t].problem = Asked(t).problem

\* Past the checks of a visit.
Passed(t) ==
    tasks[t].pc \in {"lookup", "wait"} =>
        Open(Problem(t)) /\ (Assigned(Problem(t)) => InInterval(Problem(t)))

\* A task returns what there is to find, or nothing if it has been stopped.
Honest(t) ==
    tasks[t].pc = "ended" =>
        \/ tasks[t].found = Solution[Problem(t)]
        \/ tasks[t].found = {} /\ terminate[t[1]]

\* A task waits for each of its branches, and all those above it wait.
InTree(t) ==
    /\ \A a \in Above(t) : a \in DOMAIN tasks /\ tasks[a].pc = "wait"
    /\ tasks[t].pc = "wait" => \A b \in Branches(Problem(t)) : Child(t, b) \in DOMAIN tasks
    /\ \A b \in Directions :
          Child(t, b) \in DOMAIN tasks =>
              /\ b \in Branches(Problem(t))
              /\ tasks[Child(t, b)].problem = Branch(Problem(t), b)

TaskInv ==
    \A t \in DOMAIN tasks :
        SameSolution(t) /\ Serves(t) /\ Passed(t) /\ Honest(t) /\ InTree(t)

\* The flag of a call is set only when a task has found everything, and until
\* the call returns some task holds it.
FoundAll(w) ==
    tasks[w].pc = "ended" /\ OnPath(w) /\ tasks[w].found = Asked(w).full

FlagInv ==
    \A c \in Calls :
        terminate[c] /\ Root(c) \in DOMAIN tasks =>
            \E w \in DOMAIN tasks : w[1] = c /\ FoundAll(w)

FreshInv ==
    \A c \in Calls :
        question[c] = Unasked => ~terminate[c] /\ answer[c] = Unanswered

IInv == TypeOK /\ TaskInv /\ FlagInv /\ FreshInv /\ CacheSound

-------------------------------------------------------------------------------
(* Problems and what there is to find *)

LEMMA ProblemFields ==
    ASSUME NEW p \in Problems, NEW n
    PROVE  /\ At(p, p.node) = p
           /\ At(p, n).node = n /\ At(p, n).level = p.level
           /\ At(p, n).cube = p.cube /\ At(p, n).target = p.target
           /\ At(At(p, n), p.node) = p
           /\ \A m : At(At(p, n), m) = At(p, m)
<1>1. p = [node |-> p.node, level |-> p.level, cube |-> p.cube, target |-> p.target]
  BY ProblemAssumption
<1>2. ASSUME NEW m
      PROVE  At(p, m) = [node |-> m, level |-> p.level, cube |-> p.cube, target |-> p.target]
  BY <1>1 DEF At
<1>3. ASSUME NEW m PROVE At(At(p, n), m) = At(p, m)
  BY <1>2 DEF At
<1>4. QED BY <1>1, <1>2, <1>3

LEMMA StartedTask ==
    ASSUME NEW p \in Problems
    PROVE  /\ Started(p) \in Task
           /\ Started(p).problem = p /\ Started(p).node = p.node
           /\ Started(p).pc = "visit" /\ At(Started(p).problem, Started(p).node) = p
BY ProblemFields DEF Started, Task, Nodes

\* The problems of the branches of an open problem, and what they have to do
\* with it.
LEMMA BranchSolution ==
    ASSUME NEW p \in Problems, Open(p), Assigned(p) => InInterval(p)
    PROVE  /\ \A b \in Branches(p) : Branch(p, b) \in Problems
           /\ \A b \in Branches(p) : Branch(p, b).target = p.target
           /\ Branch(p, "down").level = p.level + 1
           /\ Branch(p, "right").level = p.level
           /\ Assigned(p) => Solution[p] = Solution[Branch(p, "down")]
           /\ ~Assigned(p) => Solution[p] = Collected(p, Solution[Branch(p, "down")],
                                                        Solution[Branch(p, "right")])
<1>1. Branch(p, "down") = Below(p) /\ Branch(p, "right") = At(p, Right(p.node))
  BY DEF Branch
<1>2. Below(p).level = p.level + 1 /\ Below(p).target = p.target
  BY DEF Below
<1>3. At(p, Right(p.node)).level = p.level /\ At(p, Right(p.node)).target = p.target
  BY ProblemFields
<1>4. CASE Assigned(p)
  BY <1>1, <1>2, <1>3, <1>4, SolutionAssumption DEF Branches
<1>5. CASE ~Assigned(p)
  BY <1>1, <1>2, <1>3, <1>5, SolutionAssumption DEF Branches
<1>6. QED BY <1>4, <1>5

\* Parts of what the branches have to find amount to a part.
LEMMA CollectedPart ==
    ASSUME NEW p \in Problems, NEW d, NEW r, NEW down, NEW right,
           d \in {down, {}}, r \in {right, {}}, down \subseteq {Yes} \/ p.level # p.target
    PROVE  Collected(p, d, r) \subseteq Collected(p, down, right)
<1>1. {} # {Yes}
  OBVIOUS
<1>2. CASE p.level # p.target
  BY <1>2 DEF Collected
<1>3. CASE p.level = p.target
  BY <1>1, <1>3 DEF Collected
<1>4. QED BY <1>2, <1>3

\* What is left when a task ends: everything else is as it was.
LEMMA EndKeepsInv ==
    ASSUME IInv, NEW t \in DOMAIN tasks, NEW found \in SUBSET Int, NEW flag \in BOOLEAN,
           tasks[t].pc \in {"visit", "lookup"},
           End(t, found),
           terminate' = [terminate EXCEPT ![t[1]] = @ \/ flag],
           UNCHANGED <<question, answer, cache>>,
           \/ found = Solution[Problem(t)]
           \/ found = {} /\ terminate[t[1]],
           flag => OnPath(t) /\ found = Asked(t).full
    PROVE  IInv'
<1>1. TypeOK /\ TaskInv /\ FlagInv /\ FreshInv /\ CacheSound
  BY DEF IInv
<1>2. t \in TaskNames /\ t[1] \in Calls /\ tasks[t] \in Task
  BY <1>1 DEF TypeOK, TaskNames
<1>3. /\ DOMAIN tasks' = DOMAIN tasks
      /\ \A u \in DOMAIN tasks : u # t => tasks'[u] = tasks[u]
      /\ tasks'[t].pc = "ended" /\ tasks'[t].found = found
      /\ tasks'[t].problem = tasks[t].problem /\ tasks'[t].node = tasks[t].node
      /\ tasks'[t] \in Task
  BY <1>2 DEF End, Task
<1>4. \A u \in DOMAIN tasks : Problem(u)' = Problem(u) /\ tasks'[u].problem = tasks[u].problem
  BY <1>3 DEF Problem
<1>5. \A c \in Calls : terminate'[c] = IF c = t[1] THEN terminate[c] \/ flag ELSE terminate[c]
  BY <1>1 DEF TypeOK
<1>6. TypeOK'
  BY <1>1, <1>2, <1>3, <1>4 DEF TypeOK
<1>7. ASSUME NEW u \in DOMAIN tasks
      PROVE  (SameSolution(u) /\ Serves(u) /\ Passed(u) /\ Honest(u) /\ InTree(u))'
  <2>1. u[1] \in Calls
    BY <1>1 DEF TypeOK, TaskNames
  <2>2. SameSolution(u) /\ Serves(u) /\ Passed(u) /\ Honest(u) /\ InTree(u)
    BY <1>1 DEF TaskInv
  <2>3. SameSolution(u)'
    BY <2>2, <1>4 DEF SameSolution
  <2>4. Serves(u)'
    BY <2>2, <1>4 DEF Serves, Asked, OnPath
  <2>5. Passed(u)'
    BY <2>2, <1>3, <1>4 DEF Passed
  <2>6. Honest(u)'
    BY <2>1, <2>2, <1>2, <1>3, <1>4, <1>5 DEF Honest
  <2>7. InTree(u)'
    BY <2>2, <1>3, <1>4 DEF InTree
  <2>8. QED BY <2>3, <2>4, <2>5, <2>6, <2>7
<1>8. FlagInv'
  <2> SUFFICES ASSUME NEW c \in Calls, terminate'[c], Root(c) \in DOMAIN tasks
               PROVE  \E w \in DOMAIN tasks : w[1] = c /\ FoundAll(w)'
    BY <1>3 DEF FlagInv
  <2>1. CASE terminate[c]
    <3>1. PICK w \in DOMAIN tasks : w[1] = c /\ FoundAll(w)
      BY <2>1, <1>1 DEF FlagInv
    <3>2. w # t
      BY <3>1 DEF FoundAll
    <3>3. FoundAll(w)'
      BY <3>1, <3>2, <1>3, <1>4 DEF FoundAll, OnPath, Asked
    <3>4. QED BY <3>1, <3>3
  <2>2. CASE ~terminate[c]
    <3>1. c = t[1] /\ flag
      BY <2>2, <1>5
    <3>2. FoundAll(t)'
      BY <3>1, <1>3, <1>4 DEF FoundAll, OnPath, Asked
    <3>3. QED BY <3>1, <3>2
  <2>3. QED BY <2>1, <2>2
<1>9. FreshInv'
  <2>1. Asked(t) \in Questions /\ Asked(t) # Unasked
    BY <1>1, QuestionAssumption DEF TaskInv, Serves, Unasked
  <2>2. QED BY <2>1, <1>1, <1>5 DEF FreshInv, Asked
<1>10. CacheSound'
  BY <1>1 DEF CacheSound
<1>11. QED BY <1>3, <1>6, <1>7, <1>8, <1>9, <1>10 DEF IInv, TaskInv

\* A visiting task goes on to the cache, or one step to the right.
LEMMA MoveKeepsInv ==
    ASSUME IInv, NEW t \in DOMAIN tasks, tasks[t].pc = "visit",
           DOMAIN tasks' = DOMAIN tasks,
           \A u \in DOMAIN tasks : u # t => tasks'[u] = tasks[u],
           tasks'[t] \in Task, tasks'[t].problem = tasks[t].problem,
           tasks'[t].pc \in {"visit", "lookup"},
           Problem(t)' \in Problems,
           Problem(t)'.level = Problem(t).level, Problem(t)'.target = Problem(t).target,
           Solution[Problem(t)'] = Solution[Problem(t)],
           Passed(t)',
           UNCHANGED <<question, answer, terminate, cache>>
    PROVE  IInv'
<1>1. TypeOK /\ TaskInv /\ FlagInv /\ FreshInv /\ CacheSound
  BY DEF IInv
<1>2. t \in TaskNames
  BY <1>1 DEF TypeOK
<1>3. \A u \in DOMAIN tasks : u # t => Problem(u)' = Problem(u)
  BY DEF Problem
<1>4. TypeOK'
  BY <1>1, <1>3 DEF TypeOK
<1>5. ASSUME NEW b \in Directions
      PROVE  Child(t, b) \notin DOMAIN tasks
  <2>1. t \in Above(Child(t, b))
    BY <1>2, AboveChild
  <2>2. QED BY <2>1, <1>1 DEF TaskInv, InTree
<1>6. ASSUME NEW u \in DOMAIN tasks
      PROVE  (SameSolution(u) /\ Serves(u) /\ Passed(u) /\ Honest(u) /\ InTree(u))'
  <2>1. u \in TaskNames
    BY <1>1 DEF TypeOK
  <2>2. SameSolution(u) /\ Serves(u) /\ Passed(u) /\ Honest(u) /\ InTree(u)
    BY <1>1 DEF TaskInv
  <2>3. SameSolution(u)'
    BY <2>2, <1>3 DEF SameSolution
  <2>4. Serves(u)'
    <3>1. CASE u = t
      BY <3>1, <2>2 DEF Serves, Asked, OnPath, IsSat
    <3>2. CASE u # t
      BY <3>2, <2>2, <1>3 DEF Serves, Asked, OnPath
    <3>3. QED BY <3>1, <3>2
  <2>5. Passed(u)'
    BY <2>2, <1>3 DEF Passed
  <2>6. Honest(u)'
    BY <2>2, <1>3 DEF Honest
  <2>7. InTree(u)'
    <3>1. CASE u = t
      BY <3>1, <2>2, <1>5 DEF InTree
    <3>2. CASE u # t
      <4>1. \A b \in Directions : Child(u, b) \in DOMAIN tasks =>
                tasks'[Child(u, b)].problem = tasks[Child(u, b)].problem
        OBVIOUS
      <4>2. QED BY <4>1, <3>2, <2>2, <1>3 DEF InTree
    <3>3. QED BY <3>1, <3>2
  <2>8. QED BY <2>3, <2>4, <2>5, <2>6, <2>7
<1>7. FlagInv'
  <2> SUFFICES ASSUME NEW c \in Calls, terminate[c], Root(c) \in DOMAIN tasks
               PROVE  \E w \in DOMAIN tasks : w[1] = c /\ FoundAll(w)'
    BY DEF FlagInv
  <2>1. PICK w \in DOMAIN tasks : w[1] = c /\ FoundAll(w)
    BY <1>1 DEF FlagInv
  <2>2. w # t
    BY <2>1 DEF FoundAll
  <2>3. FoundAll(w)'
    BY <2>1, <2>2, <1>3 DEF FoundAll, OnPath, Asked
  <2>4. QED BY <2>1, <2>3
<1>8. FreshInv' /\ CacheSound'
  BY <1>1 DEF FreshInv, CacheSound
<1>9. QED BY <1>4, <1>6, <1>7, <1>8 DEF IInv, TaskInv

-------------------------------------------------------------------------------
(* The actions *)

LEMMA VisitKeepsInv ==
    ASSUME IInv, NEW t \in DOMAIN tasks, Visit(t)
    PROVE  IInv'
<1> DEFINE p == Problem(t)
<1>1. /\ TypeOK /\ t[1] \in Calls /\ tasks[t] \in Task /\ p \in Problems
      /\ Serves(t) /\ SameSolution(t)
  BY DEF IInv, TypeOK, TaskNames, TaskInv
<1>2. tasks[t].pc = "visit" /\ UNCHANGED <<question, answer, cache>>
  BY DEF Visit
<1>3. terminate = [terminate EXCEPT ![t[1]] = @ \/ FALSE]
  BY <1>1 DEF TypeOK
<1>4. CASE Solved(p)
  <2>1. End(t, {Yes}) /\ terminate' = [terminate EXCEPT ![t[1]] = @ \/ IsSat(p)]
    BY <1>4 DEF Visit
  <2>2. Solution[p] = {Yes}
    BY <1>1, <1>4, SolutionAssumption
  <2>3. IsSat(p) => OnPath(t) /\ {Yes} = Asked(t).full
    BY <1>1, QuestionAssumption DEF OnPath, IsSat, Serves
  <2>4. IsSat(p) \in BOOLEAN /\ {Yes} \in SUBSET Int
    BY DEF IsSat, Yes
  <2>5. QED BY <2>1, <2>2, <2>3, <2>4, <1>2, EndKeepsInv
<1>5. CASE ~Solved(p) /\ (p.node = lddFalse \/ terminate[t[1]])
  <2>1. End(t, {}) /\ terminate' = terminate
    BY <1>5 DEF Visit
  <2>2. Solution[p] = {} \/ terminate[t[1]]
    BY <1>1, <1>5, SolutionAssumption
  <2>3. QED BY <2>1, <2>2, <1>2, <1>3, EndKeepsInv
<1>6. CASE ~Solved(p) /\ p.node # lddFalse /\ ~terminate[t[1]]
  <2>1. UNCHANGED terminate
    BY <1>6 DEF Visit
  <2>2. Open(p)
    BY <1>6 DEF Open
  <2>3. CASE ~Assigned(p) \/ InInterval(p)
    <3>1. tasks' = [tasks EXCEPT ![t].pc = "lookup"]
      BY <1>6, <2>3 DEF Visit
    <3>2. /\ DOMAIN tasks' = DOMAIN tasks
          /\ \A u \in DOMAIN tasks : u # t => tasks'[u] = tasks[u]
          /\ tasks'[t] \in Task /\ tasks'[t].problem = tasks[t].problem
          /\ tasks'[t].node = tasks[t].node /\ tasks'[t].pc = "lookup"
      BY <3>1, <1>1 DEF Task
    <3>3. Problem(t)' = p
      BY <3>2 DEF Problem
    <3>4. Passed(t)'
      BY <3>3, <2>2, <2>3 DEF Passed
    <3>5. QED BY <3>2, <3>3, <3>4, <1>1, <1>2, <2>1, MoveKeepsInv
  <2>4. CASE Assigned(p) /\ ~InInterval(p) /\ Value(p) < Lb(p.node)
    <3>1. End(t, {})
      BY <1>6, <2>4 DEF Visit
    <3>2. Solution[p] = {}
      BY <1>1, <2>2, <2>4, SolutionAssumption
    <3>3. QED BY <3>1, <3>2, <2>1, <1>2, <1>3, EndKeepsInv
  <2>5. CASE Assigned(p) /\ ~InInterval(p) /\ ~(Value(p) < Lb(p.node))
    <3>1. tasks' = [tasks EXCEPT ![t].node = Right(p.node)]
      BY <1>6, <2>5 DEF Visit
    <3>2. At(p, Right(p.node)) \in Problems /\ Solution[At(p, Right(p.node))] = Solution[p]
      BY <1>1, <2>2, <2>5, SolutionAssumption
    <3>3. Right(p.node) \in Nodes
      BY <3>2, <1>1, ProblemFields DEF Nodes
    <3>4. /\ DOMAIN tasks' = DOMAIN tasks
          /\ \A u \in DOMAIN tasks : u # t => tasks'[u] = tasks[u]
          /\ tasks'[t] \in Task /\ tasks'[t].problem = tasks[t].problem
          /\ tasks'[t].node = Right(p.node) /\ tasks'[t].pc = "visit"
      BY <3>1, <3>3, <1>1, <1>2 DEF Task
    <3>5. Problem(t)' = At(p, Right(p.node))
      BY <3>4, <1>1, ProblemFields DEF Problem, Task
    <3>6. Problem(t)'.level = p.level /\ Problem(t)'.target = p.target
      BY <3>5, <1>1, ProblemFields
    <3>7. Passed(t)'
      BY <3>4 DEF Passed
    <3>8. QED BY <3>2, <3>4, <3>5, <3>6, <3>7, <1>1, <1>2, <2>1, MoveKeepsInv
  <2>6. QED BY <2>3, <2>4, <2>5
<1>7. QED BY <1>4, <1>5, <1>6

LEMMA HitKeepsInv ==
    ASSUME IInv, NEW t \in DOMAIN tasks, Hit(t)
    PROVE  IInv'
<1>1. /\ TypeOK /\ t[1] \in Calls /\ Problem(t) \in Problems
  BY DEF IInv, TypeOK, TaskNames
<1>2. Problem(t) \in DOMAIN cache /\ End(t, cache[Problem(t)]) /\ tasks[t].pc = "lookup"
  BY DEF Hit, Key
<1>3. cache[Problem(t)] = Solution[Problem(t)]
  BY <1>2 DEF IInv, CacheSound
<1>4. Solution[Problem(t)] \in SUBSET Int
  BY <1>1, SolutionAssumption
<1>5. terminate' = [terminate EXCEPT ![t[1]] = @ \/ FALSE] /\ UNCHANGED <<question, answer, cache>>
  BY <1>1 DEF TypeOK, Hit
<1>6. QED BY <1>2, <1>3, <1>4, <1>5, EndKeepsInv

\* What a branch that is on the path may find is wanted, and it is on the path
\* only if the task above it is.
LEMMA BranchServes ==
    ASSUME NEW q \in Questions, NEW p \in Problems, NEW b \in Branches(p),
           Open(p), Assigned(p) => InInterval(p),
           p.target = q.problem.target,
           IsSat(p) \/ p.level <= p.target => Solution[p] \subseteq q.full,
           IsSat(p) \/ Branch(p, b).level <= p.target
    PROVE  /\ Solution[Branch(p, b)] \subseteq q.full
           /\ IsSat(p) \/ p.level <= p.target
<1>1. /\ Branch(p, b) \in Problems /\ Branch(p, b).target = p.target
      /\ b = "down" => Branch(p, b).level = p.level + 1
      /\ b = "right" => Branch(p, b).level = p.level
      /\ b \in {"down", "right"} /\ (b = "right" => ~Assigned(p))
      /\ Assigned(p) => Solution[p] = Solution[Branch(p, "down")]
      /\ ~Assigned(p) => Solution[p] = Collected(p, Solution[Branch(p, "down")],
                                                   Solution[Branch(p, "right")])
  BY BranchSolution DEF Branches
<1>2. p.level \in Nat /\ p.target \in Nat /\ Branch(p, b).level \in Nat \ {0}
  BY <1>1, ProblemAssumption
<1>3. CASE IsSat(p)
  <2>1. Branch(p, b).level > Branch(p, b).target
    BY <1>1, <1>2, <1>3 DEF IsSat
  <2>2. Solution[Branch(p, b)] \subseteq {Yes}
    BY <2>1, <1>1, ProblemAssumption
  <2>3. q.full = {Yes}
    BY <1>3, QuestionAssumption DEF IsSat
  <2>4. QED BY <2>2, <2>3, <1>3
<1>4. CASE ~IsSat(p)
  <2>1. Branch(p, b).level <= p.target
    BY <1>4
  <2>2. p.level <= p.target /\ (b = "down" => p.level # p.target)
    BY <2>1, <1>1, <1>2
  <2>3. Solution[Branch(p, b)] \subseteq Solution[p]
    BY <2>2, <1>1 DEF Collected
  <2>4. QED BY <2>2, <2>3
<1>5. QED BY <1>3, <1>4

LEMMA MissKeepsInv ==
    ASSUME IInv, NEW t \in DOMAIN tasks, Miss(t)
    PROVE  IInv'
<1> DEFINE p == Problem(t)
<1> DEFINE new == {Child(t, b) : b \in Branches(p)}
<1>1. TypeOK /\ TaskInv /\ FlagInv /\ FreshInv /\ CacheSound
  BY DEF IInv
<1>2. /\ t \in TaskNames /\ t[1] \in Calls /\ tasks[t] \in Task /\ p \in Problems
      /\ Serves(t) /\ SameSolution(t) /\ Passed(t) /\ InTree(t)
  BY <1>1 DEF TypeOK, TaskNames, TaskInv
<1>3. /\ tasks[t].pc = "lookup" /\ UNCHANGED <<question, answer, terminate, cache>>
      /\ DOMAIN tasks' = DOMAIN tasks \union new
  BY DEF Miss
<1>4. Open(p) /\ (Assigned(p) => InInterval(p))
  BY <1>2, <1>3 DEF Passed
<1>5. Branches(p) \subseteq Directions /\ "down" \in Branches(p)
  BY DEF Branches, Directions
<1>6. ASSUME NEW b \in Directions PROVE Child(t, b) \notin DOMAIN tasks
  <2>1. t \in Above(Child(t, b))
    BY <1>2, AboveChild
  <2>2. QED BY <2>1, <1>1, <1>3 DEF TaskInv, InTree
<1>7. \A u \in DOMAIN tasks : u \notin new
  BY <1>5, <1>6
<1>8. \A u \in DOMAIN tasks : u # t => tasks'[u] = tasks[u]
  BY <1>6 DEF Miss, Directions
<1>9. /\ tasks'[t].pc = "wait" /\ tasks'[t].problem = tasks[t].problem
      /\ tasks'[t].node = tasks[t].node /\ tasks'[t] \in Task
  <2>1. tasks'[t] = [tasks[t] EXCEPT !.pc = "wait"]
    BY DEF Miss
  <2>2. QED BY <2>1, <1>2 DEF Task
<1>10. \A b \in Branches(p) : tasks'[Child(t, b)] = Started(Branch(p, b))
  <2>1. Child(t, "down") # t /\ Child(t, "right") # t /\ Child(t, "down") # Child(t, "right")
    BY <1>2, ChildName DEF Directions
  <2>2. QED BY <2>1 DEF Miss, Branches
<1>11. \A u \in DOMAIN tasks : Problem(u)' = Problem(u) /\ tasks'[u].problem = tasks[u].problem
  BY <1>8, <1>9 DEF Problem
<1>12. ASSUME NEW b \in Branches(p)
       PROVE  /\ Child(t, b) \in TaskNames /\ tasks'[Child(t, b)] \in Task
              /\ Branch(p, b) \in Problems /\ Problem(Child(t, b))' = Branch(p, b)
              /\ tasks'[Child(t, b)].problem = Branch(p, b) /\ tasks'[Child(t, b)].pc = "visit"
  <2>1. Branch(p, b) \in Problems
    BY <1>2, <1>4, BranchSolution
  <2>2. QED BY <2>1, <1>2, <1>5, <1>10, StartedTask, ChildName DEF Problem
<1>13. TypeOK'
  <2>1. DOMAIN tasks' \subseteq TaskNames
    BY <1>1, <1>3, <1>12 DEF TypeOK
  <2>2. ASSUME NEW u \in DOMAIN tasks' PROVE tasks'[u] \in Task /\ Problem(u)' \in Problems
    BY <1>1, <1>3, <1>8, <1>9, <1>11, <1>12 DEF TypeOK
  <2>3. QED BY <2>1, <2>2, <1>1, <1>3 DEF TypeOK
<1>14. ASSUME NEW b \in Branches(p), NEW u, u = Child(t, b)
       PROVE  (SameSolution(u) /\ Serves(u) /\ Passed(u) /\ Honest(u) /\ InTree(u))'
  <2>1. u[1] = t[1] /\ u # Root(u[1]) /\ u \in TaskNames /\ u # t
    BY <1>2, <1>5, <1>14, ChildName
  <2>2. SameSolution(u)' /\ Passed(u)' /\ Honest(u)'
    BY <1>12, <1>14 DEF SameSolution, Passed, Honest
  <2>3. Serves(u)'
    <3>1. Branch(p, b).target = p.target
      BY <1>2, <1>4, BranchSolution
    <3>2. Asked(t) \in Questions /\ answer[t[1]] = Unanswered /\ p.target = Asked(t).problem.target
          /\ (OnPath(t) => Solution[p] \subseteq Asked(t).full)
      BY <1>2 DEF Serves
    <3>3. OnPath(u)' => Solution[Branch(p, b)] \subseteq Asked(t).full
      BY <3>1, <3>2, <1>2, <1>4, <1>12, <1>14, BranchServes DEF OnPath, IsSat
    <3>4. Asked(u)' = Asked(t)
      BY <2>1, <1>3 DEF Asked
    <3>5. QED BY <3>1, <3>2, <3>3, <3>4, <2>1, <1>3, <1>12, <1>14 DEF Serves
  <2>4. InTree(u)'
    <3>1. Above(u) = Above(t) \union {t}
      BY <1>2, <1>5, <1>14, AboveChild
    <3>2. \A a \in Above(u) : a \in DOMAIN tasks' /\ tasks'[a].pc = "wait"
      BY <3>1, <1>2, <1>3, <1>8, <1>9 DEF InTree
    <3>3. ASSUME NEW d \in Directions PROVE Child(u, d) \notin DOMAIN tasks'
      <4>1. u \in Above(Child(u, d))
        BY <2>1, AboveChild
      <4>2. Child(u, d) \notin DOMAIN tasks
        BY <4>1, <1>1, <1>5, <1>6, <1>14 DEF TaskInv, InTree
      <4>3. Child(u, d) \notin new
        BY <2>1, <1>2, <1>5, ChildName
      <4>4. QED BY <4>2, <4>3, <1>3
    <3>4. QED BY <3>2, <3>3, <1>12, <1>14 DEF InTree
  <2>5. QED BY <2>2, <2>3, <2>4
<1>15. ASSUME NEW u \in DOMAIN tasks
       PROVE  (SameSolution(u) /\ Serves(u) /\ Passed(u) /\ Honest(u) /\ InTree(u))'
  <2>1. u \in TaskNames /\ SameSolution(u) /\ Serves(u) /\ Passed(u) /\ Honest(u) /\ InTree(u)
    BY <1>1 DEF TaskInv, TypeOK
  <2>2. SameSolution(u)'
    BY <2>1, <1>11 DEF SameSolution
  <2>3. Serves(u)'
    BY <2>1, <1>3, <1>11 DEF Serves, Asked, OnPath
  <2>4. Passed(u)'
    BY <2>1, <1>4, <1>8, <1>11 DEF Passed
  <2>5. Honest(u)'
    BY <2>1, <1>3, <1>8, <1>9, <1>11 DEF Honest
  <2>6. InTree(u)'
    <3>1. \A a \in Above(u) : a \in DOMAIN tasks' /\ tasks'[a].pc = "wait"
      BY <2>1, <1>3, <1>8, <1>9 DEF InTree
    <3>2. CASE u = t
      <4>1. ASSUME NEW b \in Directions, Child(t, b) \in DOMAIN tasks'
            PROVE  b \in Branches(p)
        BY <4>1, <1>2, <1>3, <1>5, <1>6, ChildName
      <4>2. \A b \in Branches(p) : Child(t, b) \in DOMAIN tasks'
        BY <1>3
      <4>3. Problem(t)' = p
        BY <1>11
      <4>4. QED BY <3>1, <3>2, <4>1, <4>2, <4>3, <1>12 DEF InTree
    <3>3. CASE u # t
      <4>1. \A b \in Directions : Child(u, b) \notin new
        BY <3>3, <2>1, <1>2, <1>5, ChildName
      <4>2. QED BY <3>1, <3>3, <4>1, <2>1, <1>3, <1>8, <1>11 DEF InTree
    <3>4. QED BY <3>2, <3>3
  <2>7. QED BY <2>2, <2>3, <2>4, <2>5, <2>6
<1>16. TaskInv'
  BY <1>3, <1>14, <1>15 DEF TaskInv
<1>17. FlagInv'
  <2> SUFFICES ASSUME NEW c \in Calls, terminate[c], Root(c) \in DOMAIN tasks'
               PROVE  \E w \in DOMAIN tasks' : w[1] = c /\ FoundAll(w)'
    BY <1>3 DEF FlagInv
  <2>1. Root(c) \in DOMAIN tasks
    BY <1>2, <1>3, <1>5, ChildName
  <2>2. PICK w \in DOMAIN tasks : w[1] = c /\ FoundAll(w)
    BY <2>1, <1>1 DEF FlagInv
  <2>3. w # t
    BY <2>2, <1>3 DEF FoundAll
  <2>4. FoundAll(w)'
    BY <2>2, <2>3, <1>3, <1>8, <1>11 DEF FoundAll, OnPath, Asked
  <2>5. QED BY <2>2, <2>4, <1>3
<1>18. FreshInv' /\ CacheSound'
  BY <1>1, <1>3 DEF FreshInv, CacheSound
<1>19. QED BY <1>13, <1>16, <1>17, <1>18 DEF IInv

\* What a task makes of the results of its branches.
LEMMA ResultHonest ==
    ASSUME IInv, NEW t \in DOMAIN tasks, tasks[t].pc = "wait",
           \A b \in Branches(Problem(t)) : tasks[Child(t, b)].pc = "ended"
    PROVE  LET result == Result(t, Problem(t))
           IN /\ result \in SUBSET Int
              /\ \/ result = Solution[Problem(t)]
                 \/ result = {} /\ terminate[t[1]]
              /\ FindsAll(t, Problem(t), result) => OnPath(t) /\ result = Asked(t).full
              /\ Cachable(t, result) => result = Solution[Problem(t)]
              /\ \A b \in Branches(Problem(t)) :
                    FoundAll(Child(t, b)) => OnPath(t) /\ result = Asked(t).full
<1> DEFINE p == Problem(t)
<1> DEFINE full == Asked(t).full
<1> DEFINE flag == terminate[t[1]]
<1> DEFINE result == Result(t, p)
<1>1. /\ t \in TaskNames /\ t[1] \in Calls /\ p \in Problems /\ flag \in BOOLEAN
      /\ Serves(t) /\ Passed(t) /\ InTree(t)
  BY DEF IInv, TypeOK, TaskNames, TaskInv
<1>2. Open(p) /\ (Assigned(p) => InInterval(p))
  BY <1>1 DEF Passed
<1>3. /\ Asked(t) \in Questions /\ p.target = Asked(t).problem.target
      /\ IsSat(p) \/ p.level <= p.target => Solution[p] \subseteq full
  BY <1>1 DEF Serves, OnPath
<1>4. /\ IsSat(p) => full = {Yes}
      /\ ~IsSat(p) => full \subseteq Nat /\ full # {}
  BY <1>3, QuestionAssumption DEF IsSat
<1>5. /\ p.level \in Nat \ {0} /\ p.target \in Nat
      /\ p.level > p.target => Solution[p] \subseteq {Yes}
  BY <1>1, ProblemAssumption
<1>6. ASSUME NEW b \in Branches(p)
      PROVE  /\ Found(t, b) = Solution[Branch(p, b)] \/ (Found(t, b) = {} /\ flag)
             /\ Solution[Branch(p, b)] \subseteq Int
             /\ FoundAll(Child(t, b)) =>
                   /\ Found(t, b) = full
                   /\ IsSat(p) \/ Branch(p, b).level <= p.target
  <2> DEFINE u == Child(t, b)
  <2>1. b \in Directions /\ u \in DOMAIN tasks /\ u[1] = t[1]
    BY <1>1, ChildName DEF InTree, Branches, Directions
  <2>2. tasks[u].problem = Branch(p, b) /\ tasks[u].pc = "ended"
    BY <2>1, <1>1 DEF InTree
  <2>3. SameSolution(u) /\ Honest(u)
    BY <2>1 DEF IInv, TaskInv
  <2>4. Solution[Problem(u)] = Solution[Branch(p, b)]
    BY <2>2, <2>3 DEF SameSolution
  <2>5. Found(t, b) = Solution[Branch(p, b)] \/ (Found(t, b) = {} /\ flag)
    BY <2>1, <2>2, <2>3, <2>4 DEF Honest, Found
  <2>6. Branch(p, b) \in Problems /\ Branch(p, b).target = p.target
    BY <1>1, <1>2, BranchSolution
  <2>7. Problem(u).level = Branch(p, b).level /\ Problem(u).target = p.target
    BY <2>2, <2>6, ProblemFields DEF Problem
  <2>8. Solution[Branch(p, b)] \subseteq Int
    BY <2>6, SolutionAssumption
  <2>9. FoundAll(u) => Found(t, b) = full /\ (IsSat(p) \/ Branch(p, b).level <= p.target)
    BY <2>1, <2>7 DEF FoundAll, OnPath, IsSat, Found, Asked
  <2>10. QED BY <2>5, <2>8, <2>9
<1>7. /\ "down" \in Branches(p) /\ (~Assigned(p) => "right" \in Branches(p))
      /\ Branches(p) \subseteq Directions
      /\ Assigned(p) => Branches(p) = {"down"}
  BY DEF Branches, Directions
<1>8. CASE Assigned(p)
  <2>1. Solution[p] = Solution[Branch(p, "down")] /\ result = Found(t, "down")
    BY <1>1, <1>2, <1>8, BranchSolution DEF Result
  <2>2. result \in SUBSET Int /\ (result = Solution[p] \/ (result = {} /\ flag))
    BY <2>1, <1>6, <1>7
  <2>3. ~FindsAll(t, p, result)
    BY <1>8 DEF FindsAll
  <2>4. result = full => result = Solution[p]
    BY <2>2, <1>4 DEF Yes
  <2>5. Cachable(t, result) => result = Solution[p]
    BY <2>2, <2>4 DEF Cachable, Asked
  <2>6. ASSUME NEW b \in Branches(p), FoundAll(Child(t, b)) PROVE OnPath(t) /\ result = full
    <3>1. b = "down" /\ result = full
      BY <2>1, <2>6, <1>6, <1>7, <1>8
    <3>2. IsSat(p) \/ p.level <= p.target
      BY <2>6, <1>1, <1>2, <1>3, <1>6, BranchServes
    <3>3. QED BY <3>1, <3>2 DEF OnPath
  <2>7. QED BY <2>2, <2>3, <2>5, <2>6
<1>9. CASE ~Assigned(p)
  <2> DEFINE down == Solution[Branch(p, "down")]
  <2> DEFINE right == Solution[Branch(p, "right")]
  <2> DEFINE d == Found(t, "down")
  <2> DEFINE r == Found(t, "right")
  <2> DEFINE all == Collected(p, d, r)
  <2>1. /\ Solution[p] = Collected(p, down, right)
        /\ Branch(p, "down") \in Problems /\ Branch(p, "down").target = p.target
        /\ Branch(p, "down").level = p.level + 1
    BY <1>1, <1>2, <1>7, <1>9, BranchSolution
  <2>2. /\ d = down \/ (d = {} /\ flag)
        /\ r = right \/ (r = {} /\ flag)
    BY <1>6, <1>7, <1>9
  <2>3. result = IF ~IsSat(p) /\ all # full /\ flag THEN {} ELSE all
    BY <1>9 DEF Result, Asked
  <2>4. p.level = p.target => down \subseteq {Yes}
    BY <2>1, <1>5, ProblemAssumption
  <2>5. all \subseteq Solution[p]
    BY <2>1, <2>2, <2>4, <1>1, CollectedPart
  <2>6. ~flag => all = Solution[p]
    BY <2>1, <2>2
  <2>7. Solution[p] \subseteq Int
    BY <1>1, SolutionAssumption
  <2>8. IsSat(p) => Solution[p] \subseteq {Yes}
    BY <1>5 DEF IsSat
  <2>9. ~IsSat(p) /\ all = full => p.level <= p.target /\ all = Solution[p]
    <3>1. ~IsSat(p) /\ p.level > p.target => all # full
      BY <1>4, <1>5, <2>5 DEF Yes
    <3>2. ~IsSat(p) /\ all = full => p.level <= p.target
      BY <3>1, <1>5
    <3>3. p.level <= p.target => Solution[p] \subseteq full
      BY <1>3
    <3>4. QED BY <3>2, <3>3, <2>5
  <2>10. IsSat(p) => all = Solution[p] \/ (all = {} /\ flag)
    BY <2>5, <2>6, <2>8
  <2>11. result \in SUBSET Int /\ (result = Solution[p] \/ (result = {} /\ flag))
    BY <2>3, <2>5, <2>6, <2>7, <2>9, <2>10
  <2>12. FindsAll(t, p, result) => OnPath(t) /\ result = full
    BY <2>3, <2>9, <1>4 DEF FindsAll, OnPath, Asked
  <2>13. full # {}
    BY <1>4
  <2>14. Cachable(t, result) => result = Solution[p]
    BY <2>11, <2>13 DEF Cachable, Asked
  <2>15. ASSUME NEW b \in Branches(p), FoundAll(Child(t, b)) PROVE OnPath(t) /\ result = full
    <3>1. Found(t, b) = full /\ (IsSat(p) \/ Branch(p, b).level <= p.target)
      BY <2>15, <1>6
    <3>2. IsSat(p) \/ p.level <= p.target
      BY <3>1, <1>1, <1>2, <1>3, BranchServes
    <3>3. full \subseteq all
      <4>1. CASE b = "right"
        BY <4>1, <3>1 DEF Collected
      <4>2. CASE b = "down"
        <5>1. IsSat(p) \/ p.level # p.target
          BY <4>2, <3>1, <2>1, <1>5
        <5>2. p.level # p.target
          BY <5>1, <1>5 DEF IsSat
        <5>3. QED BY <5>2, <4>2, <3>1 DEF Collected
      <4>3. QED BY <4>1, <4>2, <1>7 DEF Directions
    <3>4. all = full
      BY <3>2, <3>3, <2>5, <1>3
    <3>5. QED BY <3>2, <3>4, <2>3 DEF OnPath
  <2>16. QED BY <2>11, <2>12, <2>14, <2>15
<1>10. QED BY <1>8, <1>9

LEMMA SyncKeepsInv ==
    ASSUME IInv, NEW t \in DOMAIN tasks, Sync(t)
    PROVE  IInv'
<1> DEFINE p == Problem(t)
<1> DEFINE gone == {Child(t, b) : b \in Branches(p)}
<1> DEFINE result == Result(t, p)
<1>1. TypeOK /\ TaskInv /\ FlagInv /\ FreshInv /\ CacheSound
  BY DEF IInv
<1>2. /\ t \in TaskNames /\ t[1] \in Calls /\ tasks[t] \in Task /\ p \in Problems
      /\ Serves(t) /\ SameSolution(t) /\ InTree(t)
  BY <1>1 DEF TypeOK, TaskNames, TaskInv
<1>3. /\ tasks[t].pc = "wait" /\ UNCHANGED <<question, answer>>
      /\ \A u \in gone : tasks[u].pc = "ended"
      /\ DOMAIN tasks' = DOMAIN tasks \ gone
      /\ \A u \in DOMAIN tasks \ gone :
            tasks'[u] = IF u = t THEN [tasks[t] EXCEPT !.pc = "ended", !.found = result]
                        ELSE tasks[u]
  BY DEF Sync
<1>4. Branches(p) \subseteq Directions
  BY DEF Branches, Directions
<1>5. /\ result \in SUBSET Int
      /\ result = Solution[p] \/ (result = {} /\ terminate[t[1]])
      /\ FindsAll(t, p, result) => OnPath(t) /\ result = Asked(t).full
      /\ Cachable(t, result) => result = Solution[p]
      /\ \A b \in Branches(p) : FoundAll(Child(t, b)) => OnPath(t) /\ result = Asked(t).full
  BY <1>3, ResultHonest
<1>6. t \notin gone
  BY <1>2, <1>4, ChildName
<1>7. /\ t \in DOMAIN tasks' /\ tasks'[t] \in Task
      /\ tasks'[t].pc = "ended" /\ tasks'[t].found = result
      /\ tasks'[t].problem = tasks[t].problem /\ tasks'[t].node = tasks[t].node
  <2>1. tasks'[t] = [tasks[t] EXCEPT !.pc = "ended", !.found = result]
    BY <1>3, <1>6
  <2>2. /\ tasks'[t].pc = "ended" /\ tasks'[t].found = result
        /\ tasks'[t].problem = tasks[t].problem /\ tasks'[t].node = tasks[t].node
    BY <2>1, <1>2 DEF Task
  <2>3. tasks'[t] \in Task
    BY <2>1, <1>2, <1>5 DEF Task
  <2>4. QED BY <2>2, <2>3, <1>3, <1>6
<1>8. \A u \in DOMAIN tasks' : u # t => tasks'[u] = tasks[u]
  BY <1>3
<1>9. \A u \in DOMAIN tasks' : /\ u \in DOMAIN tasks /\ Problem(u)' = Problem(u)
                               /\ tasks'[u].problem = tasks[u].problem
  BY <1>3, <1>7, <1>8 DEF Problem
<1>10. \A c \in Calls : terminate'[c] =
          IF c = t[1] THEN terminate[c] \/ FindsAll(t, p, result) ELSE terminate[c]
  BY <1>1 DEF Sync, TypeOK
<1>11. FindsAll(t, p, result) \in BOOLEAN
  BY DEF FindsAll
<1>12. CacheSound' /\ DOMAIN cache' \subseteq Problems
  <2>1. CASE Cachable(t, result)
    <3>1. /\ DOMAIN cache' = DOMAIN cache \union {p}
          /\ \A k \in DOMAIN cache' : cache'[k] = IF k = p THEN result ELSE cache[k]
      BY <2>1 DEF Sync, Key
    <3>2. QED BY <3>1, <2>1, <1>1, <1>2, <1>5 DEF CacheSound, TypeOK
  <2>2. CASE ~Cachable(t, result)
    BY <2>2, <1>1 DEF Sync, CacheSound, TypeOK
  <2>3. QED BY <2>1, <2>2
<1>13. TypeOK'
  <2>1. terminate' \in [Calls -> BOOLEAN]
    BY <1>1, <1>2, <1>11 DEF Sync, TypeOK
  <2>2. DOMAIN tasks' \subseteq TaskNames
    BY <1>1, <1>3 DEF TypeOK
  <2>3. \A u \in DOMAIN tasks' : tasks'[u] \in Task /\ Problem(u)' \in Problems
    BY <1>1, <1>7, <1>8, <1>9 DEF TypeOK
  <2>4. QED BY <2>1, <2>2, <2>3, <1>1, <1>3, <1>12 DEF TypeOK
\* Nothing hangs from the branches any more: they have ended.
<1>14. ASSUME NEW u \in DOMAIN tasks', NEW a \in Above(u)
       PROVE  a \in DOMAIN tasks' /\ a # t /\ tasks'[a].pc = "wait"
  <2>1. u \in DOMAIN tasks /\ u \in TaskNames /\ u \notin gone
    BY <1>1, <1>3 DEF TypeOK
  <2>2. \A e \in Above(u) : e \in DOMAIN tasks /\ tasks[e].pc = "wait" /\ e \notin gone
    BY <2>1, <1>1, <1>3 DEF TaskInv, InTree
  <2>3. ASSUME a = t PROVE FALSE
    <3>1. PICK b \in Directions : Child(t, b) = u \/ Child(t, b) \in Above(u)
      BY <2>1, <2>3, AboveName
    <3>2. Child(t, b) \in DOMAIN tasks
      BY <3>1, <2>1, <2>2
    <3>3. b \in Branches(p)
      BY <3>2, <1>2 DEF InTree
    <3>4. QED BY <3>1, <3>3, <2>1, <2>2
  <2>4. QED BY <2>2, <2>3, <1>3, <1>8
<1>15. ASSUME NEW u \in DOMAIN tasks'
       PROVE  (SameSolution(u) /\ Serves(u) /\ Passed(u) /\ Honest(u) /\ InTree(u))'
  <2>1. /\ u \in TaskNames /\ u[1] \in Calls
        /\ SameSolution(u) /\ Serves(u) /\ Passed(u) /\ Honest(u) /\ InTree(u)
    BY <1>1, <1>9 DEF TaskInv, TypeOK, TaskNames
  <2>2. SameSolution(u)'
    BY <2>1, <1>9 DEF SameSolution
  <2>3. Serves(u)'
    BY <2>1, <1>3, <1>9 DEF Serves, Asked, OnPath
  <2>4. Passed(u)'
    BY <2>1, <1>7, <1>8, <1>9 DEF Passed
  <2>5. Honest(u)'
    <3>1. terminate[u[1]] => terminate'[u[1]]
      BY <2>1, <1>10
    <3>2. CASE u = t
      BY <3>1, <3>2, <1>5, <1>7, <1>9 DEF Honest
    <3>3. CASE u # t
      BY <3>1, <3>3, <2>1, <1>8, <1>9 DEF Honest
    <3>4. QED BY <3>2, <3>3
  <2>6. InTree(u)'
    <3>1. CASE u = t
      <4>1. \A b \in Directions : Child(t, b) \notin DOMAIN tasks'
        BY <1>2, <1>3 DEF InTree
      <4>2. QED BY <3>1, <4>1, <1>7, <1>14 DEF InTree
    <3>2. CASE u # t
      <4>1. \A b \in Directions : Child(u, b) \notin gone
        BY <3>2, <2>1, <1>2, <1>4, ChildName
      <4>2. \A b \in Branches(Problem(u)) : b \in Directions
        BY DEF Branches, Directions
      <4>3. QED BY <3>2, <4>1, <4>2, <2>1, <1>3, <1>8, <1>9, <1>14 DEF InTree
    <3>3. QED BY <3>1, <3>2
  <2>7. QED BY <2>2, <2>3, <2>4, <2>5, <2>6
<1>16. TaskInv'
  BY <1>15 DEF TaskInv
<1>17. FlagInv'
  <2> SUFFICES ASSUME NEW c \in Calls, terminate'[c], Root(c) \in DOMAIN tasks'
               PROVE  \E w \in DOMAIN tasks' : w[1] = c /\ FoundAll(w)'
    BY DEF FlagInv
  <2>1. OnPath(t) /\ result = Asked(t).full => FoundAll(t)'
    BY <1>3, <1>7, <1>9 DEF FoundAll, OnPath, Asked
  <2>2. CASE ~terminate[c]
    <3>1. c = t[1] /\ FindsAll(t, p, result)
      BY <2>2, <1>10
    <3>2. QED BY <3>1, <2>1, <1>5, <1>7
  <2>3. CASE terminate[c]
    <3>1. PICK w \in DOMAIN tasks : w[1] = c /\ FoundAll(w)
      BY <2>3, <1>1, <1>9 DEF FlagInv
    <3>2. CASE w \in gone
      <4>1. PICK b \in Branches(p) : w = Child(t, b)
        BY <3>2
      <4>2. w[1] = t[1]
        BY <4>1, <1>2, <1>4, ChildName
      <4>3. QED BY <4>1, <4>2, <3>1, <2>1, <1>5, <1>7
    <3>3. CASE w \notin gone
      <4>1. w # t /\ w \in DOMAIN tasks'
        BY <3>1, <3>3, <1>3 DEF FoundAll
      <4>2. FoundAll(w)'
        BY <4>1, <3>1, <1>3, <1>8, <1>9 DEF FoundAll, OnPath, Asked
      <4>3. QED BY <4>1, <4>2, <3>1
    <3>4. QED BY <3>2, <3>3
  <2>4. QED BY <2>2, <2>3
<1>18. FreshInv'
  <2>1. Asked(t) \in Questions /\ Asked(t) # Unasked
    BY <1>2, QuestionAssumption DEF Serves, Unasked
  <2>2. QED BY <2>1, <1>1, <1>3, <1>10 DEF FreshInv, Asked
<1>19. QED BY <1>12, <1>13, <1>16, <1>17, <1>18 DEF IInv

\* What a call returns is all there is to find: if its root task had been
\* stopped, another one would still be waiting above the task that found it all.
LEMMA RootExact ==
    ASSUME IInv, NEW c \in Calls, Root(c) \in DOMAIN tasks, tasks[Root(c)].pc = "ended"
    PROVE  /\ question[c] \in Questions /\ answer[c] = Unanswered
           /\ tasks[Root(c)].found = Solution[question[c].problem]
           /\ tasks[Root(c)].found \in SUBSET Int
           /\ \A u \in DOMAIN tasks : u # Root(c) => u[1] # c
<1> DEFINE t == Root(c)
<1>1. /\ t \in TaskNames /\ t[1] = c /\ tasks[t] \in Task
      /\ Serves(t) /\ Honest(t) /\ SameSolution(t)
  BY RootName DEF IInv, TypeOK, TaskInv
<1>2. question[c] \in Questions /\ answer[c] = Unanswered
  BY <1>1 DEF Serves, Asked
<1>3. ASSUME NEW u \in DOMAIN tasks, u # t, u[1] = c PROVE FALSE
  <2>1. t \in Above(u)
    BY <1>3, RootAbove DEF IInv, TypeOK
  <2>2. tasks[t].pc = "wait"
    BY <2>1 DEF IInv, TaskInv, InTree
  <2>3. QED BY <2>2
<1>4. question[c].full # {}
  BY <1>2, QuestionAssumption
<1>5. tasks[t].found = Solution[Problem(t)]
  <2>1. CASE terminate[c]
    <3>1. PICK w \in DOMAIN tasks : w[1] = c /\ FoundAll(w)
      BY <2>1 DEF IInv, FlagInv
    <3>2. w = t
      BY <3>1, <1>3
    <3>3. QED BY <3>1, <3>2, <1>1, <1>4 DEF FoundAll, Honest, Asked
  <2>2. CASE ~terminate[c]
    BY <2>2, <1>1 DEF Honest
  <2>3. QED BY <2>1, <2>2
<1>6. tasks[t].found = Solution[question[c].problem]
  BY <1>1, <1>5 DEF SameSolution, Serves, Asked
<1>7. tasks[t].found \in SUBSET Int
  BY <1>1 DEF Task
<1>8. QED BY <1>2, <1>3, <1>6, <1>7

LEMMA ReturnKeepsInv ==
    ASSUME IInv, NEW c \in Calls, Return(c)
    PROVE  IInv'
<1> DEFINE t == Root(c)
<1>1. TypeOK /\ TaskInv /\ FlagInv /\ FreshInv /\ CacheSound
  BY DEF IInv
<1>2. /\ t \in DOMAIN tasks /\ tasks[t].pc = "ended"
      /\ answer' = [answer EXCEPT ![c] = tasks[t].found]
      /\ DOMAIN tasks' = DOMAIN tasks \ {t}
      /\ \A u \in DOMAIN tasks' : tasks'[u] = tasks[u]
      /\ UNCHANGED <<question, terminate, cache>>
  BY DEF Return
<1>3. /\ question[c] \in Questions /\ tasks[t].found \in SUBSET Int
      /\ \A u \in DOMAIN tasks' : u[1] # c
  BY <1>2, RootExact
<1>4. \A u \in DOMAIN tasks' : u \in DOMAIN tasks /\ Problem(u)' = Problem(u)
  BY <1>2 DEF Problem
<1>5. TypeOK'
  BY <1>1, <1>2, <1>3, <1>4 DEF TypeOK
<1>6. ASSUME NEW u \in DOMAIN tasks'
      PROVE  (SameSolution(u) /\ Serves(u) /\ Passed(u) /\ Honest(u) /\ InTree(u))'
  <2>1. /\ u \in TaskNames /\ u[1] \in Calls
        /\ SameSolution(u) /\ Serves(u) /\ Passed(u) /\ Honest(u) /\ InTree(u)
    BY <1>1, <1>4 DEF TaskInv, TypeOK, TaskNames
  <2>2. SameSolution(u)' /\ Passed(u)' /\ Honest(u)'
    BY <2>1, <1>2, <1>4 DEF SameSolution, Passed, Honest
  <2>3. Serves(u)'
    <3>1. answer'[u[1]] = answer[u[1]]
      BY <2>1, <1>1, <1>2, <1>3 DEF TypeOK
    <3>2. QED BY <3>1, <2>1, <1>2, <1>4 DEF Serves, Asked, OnPath
  <2>4. InTree(u)'
    <3>1. \A a \in Above(u) : a \in DOMAIN tasks' /\ tasks'[a].pc = "wait"
      BY <2>1, <1>2 DEF InTree
    <3>2. \A b \in Directions : Child(u, b) # t
      BY <2>1, ChildName
    <3>3. Branches(Problem(u)) \subseteq Directions
      BY DEF Branches, Directions
    <3>4. QED BY <3>1, <3>2, <3>3, <2>1, <1>2, <1>4 DEF InTree
  <2>5. QED BY <2>2, <2>3, <2>4
<1>7. FlagInv'
  <2> SUFFICES ASSUME NEW e \in Calls, terminate[e], Root(e) \in DOMAIN tasks'
               PROVE  \E w \in DOMAIN tasks' : w[1] = e /\ FoundAll(w)'
    BY <1>2 DEF FlagInv
  <2>1. PICK w \in DOMAIN tasks : w[1] = e /\ FoundAll(w)
    BY <1>1, <1>4 DEF FlagInv
  <2>2. e # c
    BY <1>3, RootName
  <2>3. w \in DOMAIN tasks'
    BY <2>1, <2>2, <1>2, RootName
  <2>4. FoundAll(w)'
    BY <2>1, <2>3, <1>2, <1>4 DEF FoundAll, OnPath, Asked
  <2>5. QED BY <2>1, <2>3, <2>4
<1>8. FreshInv'
  <2>1. question[c] # Unasked
    BY <1>3, QuestionAssumption DEF Unasked
  <2>2. QED BY <2>1, <1>1, <1>2 DEF FreshInv, TypeOK
<1>9. CacheSound'
  BY <1>1, <1>2 DEF CacheSound
<1>10. QED BY <1>5, <1>6, <1>7, <1>8, <1>9 DEF IInv, TaskInv

LEMMA BeginKeepsInv ==
    ASSUME IInv, NEW c \in Calls, NEW q \in Questions, Begin(c, q)
    PROVE  IInv'
<1> DEFINE t == Root(c)
<1>1. TypeOK /\ TaskInv /\ FlagInv /\ FreshInv /\ CacheSound
  BY DEF IInv
<1>2. /\ question[c] = Unasked /\ question' = [question EXCEPT ![c] = q]
      /\ UNCHANGED <<answer, terminate, cache>>
      /\ DOMAIN tasks' = DOMAIN tasks \union {t}
      /\ \A u \in DOMAIN tasks' :
            tasks'[u] = IF u = t THEN Started(q.problem) ELSE tasks[u]
  BY DEF Begin
<1>3. q.problem \in Problems /\ q # Unasked
  BY QuestionAssumption DEF Unasked
<1>4. t \in TaskNames /\ Above(t) = {} /\ t[1] = c
  BY RootName
<1>5. ASSUME NEW u \in DOMAIN tasks PROVE u[1] # c /\ u # t
  <2>1. question[u[1]] \in Questions
    BY <1>1 DEF TaskInv, Serves, Asked
  <2>2. Unasked \notin Questions
    BY QuestionAssumption DEF Unasked
  <2>3. QED BY <2>1, <2>2, <1>2, <1>4
<1>6. /\ tasks'[t] \in Task /\ tasks'[t].pc = "visit"
      /\ tasks'[t].problem = q.problem /\ Problem(t)' = q.problem
  BY <1>2, <1>3, StartedTask DEF Problem
<1>7. \A u \in DOMAIN tasks : tasks'[u] = tasks[u] /\ Problem(u)' = Problem(u)
  BY <1>2, <1>5 DEF Problem
<1>8. \A e \in Calls : question'[e] = IF e = c THEN q ELSE question[e]
  BY <1>1, <1>2 DEF TypeOK
<1>9. TypeOK'
  BY <1>1, <1>2, <1>3, <1>4, <1>6, <1>7 DEF TypeOK
<1>10. (SameSolution(t) /\ Serves(t) /\ Passed(t) /\ Honest(t) /\ InTree(t))'
  <2>1. SameSolution(t)' /\ Passed(t)' /\ Honest(t)'
    BY <1>6 DEF SameSolution, Passed, Honest
  <2>2. Asked(t)' = q /\ answer'[t[1]] = Unanswered
    BY <1>1, <1>2, <1>4, <1>8 DEF Asked, FreshInv
  <2>3. Serves(t)'
    BY <2>2, <1>4, <1>6, QuestionAssumption DEF Serves
  <2>4. \A b \in Directions : Child(t, b) \notin DOMAIN tasks'
    BY <1>2, <1>4, <1>5, ChildName
  <2>5. InTree(t)'
    BY <2>4, <1>4, <1>6 DEF InTree
  <2>6. QED BY <2>1, <2>3, <2>5
<1>11. ASSUME NEW u \in DOMAIN tasks
       PROVE  (SameSolution(u) /\ Serves(u) /\ Passed(u) /\ Honest(u) /\ InTree(u))'
  <2>1. /\ u \in TaskNames /\ u[1] \in Calls /\ u[1] # c
        /\ SameSolution(u) /\ Serves(u) /\ Passed(u) /\ Honest(u) /\ InTree(u)
    BY <1>1, <1>5 DEF TaskInv, TypeOK, TaskNames
  <2>2. SameSolution(u)' /\ Passed(u)' /\ Honest(u)'
    BY <2>1, <1>2, <1>7 DEF SameSolution, Passed, Honest
  <2>3. Serves(u)'
    BY <2>1, <1>2, <1>7, <1>8 DEF Serves, Asked, OnPath
  <2>4. InTree(u)'
    <3>1. \A b \in Directions : Child(u, b) # t
      BY <2>1, ChildName
    <3>2. QED BY <3>1, <2>1, <1>2, <1>7 DEF InTree
  <2>5. QED BY <2>2, <2>3, <2>4
<1>12. TaskInv'
  BY <1>2, <1>10, <1>11 DEF TaskInv
<1>13. FlagInv'
  <2> SUFFICES ASSUME NEW e \in Calls, terminate[e], Root(e) \in DOMAIN tasks'
               PROVE  \E w \in DOMAIN tasks' : w[1] = e /\ FoundAll(w)'
    BY <1>2 DEF FlagInv
  <2>1. e # c
    BY <1>1, <1>2 DEF FreshInv
  <2>2. Root(e) \in DOMAIN tasks
    BY <2>1, <1>2, RootName
  <2>3. PICK w \in DOMAIN tasks : w[1] = e /\ FoundAll(w)
    BY <2>2, <1>1 DEF FlagInv
  <2>4. FoundAll(w)'
    BY <2>1, <2>3, <1>7, <1>8 DEF FoundAll, OnPath, Asked
  <2>5. QED BY <2>3, <2>4, <1>2
<1>14. FreshInv' /\ CacheSound'
  BY <1>1, <1>2, <1>3, <1>8 DEF FreshInv, CacheSound
<1>15. QED BY <1>9, <1>12, <1>13, <1>14 DEF IInv

-------------------------------------------------------------------------------
(* The theorems *)

LEMMA InitIInv == SearchInit => IInv
<1> SUFFICES ASSUME SearchInit PROVE IInv
  OBVIOUS
<1>1. DOMAIN tasks = {} /\ DOMAIN cache = {}
  BY DEF SearchInit
<1>2. TypeOK
  BY <1>1 DEF SearchInit, TypeOK, Unanswered
<1>3. TaskInv /\ CacheSound
  BY <1>1 DEF TaskInv, CacheSound
<1>4. FlagInv /\ FreshInv
  BY DEF SearchInit, FlagInv, FreshInv
<1>5. QED BY <1>2, <1>3, <1>4 DEF IInv

LEMMA NextKeepsInv == IInv /\ [SearchNext]_vars => IInv'
<1> SUFFICES ASSUME IInv, [SearchNext]_vars PROVE IInv'
  OBVIOUS
<1>1. CASE UNCHANGED vars
  BY <1>1 DEF vars, IInv, TypeOK, TaskInv, FlagInv, FreshInv, CacheSound, SameSolution, Serves,
              Passed, Honest, InTree, FoundAll, OnPath, Asked, Problem
<1>2. ASSUME NEW c \in Calls, Advance(c) PROVE IInv'
  <2>1. CASE Return(c)
    BY <2>1, ReturnKeepsInv
  <2>2. ASSUME NEW t \in DOMAIN tasks, Step(t) PROVE IInv'
    BY <2>2, VisitKeepsInv, HitKeepsInv, MissKeepsInv, SyncKeepsInv DEF Step
  <2>3. QED BY <1>2, <2>1, <2>2 DEF Advance
<1>3. ASSUME NEW c \in Calls, NEW q \in Questions, Begin(c, q) PROVE IInv'
  BY <1>3, BeginKeepsInv
<1>4. QED BY <1>1, <1>2, <1>3 DEF SearchNext

\* The inductive invariant: a call's flag is set only when some task has found
\* everything, and all tasks above that one still wait for it.
THEOREM InductiveInvariant == SearchSpec => []IInv
<1>1. QED BY InitIInv, NextKeepsInv, PTL DEF SearchSpec

\* The state of the searches keeps its types, and every task works on a problem
\* that follows from what was asked (sat and values search).
THEOREM TypeCorrect == SearchSpec => []TypeOK
<1>1. IInv => TypeOK
  BY DEF IInv
<1>2. QED BY <1>1, InductiveInvariant, PTL

\* The operation cache never holds a part of a solution, whichever tasks the
\* flag of their call has stopped (the cache_put of both searches).
THEOREM CacheAlwaysSound == SearchSpec => []CacheSound
<1>1. IInv => CacheSound
  BY DEF IInv
<1>2. QED BY <1>1, InductiveInvariant, PTL

LEMMA StepRefines == IInv /\ [SearchNext]_vars => [Query!Next]_(Query!vars)
<1> SUFFICES ASSUME IInv, [SearchNext]_vars PROVE [Query!Next]_(Query!vars)
  OBVIOUS
<1>1. CASE UNCHANGED vars
  BY <1>1 DEF vars, Query!vars
<1>2. ASSUME NEW c \in Calls, Return(c) PROVE Query!Answer(c)
  <2>1. /\ Root(c) \in DOMAIN tasks /\ tasks[Root(c)].pc = "ended"
        /\ answer' = [answer EXCEPT ![c] = tasks[Root(c)].found]
        /\ UNCHANGED question
    BY <1>2 DEF Return
  <2>2. /\ question[c] \in Questions /\ answer[c] = Unanswered
        /\ tasks[Root(c)].found = Solution[question[c].problem]
    BY <2>1, RootExact
  <2>3. question[c] # Query!Unasked
    BY <2>2, QuestionAssumption DEF Query!Unasked
  <2>4. answer[c] = Query!Unanswered
    BY <2>2 DEF Unanswered, Query!Unanswered
  <2>5. QED BY <2>1, <2>2, <2>3, <2>4 DEF Query!Answer, Exact
<1>3. ASSUME NEW t \in DOMAIN tasks, Step(t) PROVE UNCHANGED Query!vars
  BY <1>3 DEF Step, Visit, Hit, Miss, Sync, Query!vars
<1>4. ASSUME NEW c \in Calls, NEW q \in Questions, Begin(c, q) PROVE Query!Ask(c)
  BY <1>4 DEF Begin, Query!Ask, Unasked, Query!Unasked
<1>5. QED BY <1>1, <1>2, <1>3, <1>4 DEF SearchNext, Advance, Query!Next

\* Every answer is what the diagram and the assignment determine, whatever other
\* calls there are or have been: the searches implement the abstract query (its
\* safety part; that every call is answered is left to the model checker).
THEOREM Refinement == SearchSpec => Query!QuerySafety
<1>1. SearchInit => Query!Init
  BY DEF SearchInit, Query!Init, Unasked, Unanswered, Query!Unasked, Query!Unanswered
<1>2. QED BY <1>1, StepRefines, InductiveInvariant, PTL DEF SearchSpec, Query!QuerySafety
===============================================================================

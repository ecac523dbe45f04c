----------------------- MODULE FirstValidSearchProofs -----------------------
(***************************************************************************)
(* Proofs about the parallel search, for lists of any length, leaves of    *)
(* any size, and any number of workers.                                    *)
(***************************************************************************)
EXTENDS FirstValidSearch, TLAPS

InSection(s) == at[s] \in {"locked", "stored", "unlock"}

HasFound(s) == at[s] \in {"compare", "lock", "locked", "stored"}

Within(i, s) == s <= i /\ i < stop[s]

\* The positions stored are those of tests that admit the assignment, and
\* min_valid_index is the lowest of them.
StoredInv ==
    /\ min \in stored
    /\ \A m \in stored : min <= m /\ (m = size \/ m \in good)

\* The lock is held by the leaf in the critical section, and only by it.
LockInv == \A s \in Positions : InSection(s) <=> holder = s

\* The pointer lags behind the position only while a leaf is between its two
\* stores.
PointerInv ==
    /\ \A s \in Positions : at[s] = "stored" => pos[s] = min
    /\ (\A s \in Positions : at[s] # "stored") =>
           test = IF min = size THEN NoTest ELSE min

\* Where a leaf is in its range; what it has passed over does not admit the
\* assignment; and once it is through, nothing in its range is lower than the
\* position stored.
LeafOK(s) ==
    /\ s <= pos[s] /\ pos[s] <= stop[s] /\ s < stop[s] /\ stop[s] <= size
    /\ at[s] = "check" \/ HasFound(s) => pos[s] < stop[s]
    /\ HasFound(s) => pos[s] \in good
    /\ at[s] \notin {"unlock", "ended"} =>
           \A i \in good : Within(i, s) => pos[s] <= i
    /\ at[s] \in {"unlock", "ended"} =>
           \A i \in good : Within(i, s) => min <= i

LeafInv == \A s \in Positions : at[s] # "none" => LeafOK(s)

\* Ranges and leaves share no test.
DisjointInv ==
    /\ \A r, q \in waiting : r = q \/ r[2] <= q[1] \/ q[2] <= r[1]
    /\ \A r \in waiting : \A s \in Positions :
           at[s] # "none" => stop[s] <= r[1] \/ r[2] <= s
    /\ \A s, t \in Positions :
           at[s] # "none" /\ at[t] # "none" =>
               s = t \/ stop[s] <= t \/ stop[t] <= s
    /\ \A r \in waiting : r[2] <= size

\* During the parallel search every test is in a range or in a leaf.
CoverInv ==
    pc = "parallel" =>
        \A i \in 0 .. (size - 1) :
            \/ \E r \in waiting : r[1] <= i /\ i < r[2]
            \/ \E s \in Positions : at[s] # "none" /\ Within(i, s)

\* Exactly the tests being checked hold the assignment.
WrittenInv ==
    pc # "sequential" =>
        \A i \in Positions :
            i \in written <=> \E s \in Positions : at[s] = "check" /\ pos[s] = i

SequentialInv ==
    pc = "sequential" =>
        /\ next <= size
        /\ \A i \in good : next <= i
        /\ written = {} \/ (written = {next} /\ next < size)

\* The tasks run during the parallel search only.
PhaseInv ==
    /\ pc # "parallel" =>
           waiting = {} /\ \A s \in Positions : at[s] \in {"none", "ended"}
    /\ pc # "done" => answer = Unanswered
    /\ pc = "call" =>
           next = 0 /\ written = {} /\ \A s \in Positions : at[s] = "none"
    /\ \A i \in good : i < size

IInv == /\ TypeOK /\ StoredInv /\ LockInv /\ PointerInv /\ LeafInv
        /\ DisjointInv /\ CoverInv /\ WrittenInv /\ SequentialInv /\ PhaseInv
        /\ FirstTestReturned

-------------------------------------------------------------------------------
\* Halving a range of two tests or more leaves no half empty.
LEMMA MiddleInside ==
    ASSUME NEW r \in Ranges, r[2] - r[1] > LeafSize
    PROVE  LET mid == r[1] + (r[2] - r[1]) \div 2
           IN /\ Halves(r) = {<<r[1], mid>>, <<mid, r[2]>>}
              /\ mid \in 0 .. MaxTests
              /\ r[1] < mid /\ mid < r[2]
<1>. DEFINE d == r[2] - r[1]
<1>1. d \in Nat /\ d > 1
  BY SearchAssumption DEF Ranges
<1>2. d \div 2 \in Nat /\ 1 <= d \div 2 /\ d \div 2 < d
  BY <1>1
<1>. QED
  BY <1>1, <1>2, SearchAssumption DEF Halves, Ranges

LEMMA InitIInv == Init => IInv
BY SearchAssumption
   DEF Init, IInv, TypeOK, StoredInv, LockInv, PointerInv, LeafInv, LeafOK, DisjointInv,
       CoverInv, WrittenInv, SequentialInv, PhaseInv, FirstTestReturned, InSection,
       HasFound, Within, Positions, Ranges, LeafPcs, NoTest, NoLeaf, Unanswered

\* The relaxed comparison: a leaf that gives up has read a position that was stored.
LEMMA CompareStep == ASSUME IInv, NEW s \in Positions, Compare(s) PROVE IInv'
<1>. USE SearchAssumption DEF Positions
<1>a. /\ at[s] = "compare" /\ at'[s] \in {"lock", "ended"}
      /\ at' \in [Positions -> LeafPcs]
      /\ \A t \in Positions : t # s => at'[t] = at[t]
      /\ at[s] # "none"
  BY DEF Compare, Goto, IInv, TypeOK, LeafPcs
<1>t. /\ pos[s] \in 0 .. MaxTests /\ stop[s] \in 0 .. MaxTests
      /\ min \in 0 .. MaxTests /\ size \in 0 .. MaxTests /\ good \subseteq 0 .. MaxTests
  BY DEF IInv, TypeOK
<1>o. LeafOK(s)
  BY <1>a DEF IInv, LeafInv
<1>b. UNCHANGED <<input, pc, next, waiting, pos, stop, shared, written, answer>>
  BY DEF Compare
<1>d. at'[s] = "ended" => min <= pos[s]
  <2>1. PICK m \in stored : at'[s] = IF pos[s] < m THEN "lock" ELSE "ended"
    BY DEF Compare, Goto, IInv, TypeOK
  <2>. QED
    BY <2>1 DEF IInv, TypeOK, StoredInv
<1>c. pc = "parallel"
  BY <1>a DEF IInv, PhaseInv
<1>1. TypeOK'
  BY <1>a, <1>b DEF IInv, TypeOK, input, shared
<1>2. StoredInv'
  BY <1>b DEF IInv, StoredInv, input, shared
<1>3. LockInv'
  BY <1>a, <1>b DEF IInv, LockInv, InSection, shared
<1>4. PointerInv'
  BY <1>a, <1>b DEF IInv, PointerInv, input, shared
<1>5. LeafInv'
  <2>1. ASSUME NEW t \in Positions, t # s, at'[t] # "none"
        PROVE  LeafOK(t)'
    BY <1>a, <1>b, <1>d, <2>1 DEF IInv, TypeOK, LeafInv, LeafOK, HasFound, Within, input, shared
  <2>2. LeafOK(s)'
    <3>1. at'[s] = "ended" => \A i \in good : Within(i, s) => min <= i
      BY <1>a, <1>d, <1>o, <1>t DEF LeafOK
    <3>. QED
      BY <3>1, <1>a, <1>b, <1>o DEF LeafOK, HasFound, Within, input, shared
  <2>. QED
    BY <2>1, <2>2 DEF LeafInv
<1>6. DisjointInv'
  BY <1>a, <1>b DEF IInv, DisjointInv, input
<1>7. CoverInv'
  BY <1>a, <1>b DEF IInv, CoverInv, Within, input
<1>8. WrittenInv'
  BY <1>a, <1>b DEF IInv, WrittenInv
<1>9. SequentialInv'
  BY <1>b, <1>c DEF SequentialInv
<1>10. PhaseInv'
  BY <1>a, <1>b, <1>c DEF IInv, PhaseInv, input
<1>11. FirstTestReturned'
  BY <1>b, <1>c DEF FirstTestReturned
<1>. QED
  BY <1>1, <1>2, <1>3, <1>4, <1>5, <1>6, <1>7, <1>8, <1>9, <1>10, <1>11 DEF IInv

\* The lock is taken only when no leaf is in the critical section.
LEMMA LockStep == ASSUME IInv, NEW s \in Positions, Lock(s) PROVE IInv'
<1>. USE SearchAssumption DEF Positions
<1>a. /\ at[s] = "lock" /\ at'[s] \in {"locked"}
      /\ at' \in [Positions -> LeafPcs]
      /\ \A t \in Positions : t # s => at'[t] = at[t]
      /\ at[s] # "none"
  BY DEF Lock, Goto, IInv, TypeOK, LeafPcs
<1>b. /\ holder = NoLeaf /\ holder' = s
      /\ UNCHANGED <<input, pc, next, waiting, pos, stop, min, stored, test, written,
                     answer>>
  BY DEF Lock
<1>c. pc = "parallel"
  BY <1>a DEF IInv, PhaseInv
<1>1. TypeOK'
  BY <1>a, <1>b DEF IInv, TypeOK, input, shared
<1>2. StoredInv'
  BY <1>b DEF IInv, StoredInv, input, shared
<1>3. LockInv'
  BY <1>a, <1>b DEF IInv, LockInv, InSection, NoLeaf
<1>4. PointerInv'
  BY <1>a, <1>b DEF IInv, PointerInv, input, shared
<1>5. LeafInv'
  <2>1. ASSUME NEW t \in Positions, t # s, at'[t] # "none"
        PROVE  LeafOK(t)'
    BY <1>a, <1>b, <2>1 DEF IInv, TypeOK, LeafInv, LeafOK, HasFound, Within, input, shared
  <2>2. LeafOK(s)'
    BY <1>a, <1>b DEF IInv, TypeOK, LeafInv, LeafOK, HasFound, Within, input, shared
  <2>. QED
    BY <2>1, <2>2 DEF LeafInv
<1>6. DisjointInv'
  BY <1>a, <1>b DEF IInv, DisjointInv, input
<1>7. CoverInv'
  BY <1>a, <1>b DEF IInv, CoverInv, Within, input
<1>8. WrittenInv'
  BY <1>a, <1>b DEF IInv, WrittenInv
<1>9. SequentialInv'
  BY <1>b, <1>c DEF SequentialInv
<1>10. PhaseInv'
  BY <1>a, <1>b, <1>c DEF IInv, PhaseInv, input
<1>11. FirstTestReturned'
  BY <1>b, <1>c DEF FirstTestReturned
<1>. QED
  BY <1>1, <1>2, <1>3, <1>4, <1>5, <1>6, <1>7, <1>8, <1>9, <1>10, <1>11 DEF IInv

\* The second store: the pointer has caught up with the position.
LEMMA StoreTestStep == ASSUME IInv, NEW s \in Positions, StoreTest(s) PROVE IInv'
<1>. USE SearchAssumption DEF Positions
<1>a. /\ at[s] = "stored" /\ at'[s] \in {"unlock"}
      /\ at' \in [Positions -> LeafPcs]
      /\ \A t \in Positions : t # s => at'[t] = at[t]
      /\ at[s] # "none"
  BY DEF StoreTest, Goto, IInv, TypeOK, LeafPcs
<1>b. /\ test' = pos[s]
      /\ UNCHANGED <<input, pc, next, waiting, pos, stop, min, stored, holder, written,
                     answer>>
  BY DEF StoreTest
<1>d. /\ pos[s] = min /\ min \in good /\ min # size /\ min \in Positions
      /\ \A t \in Positions : t # s => at[t] # "stored"
  BY <1>a DEF IInv, TypeOK, PointerInv, LockInv, InSection, LeafInv, LeafOK, HasFound, PhaseInv
<1>c. pc = "parallel"
  BY <1>a DEF IInv, PhaseInv
<1>1. TypeOK'
  BY <1>a, <1>b, <1>d DEF IInv, TypeOK, input
<1>2. StoredInv'
  BY <1>b DEF IInv, StoredInv, input, shared
<1>3. LockInv'
  BY <1>a, <1>b DEF IInv, LockInv, InSection, shared
<1>4. PointerInv'
  BY <1>a, <1>b, <1>d DEF PointerInv, input
<1>5. LeafInv'
  <2>1. ASSUME NEW t \in Positions, t # s, at'[t] # "none"
        PROVE  LeafOK(t)'
    BY <1>a, <1>b, <1>d, <2>1 DEF IInv, TypeOK, LeafInv, LeafOK, HasFound, Within, input, shared
  <2>2. LeafOK(s)'
    BY <1>a, <1>b, <1>d DEF IInv, TypeOK, LeafInv, LeafOK, HasFound, Within, input, shared
  <2>. QED
    BY <2>1, <2>2 DEF LeafInv
<1>6. DisjointInv'
  BY <1>a, <1>b DEF IInv, DisjointInv, input
<1>7. CoverInv'
  BY <1>a, <1>b DEF IInv, CoverInv, Within, input
<1>8. WrittenInv'
  BY <1>a, <1>b DEF IInv, WrittenInv
<1>9. SequentialInv'
  BY <1>b, <1>c DEF SequentialInv
<1>10. PhaseInv'
  BY <1>a, <1>b, <1>c DEF IInv, PhaseInv, input
<1>11. FirstTestReturned'
  BY <1>b, <1>c DEF FirstTestReturned
<1>. QED
  BY <1>1, <1>2, <1>3, <1>4, <1>5, <1>6, <1>7, <1>8, <1>9, <1>10, <1>11 DEF IInv

\* The lock is released.
LEMMA UnlockStep == ASSUME IInv, NEW s \in Positions, Unlock(s) PROVE IInv'
<1>. USE SearchAssumption DEF Positions
<1>a. /\ at[s] = "unlock" /\ at'[s] \in {"ended"}
      /\ at' \in [Positions -> LeafPcs]
      /\ \A t \in Positions : t # s => at'[t] = at[t]
      /\ at[s] # "none"
  BY DEF Unlock, Goto, IInv, TypeOK, LeafPcs
<1>b. /\ holder' = NoLeaf
      /\ UNCHANGED <<input, pc, next, waiting, pos, stop, min, stored, test, written,
                     answer>>
  BY DEF Unlock
<1>c. pc = "parallel"
  BY <1>a DEF IInv, PhaseInv
<1>1. TypeOK'
  BY <1>a, <1>b DEF IInv, TypeOK, input, shared
<1>2. StoredInv'
  BY <1>b DEF IInv, StoredInv, input, shared
<1>3. LockInv'
  BY <1>a, <1>b DEF IInv, LockInv, InSection, NoLeaf
<1>4. PointerInv'
  BY <1>a, <1>b DEF IInv, PointerInv, input, shared
<1>5. LeafInv'
  <2>1. ASSUME NEW t \in Positions, t # s, at'[t] # "none"
        PROVE  LeafOK(t)'
    BY <1>a, <1>b, <2>1 DEF IInv, TypeOK, LeafInv, LeafOK, HasFound, Within, input, shared
  <2>2. LeafOK(s)'
    BY <1>a, <1>b DEF IInv, TypeOK, LeafInv, LeafOK, HasFound, Within, input, shared
  <2>. QED
    BY <2>1, <2>2 DEF LeafInv
<1>6. DisjointInv'
  BY <1>a, <1>b DEF IInv, DisjointInv, input
<1>7. CoverInv'
  BY <1>a, <1>b DEF IInv, CoverInv, Within, input
<1>8. WrittenInv'
  BY <1>a, <1>b DEF IInv, WrittenInv
<1>9. SequentialInv'
  BY <1>b, <1>c DEF SequentialInv
<1>10. PhaseInv'
  BY <1>a, <1>b, <1>c DEF IInv, PhaseInv, input
<1>11. FirstTestReturned'
  BY <1>b, <1>c DEF FirstTestReturned
<1>. QED
  BY <1>1, <1>2, <1>3, <1>4, <1>5, <1>6, <1>7, <1>8, <1>9, <1>10, <1>11 DEF IInv

\* The first store: the position only decreases, and is that of a found test.
LEMMA StoreIndexStep == ASSUME IInv, NEW s \in Positions, StoreIndex(s) PROVE IInv'
<1>. USE SearchAssumption DEF Positions
<1>a. /\ at[s] = "locked" /\ at'[s] \in {"stored", "unlock"}
      /\ at' \in [Positions -> LeafPcs]
      /\ \A t \in Positions : t # s => at'[t] = at[t]
      /\ at[s] # "none"
  BY DEF StoreIndex, Goto, IInv, TypeOK, LeafPcs
<1>t. /\ pos[s] \in 0 .. MaxTests /\ stop[s] \in 0 .. MaxTests
      /\ min \in 0 .. MaxTests /\ size \in 0 .. MaxTests /\ good \subseteq 0 .. MaxTests
  BY DEF IInv, TypeOK
<1>o. LeafOK(s)
  BY <1>a DEF IInv, LeafInv
<1>b. UNCHANGED <<input, pc, next, waiting, pos, stop, test, holder, written, answer>>
  BY DEF StoreIndex
<1>d. \/ /\ at'[s] = "stored" /\ pos[s] < min /\ min' = pos[s]
         /\ stored' = stored \cup {pos[s]}
      \/ at'[s] = "unlock" /\ min <= pos[s] /\ min' = min /\ stored' = stored
  BY DEF StoreIndex, StillLower, Goto, IInv, TypeOK
<1>e. /\ pos[s] \in good /\ pos[s] \in 0 .. MaxTests
      /\ \A t \in Positions : t # s => at[t] # "stored"
      /\ \A t \in Positions : t # s => at'[t] # "stored"
  BY <1>a DEF IInv, TypeOK, LockInv, InSection, LeafInv, LeafOK, HasFound
<1>f. min' <= min /\ min' \in 0 .. MaxTests /\ min \in 0 .. MaxTests
  BY <1>d, <1>e DEF IInv, TypeOK
<1>c. pc = "parallel"
  BY <1>a DEF IInv, PhaseInv
<1>1. TypeOK'
  BY <1>a, <1>b, <1>d, <1>e DEF IInv, TypeOK, input
<1>2. StoredInv'
  <2>1. CASE min' = min /\ stored' = stored
    BY <2>1, <1>b DEF IInv, StoredInv, input
  <2>2. CASE pos[s] < min /\ min' = pos[s] /\ stored' = stored \cup {pos[s]}
    <3>1. \A m \in stored : m \in 0 .. MaxTests /\ min <= m
      BY DEF IInv, TypeOK, StoredInv
    <3>2. \A m \in stored : pos[s] <= m
      BY <3>1, <2>2, <1>e, <1>f
    <3>. QED
      BY <3>2, <2>2, <1>b, <1>e DEF IInv, StoredInv, input
  <2>. QED
    BY <2>1, <2>2, <1>d
<1>3. LockInv'
  BY <1>a, <1>b DEF IInv, LockInv, InSection, shared
<1>4. PointerInv'
  BY <1>a, <1>b, <1>d, <1>e DEF IInv, PointerInv, input
<1>5. LeafInv'
  <2>1. ASSUME NEW t \in Positions, t # s, at'[t] # "none"
        PROVE  LeafOK(t)'
    <3>1. LeafOK(t) /\ at'[t] = at[t]
      BY <2>1, <1>a DEF IInv, LeafInv
    <3>2. \A i \in good : min <= i => min' <= i
      BY <1>f, <1>t
    <3>. QED
      BY <3>1, <3>2, <1>b DEF LeafOK, HasFound, Within, input
  <2>2. LeafOK(s)'
    <3>1. at'[s] = "unlock" => \A i \in good : Within(i, s) => min' <= i
      BY <1>a, <1>d, <1>o, <1>t DEF LeafOK
    <3>. QED
      BY <3>1, <1>a, <1>b, <1>o DEF LeafOK, HasFound, Within, input
  <2>. QED
    BY <2>1, <2>2 DEF LeafInv
<1>6. DisjointInv'
  BY <1>a, <1>b DEF IInv, DisjointInv, input
<1>7. CoverInv'
  BY <1>a, <1>b DEF IInv, CoverInv, Within, input
<1>8. WrittenInv'
  BY <1>a, <1>b DEF IInv, WrittenInv
<1>9. SequentialInv'
  BY <1>b, <1>c DEF SequentialInv
<1>10. PhaseInv'
  BY <1>a, <1>b, <1>c DEF IInv, PhaseInv, input
<1>11. FirstTestReturned'
  BY <1>b, <1>c DEF FirstTestReturned
<1>. QED
  BY <1>1, <1>2, <1>3, <1>4, <1>5, <1>6, <1>7, <1>8, <1>9, <1>10, <1>11 DEF IInv

\* The test is restored; no other leaf is checking it.
LEMMA CheckStep == ASSUME IInv, NEW s \in Positions, Check(s) PROVE IInv'
<1>. USE SearchAssumption DEF Positions
<1>a. /\ at[s] = "check" /\ at'[s] \in {"compare", "look"}
      /\ at' \in [Positions -> LeafPcs]
      /\ \A t \in Positions : t # s => at'[t] = at[t]
      /\ at[s] # "none"
  BY DEF Check, Goto, IInv, TypeOK, LeafPcs
<1>t. /\ pos[s] \in 0 .. MaxTests /\ stop[s] \in 0 .. MaxTests
      /\ min \in 0 .. MaxTests /\ size \in 0 .. MaxTests /\ good \subseteq 0 .. MaxTests
  BY DEF IInv, TypeOK
<1>o. LeafOK(s)
  BY <1>a DEF IInv, LeafInv
<1>b. /\ written' = written \ {pos[s]}
      /\ UNCHANGED <<input, pc, next, waiting, stop, shared, answer>>
  BY DEF Check
<1>d. /\ s <= pos[s] /\ pos[s] < stop[s] /\ stop[s] <= size
      /\ size \in 0 .. MaxTests /\ pos[s] \in 0 .. MaxTests /\ stop[s] \in 0 .. MaxTests
      /\ \A i \in good : Within(i, s) => pos[s] <= i
  BY <1>a DEF IInv, TypeOK, LeafInv, LeafOK
<1>e. /\ pos' \in [Positions -> 0 .. MaxTests]
      /\ \A t \in Positions : t # s => pos'[t] = pos[t]
      /\ \/ at'[s] = "compare" /\ pos[s] \in good /\ pos'[s] = pos[s]
         \/ at'[s] = "look" /\ pos[s] \notin good /\ pos'[s] = pos[s] + 1
  <2>1. pos[s] + 1 \in 0 .. MaxTests /\ pos \in [Positions -> 0 .. MaxTests]
    BY <1>d DEF IInv, TypeOK
  <2>2. CASE pos[s] \in good
    BY <2>1, <2>2 DEF Check, Goto, IInv, TypeOK
  <2>3. CASE pos[s] \notin good
    <3>1. at' = [at EXCEPT ![s] = "look"] /\ pos' = [pos EXCEPT ![s] = pos[s] + 1]
      BY <2>3 DEF Check, Goto
    <3>. HIDE DEF Positions
    <3>. QED
      BY <3>1, <2>1, <2>3 DEF IInv, TypeOK
  <2>. QED
    BY <2>2, <2>3
<1>f. \A t \in Positions : t # s /\ at[t] = "check" => pos[t] # pos[s]
  <2>. SUFFICES ASSUME NEW t \in Positions, t # s, at[t] = "check"
                PROVE  pos[t] # pos[s]
    OBVIOUS
  <2>1. t <= pos[t] /\ pos[t] < stop[t]
    BY DEF IInv, LeafInv, LeafOK
  <2>2. stop[s] <= t \/ stop[t] <= s
    BY <1>a DEF IInv, DisjointInv
  <2>3. pos[t] \in Int /\ stop[t] \in Int
    BY DEF IInv, TypeOK
  <2>. QED
    BY <2>1, <2>2, <2>3, <1>d, <1>t
<1>c. pc = "parallel"
  BY <1>a DEF IInv, PhaseInv
<1>1. TypeOK'
  BY <1>a, <1>b, <1>e DEF IInv, TypeOK, input, shared
<1>2. StoredInv'
  BY <1>b DEF IInv, StoredInv, input, shared
<1>3. LockInv'
  BY <1>a, <1>b DEF IInv, LockInv, InSection, shared
<1>4. PointerInv'
  BY <1>a, <1>b, <1>e DEF IInv, PointerInv, input, shared
<1>5. LeafInv'
  <2>1. ASSUME NEW t \in Positions, t # s, at'[t] # "none"
        PROVE  LeafOK(t)'
    BY <1>a, <1>b, <1>d, <1>e, <2>1 DEF IInv, TypeOK, LeafInv, LeafOK, HasFound, Within, input, shared
  <2>2. LeafOK(s)'
    <3>1. CASE at'[s] = "compare"
      BY <3>1, <1>a, <1>b, <1>d, <1>e, <1>o, <1>t DEF LeafOK, HasFound, Within, input
    <3>2. CASE at'[s] = "look"
      <4>1. \A i \in good : Within(i, s) => pos[s] + 1 <= i
        BY <3>2, <1>a, <1>d, <1>e, <1>t
      <4>. QED
        BY <4>1, <3>2, <1>b, <1>d, <1>e, <1>t DEF LeafOK, HasFound, Within, input
    <3>. QED
      BY <3>1, <3>2, <1>a
  <2>. QED
    BY <2>1, <2>2 DEF LeafInv
<1>6. DisjointInv'
  BY <1>a, <1>b DEF IInv, DisjointInv, input
<1>7. CoverInv'
  BY <1>a, <1>b DEF IInv, CoverInv, Within, input
<1>8. WrittenInv'
  <2>. SUFFICES ASSUME pc # "sequential", NEW i \in Positions
                PROVE  i \in written' <=>
                           \E t \in Positions : at'[t] = "check" /\ pos'[t] = i
    BY <1>b DEF WrittenInv
  <2>1. i \in written <=> \E t \in Positions : at[t] = "check" /\ pos[t] = i
    BY DEF IInv, WrittenInv
  <2>2. \A t \in Positions : at'[t] = "check" <=> t # s /\ at[t] = "check"
    BY <1>a
  <2>3. CASE i = pos[s]
    BY <2>1, <2>2, <2>3, <1>b, <1>e, <1>f
  <2>4. CASE i # pos[s]
    BY <2>1, <2>2, <2>4, <1>a, <1>b, <1>e
  <2>. QED
    BY <2>3, <2>4
<1>9. SequentialInv'
  BY <1>b, <1>c DEF SequentialInv
<1>10. PhaseInv'
  BY <1>a, <1>b, <1>c DEF IInv, PhaseInv, input
<1>11. FirstTestReturned'
  BY <1>b, <1>c DEF FirstTestReturned
<1>. QED
  BY <1>1, <1>2, <1>3, <1>4, <1>5, <1>6, <1>7, <1>8, <1>9, <1>10, <1>11 DEF IInv

\* A leaf that ends has come to the end of its range or read a lower position.
LEMMA LookStep == ASSUME IInv, NEW s \in Positions, Look(s) PROVE IInv'
<1>. USE SearchAssumption DEF Positions
<1>a. /\ at[s] = "look" /\ at'[s] \in {"ended", "check"}
      /\ at' \in [Positions -> LeafPcs]
      /\ \A t \in Positions : t # s => at'[t] = at[t]
      /\ at[s] # "none"
  BY DEF Look, Goto, IInv, TypeOK, LeafPcs
<1>t. /\ pos[s] \in 0 .. MaxTests /\ stop[s] \in 0 .. MaxTests
      /\ min \in 0 .. MaxTests /\ size \in 0 .. MaxTests /\ good \subseteq 0 .. MaxTests
  BY DEF IInv, TypeOK
<1>o. LeafOK(s)
  BY <1>a DEF IInv, LeafInv
<1>b. UNCHANGED <<input, pc, next, waiting, pos, stop, shared, answer>>
  BY DEF Look
<1>d. \/ at'[s] = "ended" /\ pos[s] = stop[s] /\ written' = written
      \/ at'[s] = "ended" /\ min <= pos[s] /\ written' = written
      \/ at'[s] = "check" /\ pos[s] < stop[s] /\ written' = written \cup {pos[s]}
  <2>1. CASE pos[s] = stop[s]
    BY <2>1 DEF Look, Goto, IInv, TypeOK
  <2>2. CASE pos[s] < stop[s]
    <3>1. PICK m \in stored :
              IF Passed(s, m) THEN Goto(s, "ended") /\ UNCHANGED written
              ELSE Goto(s, "check") /\ written' = written \cup {pos[s]}
      BY <2>2 DEF Look, IInv, TypeOK
    <3>2. min <= m /\ m \in 0 .. MaxTests /\ min \in 0 .. MaxTests /\ pos[s] \in 0 .. MaxTests
      BY DEF IInv, TypeOK, StoredInv
    <3>. QED
      BY <3>1, <3>2, <2>2 DEF Passed, Goto, IInv, TypeOK
  <2>. QED
    BY <2>1, <2>2 DEF Look
<1>e. stop[s] <= size /\ size <= MaxTests /\ s <= pos[s]
  BY <1>o, <1>t DEF LeafOK
<1>c. pc = "parallel"
  BY <1>a DEF IInv, PhaseInv
<1>1. TypeOK'
  <2>1. at'[s] = "check" => pos[s] \in Positions
    BY <1>a, <1>d, <1>e, <1>t
  <2>2. written' \subseteq Positions
    BY <2>1, <1>a, <1>d DEF IInv, TypeOK
  <2>. QED
    BY <2>2, <1>a, <1>b DEF IInv, TypeOK, input, shared
<1>2. StoredInv'
  BY <1>b DEF IInv, StoredInv, input, shared
<1>3. LockInv'
  BY <1>a, <1>b DEF IInv, LockInv, InSection, shared
<1>4. PointerInv'
  BY <1>a, <1>b DEF IInv, PointerInv, input, shared
<1>5. LeafInv'
  <2>1. ASSUME NEW t \in Positions, t # s, at'[t] # "none"
        PROVE  LeafOK(t)'
    BY <1>a, <1>b, <1>d, <1>e, <2>1 DEF IInv, TypeOK, LeafInv, LeafOK, HasFound, Within, input, shared
  <2>2. LeafOK(s)'
    <3>1. at'[s] = "ended" => \A i \in good : Within(i, s) => min <= i
      <4>. SUFFICES ASSUME at'[s] = "ended", NEW i \in good, Within(i, s)
                    PROVE  min <= i
        OBVIOUS
      <4>1. pos[s] <= i /\ i < stop[s] /\ i \in Int
        BY <1>a, <1>o, <1>t DEF LeafOK, Within
      <4>. QED
        BY <4>1, <1>d, <1>t
    <3>. QED
      BY <3>1, <1>a, <1>b, <1>d, <1>o DEF LeafOK, HasFound, Within, input, shared
  <2>. QED
    BY <2>1, <2>2 DEF LeafInv
<1>6. DisjointInv'
  BY <1>a, <1>b DEF IInv, DisjointInv, input
<1>7. CoverInv'
  BY <1>a, <1>b DEF IInv, CoverInv, Within, input
<1>8. WrittenInv'
  BY <1>a, <1>b, <1>d DEF IInv, WrittenInv
<1>9. SequentialInv'
  BY <1>b, <1>c DEF SequentialInv
<1>10. PhaseInv'
  BY <1>a, <1>b, <1>c DEF IInv, PhaseInv, input
<1>11. FirstTestReturned'
  BY <1>b, <1>c DEF FirstTestReturned
<1>. QED
  BY <1>1, <1>2, <1>3, <1>4, <1>5, <1>6, <1>7, <1>8, <1>9, <1>10, <1>11 DEF IInv

\* The call: the root range is the whole list.
LEMMA CallStep == ASSUME IInv, Call PROVE IInv'
<1>s. size \in 0 .. MaxTests /\ size' = size
  BY DEF Call, IInv, TypeOK, input
<1>r. pc' = "parallel" =>
          /\ waiting' = {<<0, size>>} /\ size # 0
          /\ <<0, size>> \in Ranges /\ <<0, size>>[1] = 0 /\ <<0, size>>[2] = size
  BY <1>s, SearchAssumption DEF Call, Ranges
<1>w. waiting' \subseteq Ranges
  <2>1. waiting \subseteq Ranges
    BY DEF IInv, TypeOK
  <2>2. pc' = "parallel" \/ waiting' = waiting
    BY DEF Call
  <2>. QED
    BY <1>r, <2>1, <2>2
<1>1. TypeOK'
  BY <1>w, SearchAssumption DEF Call, IInv, TypeOK, Positions, input, shared, NoTest, Unanswered
<1>2. StoredInv'
  BY DEF Call, IInv, StoredInv, input, shared
<1>3. LockInv'
  BY DEF Call, IInv, LockInv, InSection, shared
<1>4. PointerInv'
  BY DEF Call, IInv, PointerInv, input, shared
<1>5. LeafInv'
  BY DEF Call, IInv, LeafInv, LeafOK, HasFound, Within, input, shared
<1>6. DisjointInv'
  <2>1. waiting = {} /\ (\A s \in Positions : at[s] \in {"none", "ended"})
    BY DEF Call, IInv, PhaseInv
  <2>2. waiting' = {} \/ waiting' = {<<0, size>>}
    BY <2>1 DEF Call
  <2>3. \A s \in Positions : at'[s] = "none"
    BY DEF Call, IInv, PhaseInv
  <2>4. size \in Nat /\ size' = size
    BY DEF Call, IInv, TypeOK, input
  <2>. QED
    BY <2>2, <2>3, <2>4 DEF DisjointInv
<1>7. CoverInv'
  <2>. SUFFICES ASSUME pc' = "parallel", NEW i \in 0 .. (size' - 1)
                PROVE  \E r \in waiting' : r[1] <= i /\ i < r[2]
    BY DEF CoverInv
  <2>1. 0 <= i /\ i < size
    BY <1>s
  <2>. QED
    BY <2>1, <1>r
<1>8. WrittenInv'
  BY DEF Call, IInv, WrittenInv
<1>9. SequentialInv'
  BY DEF Call, IInv, TypeOK, PhaseInv, SequentialInv, input, Positions
<1>10. PhaseInv'
  BY DEF Call, IInv, PhaseInv, input
<1>11. FirstTestReturned'
  BY DEF Call, IInv, TypeOK, PhaseInv, FirstTestReturned, input, Positions
<1>. QED
  BY <1>1, <1>2, <1>3, <1>4, <1>5, <1>6, <1>7, <1>8, <1>9, <1>10, <1>11 DEF IInv

\* The sequential search writes into the test it has come to.
LEMMA WriteNextStep == ASSUME IInv, WriteNext PROVE IInv'
<1>1. TypeOK'
  BY SearchAssumption DEF WriteNext, IInv, TypeOK, Positions, Ranges, input, shared, NoTest, Unanswered
<1>2. StoredInv'
  BY DEF WriteNext, IInv, StoredInv, input, shared
<1>3. LockInv'
  BY DEF WriteNext, IInv, LockInv, InSection, shared
<1>4. PointerInv'
  BY DEF WriteNext, IInv, PointerInv, input, shared
<1>5. LeafInv'
  BY DEF WriteNext, IInv, LeafInv, LeafOK, HasFound, Within, input, shared
<1>6. DisjointInv'
  BY DEF WriteNext, IInv, DisjointInv, input
<1>7. CoverInv'
  BY DEF WriteNext, CoverInv
<1>8. WrittenInv'
  BY DEF WriteNext, IInv, WrittenInv, PhaseInv, SequentialInv
<1>9. SequentialInv'
  BY DEF WriteNext, IInv, SequentialInv, input
<1>10. PhaseInv'
  BY DEF WriteNext, IInv, PhaseInv, input
<1>11. FirstTestReturned'
  BY DEF WriteNext, FirstTestReturned
<1>. QED
  BY <1>1, <1>2, <1>3, <1>4, <1>5, <1>6, <1>7, <1>8, <1>9, <1>10, <1>11 DEF IInv

\* The sequential search restores the test, and returns it if it admits the assignment.
LEMMA CheckNextStep == ASSUME IInv, CheckNext PROVE IInv'
<1>s. /\ next < size /\ written = {next} /\ \A i \in good : next <= i
  BY DEF CheckNext, IInv, SequentialInv
<1>d. next \in Nat /\ size \in 0 .. MaxTests /\ good \subseteq Int
  BY DEF IInv, TypeOK, Positions
<1>1. TypeOK'
  BY <1>s, <1>d, SearchAssumption DEF CheckNext, IInv, TypeOK, Positions, input, shared
<1>2. StoredInv'
  BY DEF CheckNext, IInv, StoredInv, input, shared
<1>3. LockInv'
  BY DEF CheckNext, IInv, LockInv, InSection, shared
<1>4. PointerInv'
  BY DEF CheckNext, IInv, PointerInv, input, shared
<1>5. LeafInv'
  BY DEF CheckNext, IInv, LeafInv, LeafOK, HasFound, Within, input, shared
<1>6. DisjointInv'
  BY DEF CheckNext, IInv, DisjointInv, input
<1>7. CoverInv'
  BY DEF CheckNext, CoverInv
<1>8. WrittenInv'
  BY <1>s DEF CheckNext, IInv, WrittenInv, PhaseInv
<1>9. SequentialInv'
  <2>1. CASE next \in good
    BY <2>1 DEF CheckNext, SequentialInv
  <2>2. CASE next \notin good
    <3>1. \A i \in good : next + 1 <= i
      BY <2>2, <1>s, <1>d
    <3>. QED
      BY <3>1, <2>2, <1>s, <1>d DEF CheckNext, SequentialInv, input
  <2>. QED
    BY <2>1, <2>2
<1>10. PhaseInv'
  BY DEF CheckNext, IInv, PhaseInv, input
<1>11. FirstTestReturned'
  BY <1>s DEF CheckNext, FirstTestReturned, input
<1>. QED
  BY <1>1, <1>2, <1>3, <1>4, <1>5, <1>6, <1>7, <1>8, <1>9, <1>10, <1>11 DEF IInv

\* The sequential search has passed every test.
LEMMA SequentialEndStep == ASSUME IInv, SequentialEnd PROVE IInv'
<1>1. TypeOK'
  BY SearchAssumption DEF SequentialEnd, IInv, TypeOK, Positions, Ranges, input, shared, NoTest, Unanswered
<1>2. StoredInv'
  BY DEF SequentialEnd, IInv, StoredInv, input, shared
<1>3. LockInv'
  BY DEF SequentialEnd, IInv, LockInv, InSection, shared
<1>4. PointerInv'
  BY DEF SequentialEnd, IInv, PointerInv, input, shared
<1>5. LeafInv'
  BY DEF SequentialEnd, IInv, LeafInv, LeafOK, HasFound, Within, input, shared
<1>6. DisjointInv'
  BY DEF SequentialEnd, IInv, DisjointInv, input
<1>7. CoverInv'
  BY DEF SequentialEnd, CoverInv
<1>8. WrittenInv'
  <2>1. next = size /\ next \in Int /\ pc = "sequential"
    BY DEF SequentialEnd, IInv, TypeOK
  <2>2. written' = {}
    BY <2>1 DEF SequentialEnd, IInv, SequentialInv
  <2>3. \A s \in Positions : at'[s] # "check"
    BY <2>1 DEF SequentialEnd, IInv, PhaseInv
  <2>. QED
    BY <2>2, <2>3 DEF WrittenInv
<1>9. SequentialInv'
  BY DEF SequentialEnd, SequentialInv
<1>10. PhaseInv'
  BY DEF SequentialEnd, IInv, PhaseInv, input
<1>11. FirstTestReturned'
  <2>1. \A i \in good : next <= i /\ i < next /\ i \in Int /\ next \in Int
    BY DEF SequentialEnd, IInv, TypeOK, SequentialInv, PhaseInv, Positions
  <2>2. good' = {}
    BY <2>1 DEF SequentialEnd, input
  <2>. QED
    BY <2>2 DEF SequentialEnd, FirstTestReturned
<1>. QED
  BY <1>1, <1>2, <1>3, <1>4, <1>5, <1>6, <1>7, <1>8, <1>9, <1>10, <1>11 DEF IInv

\* The parallel search ends with the pointer, which is that of the lowest position.
LEMMA ParallelEndStep == ASSUME IInv, ParallelEnd PROVE IInv'
<1>1. TypeOK'
  BY SearchAssumption DEF ParallelEnd, IInv, TypeOK, Positions, Ranges, input, shared, NoTest, Unanswered
<1>2. StoredInv'
  BY DEF ParallelEnd, IInv, StoredInv, input, shared
<1>3. LockInv'
  BY DEF ParallelEnd, IInv, LockInv, InSection, shared
<1>4. PointerInv'
  BY DEF ParallelEnd, IInv, PointerInv, input, shared
<1>5. LeafInv'
  BY DEF ParallelEnd, IInv, LeafInv, LeafOK, HasFound, Within, input, shared
<1>6. DisjointInv'
  BY DEF ParallelEnd, IInv, DisjointInv, input
<1>7. CoverInv'
  BY DEF ParallelEnd, CoverInv
<1>8. WrittenInv'
  BY DEF ParallelEnd, IInv, WrittenInv, PhaseInv, SequentialInv
<1>9. SequentialInv'
  BY DEF ParallelEnd, SequentialInv
<1>10. PhaseInv'
  BY DEF ParallelEnd, IInv, PhaseInv, input
<1>11. FirstTestReturned'
  <2>1. test = IF min = size THEN NoTest ELSE min
    BY DEF ParallelEnd, IInv, PointerInv
  <2>2. \A i \in good : i < size /\ min <= i /\ i \in Int
    <3>. SUFFICES ASSUME NEW i \in good PROVE i < size /\ min <= i /\ i \in Int
      OBVIOUS
    <3>1. i \in 0 .. (size - 1) /\ size \in Int
      BY DEF IInv, TypeOK, PhaseInv, Positions
    <3>2. PICK s \in Positions : at[s] # "none" /\ Within(i, s)
      BY <3>1 DEF ParallelEnd, IInv, CoverInv
    <3>3. at[s] = "ended"
      BY <3>2 DEF ParallelEnd
    <3>. QED
      BY <3>1, <3>2, <3>3 DEF IInv, LeafInv, LeafOK, Within
  <2>3. min = size \/ min \in good
    BY DEF IInv, StoredInv
  <2>4. min \in Int /\ size \in Int
    BY DEF IInv, TypeOK
  <2>5. pc' = "done" /\ answer' = test /\ good' = good
    BY DEF ParallelEnd, input
  <2>6. CASE min = size
    <3>1. good = {}
      BY <2>2, <2>4, <2>6
    <3>. QED
      BY <3>1, <2>1, <2>5, <2>6 DEF FirstTestReturned
  <2>7. CASE min # size
    BY <2>1, <2>2, <2>3, <2>5, <2>7 DEF FirstTestReturned
  <2>. QED
    BY <2>6, <2>7
<1>. QED
  BY <1>1, <1>2, <1>3, <1>4, <1>5, <1>6, <1>7, <1>8, <1>9, <1>10, <1>11 DEF IInv

\* A range becomes its two halves.
LEMMA SplitStep == ASSUME IInv, NEW r \in waiting, Split(r) PROVE IInv'
<1>. DEFINE mid == r[1] + (r[2] - r[1]) \div 2
            left == <<r[1], mid>>
            right == <<mid, r[2]>>
<1>a. r \in Ranges
  BY DEF IInv, TypeOK
<1>b. /\ Halves(r) = {left, right}
      /\ mid \in 0 .. MaxTests
      /\ r[1] < mid /\ mid < r[2]
  BY <1>a, MiddleInside DEF Split
<1>d. mid \in Int /\ r[1] \in Int /\ r[2] \in Int /\ left[1] = r[1] /\ left[2] = mid
      /\ right[1] = mid /\ right[2] = r[2]
  BY <1>a, <1>b DEF Ranges
<1>e. left \in Ranges /\ right \in Ranges
  BY <1>a, <1>b DEF Ranges
<1>f. waiting' = (waiting \ {r}) \cup {left, right}
  BY <1>b DEF Split
<1>g. UNCHANGED <<input, pc, next, at, pos, stop, shared, written, answer>>
  BY DEF Split
<1>c. pc = "parallel" /\ pc' = "parallel"
  BY <1>g DEF IInv, PhaseInv
<1>h. \A q \in waiting : q[1] \in Int /\ q[2] \in Int
  BY DEF IInv, TypeOK, Ranges
<1>i. \A s \in Positions : s \in Int /\ stop[s] \in Int
  BY SearchAssumption DEF IInv, TypeOK, Positions
<1>. HIDE DEF mid, left, right
<1>1. TypeOK'
  BY <1>e, <1>f, <1>g DEF IInv, TypeOK, input, shared
<1>2. StoredInv'
  BY DEF Split, IInv, StoredInv, input, shared
<1>3. LockInv'
  BY DEF Split, IInv, LockInv, InSection, shared
<1>4. PointerInv'
  BY DEF Split, IInv, PointerInv, input, shared
<1>5. LeafInv'
  BY DEF Split, IInv, LeafInv, LeafOK, HasFound, Within, input, shared
<1>6. DisjointInv'
  <2>1. \A q \in waiting \ {r} : q[2] <= r[1] \/ r[2] <= q[1]
    BY DEF IInv, DisjointInv
  <2>2. \A q, p \in waiting' : q = p \/ q[2] <= p[1] \/ p[2] <= q[1]
    <3>1. ASSUME NEW q \in waiting \ {r}
          PROVE  /\ q[2] <= left[1] \/ left[2] <= q[1]
                 /\ q[2] <= right[1] \/ right[2] <= q[1]
      BY <2>1, <1>b, <1>d, <1>h
    <3>2. left[2] <= right[1]
      BY <1>d
    <3>3. ASSUME NEW q \in waiting \ {r}, NEW p \in waiting \ {r}
          PROVE  q = p \/ q[2] <= p[1] \/ p[2] <= q[1]
      BY DEF IInv, DisjointInv
    <3>. QED
      BY <3>1, <3>2, <3>3, <1>f
  <2>3. \A q \in waiting' : \A s \in Positions :
            at[s] # "none" => stop[s] <= q[1] \/ q[2] <= s
    <3>1. \A s \in Positions : at[s] # "none" => stop[s] <= r[1] \/ r[2] <= s
      BY DEF IInv, DisjointInv
    <3>2. \A q \in {left, right} : \A s \in Positions :
              at[s] # "none" => stop[s] <= q[1] \/ q[2] <= s
      BY <3>1, <1>b, <1>d, <1>i
    <3>. QED
      BY <3>2, <1>f DEF IInv, DisjointInv
  <2>4. \A q \in waiting' : q[2] <= size
    <3>1. size \in Int /\ r[2] <= size
      BY DEF IInv, TypeOK, DisjointInv
    <3>. QED
      BY <3>1, <1>b, <1>d, <1>f DEF IInv, DisjointInv
  <2>. QED
    BY <2>2, <2>3, <2>4, <1>g DEF IInv, DisjointInv, input
<1>7. CoverInv'
  <2>. SUFFICES ASSUME NEW i \in 0 .. (size - 1),
                       ~(\E s \in Positions : at[s] # "none" /\ Within(i, s))
                PROVE  \E q \in waiting' : q[1] <= i /\ i < q[2]
    BY <1>g DEF CoverInv, Within, input
  <2>1. PICK q \in waiting : q[1] <= i /\ i < q[2]
    BY <1>c DEF IInv, CoverInv
  <2>2. CASE q # r
    BY <2>1, <2>2, <1>f
  <2>3. CASE q = r
    BY <2>1, <2>3, <1>b, <1>d, <1>f DEF IInv, TypeOK
  <2>. QED
    BY <2>2, <2>3
<1>8. WrittenInv'
  BY DEF Split, IInv, WrittenInv
<1>9. SequentialInv'
  BY <1>c DEF SequentialInv
<1>10. PhaseInv'
  BY <1>c DEF Split, IInv, PhaseInv, input
<1>11. FirstTestReturned'
  BY <1>c DEF FirstTestReturned
<1>. QED
  BY <1>1, <1>2, <1>3, <1>4, <1>5, <1>6, <1>7, <1>8, <1>9, <1>10, <1>11 DEF IInv

\* A short range becomes a leaf.
LEMMA StartLeafStep == ASSUME IInv, NEW r \in waiting, StartLeaf(r) PROVE IInv'
<1>a. r \in Ranges /\ r[1] \in Positions /\ r[1] < r[2] /\ r[1] \in Int /\ r[2] \in 0 .. MaxTests
  BY SearchAssumption DEF IInv, TypeOK, Ranges, Positions
<1>b. at[r[1]] = "none"
  BY <1>a DEF IInv, TypeOK, DisjointInv, LeafInv, LeafOK, Positions
<1>d. /\ waiting' = waiting \ {r}
      /\ at' \in [Positions -> LeafPcs] /\ at'[r[1]] = "look"
      /\ pos' \in [Positions -> 0 .. MaxTests] /\ pos'[r[1]] = r[1]
      /\ stop' \in [Positions -> 0 .. MaxTests] /\ stop'[r[1]] = r[2]
      /\ \A s \in Positions : s # r[1] =>
             at'[s] = at[s] /\ pos'[s] = pos[s] /\ stop'[s] = stop[s]
  <2>1. r[1] \in 0 .. MaxTests /\ "look" \in LeafPcs
    BY <1>a DEF Ranges, LeafPcs
  <2>. QED
    BY <2>1, <1>a DEF StartLeaf, IInv, TypeOK
<1>g. UNCHANGED <<input, pc, next, shared, written, answer>>
  BY DEF StartLeaf
<1>c. pc = "parallel" /\ pc' = "parallel"
  BY <1>g DEF IInv, PhaseInv
<1>1. TypeOK'
  BY <1>d, <1>g DEF IInv, TypeOK, input, shared
<1>2. StoredInv'
  BY DEF StartLeaf, IInv, StoredInv, input, shared
<1>3. LockInv'
  BY <1>b, <1>d, <1>g DEF IInv, LockInv, InSection, shared
<1>4. PointerInv'
  BY <1>b, <1>d, <1>g DEF IInv, PointerInv, input, shared
<1>5. LeafInv'
  <2>1. ASSUME NEW s \in Positions, s # r[1], at'[s] # "none"
        PROVE  LeafOK(s)'
    BY <2>1, <1>d, <1>g DEF IInv, LeafInv, LeafOK, HasFound, Within, input, shared
  <2>2. r[2] <= size
    BY DEF IInv, DisjointInv
  <2>3. LeafOK(r[1])'
    BY <1>a, <1>d, <1>g, <2>2 DEF LeafOK, HasFound, Within, input
  <2>. QED
    BY <2>1, <2>3 DEF LeafInv
<1>6. DisjointInv'
  <2>1. \A q \in waiting' : q # r /\ q \in waiting
    BY <1>d
  <2>2. \A q \in waiting' : q[2] <= r[1] \/ r[2] <= q[1]
    BY <2>1 DEF IInv, DisjointInv
  <2>3. \A s \in Positions : at[s] # "none" => stop[s] <= r[1] \/ r[2] <= s
    BY DEF IInv, DisjointInv
  <2>4. \A q \in waiting' : \A s \in Positions :
            at'[s] # "none" => stop'[s] <= q[1] \/ q[2] <= s
    BY <2>1, <2>2, <1>a, <1>d DEF IInv, DisjointInv
  <2>5. \A s, t \in Positions :
            at'[s] # "none" /\ at'[t] # "none" =>
                s = t \/ stop'[s] <= t \/ stop'[t] <= s
    BY <2>3, <1>a, <1>d DEF IInv, DisjointInv
  <2>. QED
    BY <2>1, <2>4, <2>5, <1>g DEF IInv, DisjointInv, input
<1>7. CoverInv'
  <2>. SUFFICES ASSUME NEW i \in 0 .. (size - 1),
                       ~(\E q \in waiting' : q[1] <= i /\ i < q[2])
                PROVE  \E s \in Positions : at'[s] # "none" /\ Within(i, s)'
    BY <1>g DEF CoverInv, input
  <2>1. CASE r[1] <= i /\ i < r[2]
    BY <2>1, <1>a, <1>d DEF Within
  <2>2. CASE ~(r[1] <= i /\ i < r[2])
    <3>1. PICK s \in Positions : at[s] # "none" /\ Within(i, s)
      BY <2>2, <1>c, <1>d DEF IInv, CoverInv
    <3>. QED
      BY <3>1, <1>b, <1>d DEF Within
  <2>. QED
    BY <2>1, <2>2
<1>8. WrittenInv'
  <2>1. \A s \in Positions : at'[s] = "check" <=> at[s] = "check"
    BY <1>b, <1>d
  <2>2. \A s \in Positions : at[s] = "check" => pos'[s] = pos[s]
    BY <1>b, <1>d
  <2>. QED
    BY <2>1, <2>2, <1>g DEF IInv, WrittenInv
<1>9. SequentialInv'
  BY <1>c DEF SequentialInv
<1>10. PhaseInv'
  BY <1>c DEF StartLeaf, IInv, PhaseInv, input
<1>11. FirstTestReturned'
  BY <1>c DEF FirstTestReturned
<1>. QED
  BY <1>1, <1>2, <1>3, <1>4, <1>5, <1>6, <1>7, <1>8, <1>9, <1>10, <1>11 DEF IInv

-------------------------------------------------------------------------------
\* Every step keeps the invariant.
LEMMA NextStep == ASSUME IInv, [Next]_vars PROVE IInv'
<1>1. CASE Call
  BY <1>1, CallStep
<1>2. CASE WriteNext
  BY <1>2, WriteNextStep
<1>3. CASE CheckNext
  BY <1>3, CheckNextStep
<1>4. CASE SequentialEnd
  BY <1>4, SequentialEndStep
<1>5. ASSUME NEW r \in waiting, Split(r) PROVE IInv'
  BY <1>5, SplitStep
<1>6. ASSUME NEW r \in waiting, StartLeaf(r) PROVE IInv'
  BY <1>6, StartLeafStep
<1>7. ASSUME NEW s \in Positions, Leaf(s) PROVE IInv'
  BY <1>7, LookStep, CheckStep, CompareStep, LockStep, StoreIndexStep, StoreTestStep,
     UnlockStep
  DEF Leaf
<1>8. CASE ParallelEnd
  BY <1>8, ParallelEndStep
<1>9. CASE UNCHANGED vars
  BY <1>9
  DEF vars, IInv, TypeOK, StoredInv, LockInv, PointerInv, LeafInv, LeafOK, DisjointInv,
      CoverInv, WrittenInv, SequentialInv, PhaseInv, FirstTestReturned, InSection,
      HasFound, Within
<1>. QED
  BY <1>1, <1>2, <1>3, <1>4, <1>5, <1>6, <1>7, <1>8, <1>9 DEF Next, Search, Terminated

\* The inductive invariant holds in every reachable state.
THEOREM InductiveInvariant == Spec => []IInv
BY InitIInv, NextStep, PTL DEF Spec

\* Every variable holds a value of its kind.
THEOREM TypeCorrect == Spec => []TypeOK
<1>1. IInv => TypeOK
  BY DEF IInv
<1>. QED
  BY <1>1, InductiveInvariant, PTL

\* The first test that admits the assignment is returned, whatever the order of
\* the leaves and whatever positions their relaxed reads return.
THEOREM FirstTestAlwaysReturned == Spec => []FirstTestReturned
<1>1. IInv => FirstTestReturned
  BY DEF IInv
<1>. QED
  BY <1>1, InductiveInvariant, PTL

\* No test holds the assignment for two leaves at once, and none holds it when
\* the call has returned.
THEOREM TestsAlwaysUntouched == Spec => []TestsUntouched
<1>1. IInv => TestsUntouched
  <2>1. ASSUME IInv, NEW s \in Positions, NEW t \in Positions,
               at[s] = "check", at[t] = "check", s # t
        PROVE  pos[s] # pos[t]
    <3>1. /\ pos[s] \in Int /\ stop[s] \in Int /\ pos[t] \in Int /\ stop[t] \in Int
          /\ s \in Int /\ t \in Int
      BY <2>1 DEF IInv, TypeOK, Positions
    <3>2. LeafOK(s) /\ LeafOK(t)
      BY <2>1 DEF IInv, LeafInv
    <3>3. s <= pos[s] /\ pos[s] < stop[s] /\ t <= pos[t] /\ pos[t] < stop[t]
      BY <2>1, <3>2 DEF LeafOK
    <3>4. stop[s] <= t \/ stop[t] <= s
      BY <2>1 DEF IInv, DisjointInv
    <3>. QED
      BY <3>1, <3>3, <3>4
  <2>2. ASSUME IInv, pc = "done" PROVE written = {}
    <3>1. written \subseteq Positions /\ \A s \in Positions : at[s] # "check"
      BY <2>2 DEF IInv, TypeOK, PhaseInv
    <3>. QED
      BY <2>2, <3>1 DEF IInv, WrittenInv
  <2>. QED
    BY <2>1, <2>2 DEF TestsUntouched
<1>. QED
  BY <1>1, InductiveInvariant, PTL

\* The pointer and the position, stored one after the other, agree whenever the
\* lock is free, and no test found is lost.
THEOREM PointerAlwaysMatches == Spec => []PointerMatchesIndex
<1>1. IInv => PointerMatchesIndex
  <2>. SUFFICES ASSUME IInv PROVE PointerMatchesIndex
    OBVIOUS
  <2>1. ASSUME holder = NoLeaf PROVE test = IF min = size THEN NoTest ELSE min
    <3>1. \A s \in Positions : holder # s
      BY <2>1 DEF NoLeaf, Positions
    <3>. QED
      BY <3>1 DEF IInv, LockInv, PointerInv, InSection
  <2>2. ASSUME NEW s \in Positions, at[s] = "ended", NEW i \in good,
               i \in s .. (stop[s] - 1)
        PROVE  min <= i
    <3>1. s \in Int /\ stop[s] \in Int /\ i \in Int
      BY DEF IInv, TypeOK, Positions
    <3>2. Within(i, s)
      BY <2>2, <3>1 DEF Within
    <3>. QED
      BY <2>2, <3>2 DEF IInv, LeafInv, LeafOK
  <2>. QED
    BY <2>1, <2>2 DEF PointerMatchesIndex
<1>. QED
  BY <1>1, InductiveInvariant, PTL

-------------------------------------------------------------------------------
\* A step that returns leaves an answer that FirstTestReturned constrains.
LEMMA ReturnRefines ==
    ASSUME IInv, FirstTestReturned', pc # "done", pc' = "done", UNCHANGED input
    PROVE  Answer!Return
<1>1. answer = Answer!Unanswered /\ good' = good
  BY DEF IInv, PhaseInv, Unanswered, Answer!Unanswered, input
<1>2. Answer!IsFirst(answer', good)
  BY <1>1 DEF FirstTestReturned, Answer!IsFirst, NoTest, Answer!NoTest
<1>. QED
  BY <1>1, <1>2 DEF Answer!Return

\* Every other step is one the caller does not see.
LEMMA StepRefines ==
    ASSUME IInv, IInv', [Next]_vars
    PROVE  [Answer!Return]_<<good, answer>>
<1>a. FirstTestReturned'
  BY DEF IInv
<1>1. CASE Call
  <2>1. CASE size = 0
    BY <1>1, <2>1, <1>a, ReturnRefines DEF Call
  <2>2. CASE size # 0
    BY <1>1, <2>2 DEF Call, input
  <2>. QED
    BY <2>1, <2>2
<1>2. CASE WriteNext
  BY <1>2 DEF WriteNext, input
<1>3. CASE CheckNext
  <2>1. CASE next \in good
    BY <1>3, <2>1, <1>a, ReturnRefines DEF CheckNext
  <2>2. CASE next \notin good
    BY <1>3, <2>2 DEF CheckNext, input
  <2>. QED
    BY <2>1, <2>2
<1>4. CASE SequentialEnd
  BY <1>4, <1>a, ReturnRefines DEF SequentialEnd
<1>5. ASSUME NEW r \in waiting, Split(r) \/ StartLeaf(r)
      PROVE  UNCHANGED <<good, answer>>
  BY <1>5 DEF Split, StartLeaf, input
<1>6. ASSUME NEW s \in Positions, Leaf(s) PROVE UNCHANGED <<good, answer>>
  BY <1>6 DEF Leaf, Look, Check, Compare, Lock, StoreIndex, StoreTest, Unlock, input
<1>7. CASE ParallelEnd
  BY <1>7, <1>a, ReturnRefines DEF ParallelEnd
<1>8. CASE UNCHANGED vars
  BY <1>8 DEF vars
<1>. QED
  BY <1>1, <1>2, <1>3, <1>4, <1>5, <1>6, <1>7, <1>8 DEF Next, Search, Terminated

\* The search implements what its header promises.
THEOREM Refinement == Spec => ImplementsAnswer
<1>1. Init => Answer!AnswerInit
  BY DEF Init, Answer!AnswerInit, Positions, Unanswered, Answer!Unanswered
<1>. QED
  BY <1>1, StepRefines, InductiveInvariant, PTL
  DEF Spec, ImplementsAnswer, Answer!AnswerSpec
===============================================================================

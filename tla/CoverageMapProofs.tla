---------------------------- MODULE CoverageMapProofs ----------------------------
(***************************************************************************)
(* For every model and every set of seeded tests: the coverage maps of an  *)
(* IPOG job mark, count and look at the tuples that the model of the job   *)
(* keeps as sets, whatever order its steps use them in.                    *)
(*                                                                         *)
(* Words of bits are loaded and stored right for every width of a word.    *)
(* The places of the tuples of a map are distinct and within its array,    *)
(* and the rank of a combination is its place in the enumeration.  A word  *)
(* of a row stands for combinations of which each is in one word of one    *)
(* row only.  So each operation marks the tuples it is for, and counts the *)
(* new ones; the inductive invariant says this of all maps of a parameter. *)
(***************************************************************************)
EXTENDS IpogProofs, IpogMaps

-------------------------------------------------------------------------------
(* Words *)

\* A position is a word and a bit of it.
LEMMA Position ==
    ASSUME NEW pos \in Nat
    PROVE  /\ pos \div WordBits \in Nat
           /\ pos % WordBits \in 0 .. WordBits - 1
           /\ pos = (pos \div WordBits) * WordBits + (pos % WordBits)
           /\ (pos \div WordBits + 1) * WordBits
                  = (pos \div WordBits) * WordBits + WordBits
           /\ (pos \div WordBits) * WordBits \in Nat
<1>1. WordBits \in Nat /\ WordBits > 0
  BY WordAssumption
<1> DEFINE w == pos \div WordBits
           k == pos % WordBits
<1>2. w \in Int /\ k \in 0 .. WordBits - 1 /\ pos = WordBits * w + k
  BY <1>1, Z3
<1>3. w >= 0
  BY <1>1, Z3
<1> HIDE DEF w, k
<1>4. w * WordBits = WordBits * w /\ (w + 1) * WordBits = w * WordBits + WordBits
  BY <1>1, <1>2, Z3
<1>5. w * WordBits \in Nat
  BY <1>1, <1>2, <1>3, Z3
<1> QED
  BY <1>1, <1>2, <1>3, <1>4, <1>5 DEF w, k

\* What the bits of a shifted word are.
LEMMA Shifted ==
    ASSUME NEW word \in SUBSET Int, NEW k \in Nat, NEW b
    PROVE  /\ b \in ShiftedUp(word, k) <=> b \in 0 .. WordBits - 1 /\ b - k \in word
           /\ b \in ShiftedDown(word, k) <=> b \in Nat /\ b + k \in word
           /\ ShiftedUp(word, k) \in SUBSET Int
           /\ ShiftedDown(word, k) \in SUBSET Int
<1>1. b \in {c + k : c \in word} <=> b \in Int /\ b - k \in word
  BY SMT
<1>2. b \in {c - k : c \in word} <=> b \in Int /\ b + k \in word
  BY SMT
<1> QED
  BY <1>1, <1>2, WordAssumption DEF ShiftedUp, ShiftedDown

\* load_bits returns the bits at the positions [pos, pos + 64) of the array
\* (coverage_map.cpp:8).
THEOREM LoadBitsExact ==
    ASSUME NEW bits \in SUBSET Nat, NEW pos \in Nat
    PROVE  LoadBits(bits, pos) = {b \in 0 .. WordBits - 1 : pos + b \in bits}
<1> DEFINE w == pos \div WordBits
           k == pos % WordBits
           start == w * WordBits
           low == Word(bits, w)
           high == Word(bits, w + 1)
<1>1. WordBits \in Nat \ {0} /\ start \in Nat /\ k \in 0 .. WordBits - 1 /\ pos = start + k
      /\ (w + 1) * WordBits = start + WordBits
  BY Position, WordAssumption
<1>2. /\ low = {b \in 0 .. WordBits - 1 : start + b \in bits}
      /\ high = {b \in 0 .. WordBits - 1 : start + WordBits + b \in bits}
  BY <1>1 DEF Word
<1>3. LoadBits(bits, pos) = ShiftedDown(low, k) \cup
          ShiftedUp(ShiftedUp(high, 1), WordBits - 1 - k)
  BY DEF LoadBits
<1> HIDE DEF start, k, low, high
<1>4. low \in SUBSET Int /\ high \in SUBSET Int /\ ShiftedUp(high, 1) \in SUBSET Int
  BY <1>2, Shifted
<1>5. \A b : b \in ShiftedDown(low, k)
               <=> b \in 0 .. WordBits - 1 /\ b + k < WordBits /\ pos + b \in bits
  BY <1>1, <1>2, <1>4, Shifted
<1>6. \A b : b \in ShiftedUp(ShiftedUp(high, 1), WordBits - 1 - k)
               <=> b \in 0 .. WordBits - 1 /\ b + k >= WordBits /\ pos + b \in bits
  <2>1. \A b : b \in ShiftedUp(high, 1) <=> b \in 0 .. WordBits - 1 /\ b - 1 \in high
    BY <1>4, Shifted
  <2>2. \A b : b \in ShiftedUp(ShiftedUp(high, 1), WordBits - 1 - k)
                 <=> b \in 0 .. WordBits - 1 /\ b - (WordBits - 1 - k) \in ShiftedUp(high, 1)
    BY <1>1, <1>4, Shifted
  <2> QED
    BY <1>1, <1>2, <2>1, <2>2, SMTT(30)
<1> QED
  BY <1>1, <1>3, <1>5, <1>6

\* or_bits sets the bits at the positions pos + k for every bit k of the mask,
\* and no other (coverage_map.cpp:17).
THEOREM OrBitsExact ==
    ASSUME NEW bits \in SUBSET Nat, NEW pos \in Nat,
           NEW mask \in SUBSET (0 .. WordBits - 1)
    PROVE  OrBits(bits, pos, mask) = bits \cup {pos + b : b \in mask}
<1> DEFINE w == pos \div WordBits
           k == pos % WordBits
           start == w * WordBits
           low == ShiftedUp(mask, k)
           half == ShiftedDown(mask, 1)
           high == ShiftedDown(half, WordBits - 1 - k)
<1>1. WordBits \in Nat \ {0} /\ start \in Nat /\ k \in 0 .. WordBits - 1 /\ pos = start + k
      /\ (w + 1) * WordBits = start + WordBits
  BY Position, WordAssumption
<1>2. OrBits(bits, pos, mask) = bits
          \cup {start + b : b \in low} \cup {start + WordBits + b : b \in high}
  BY <1>1 DEF OrBits
<1>3. mask \in SUBSET Int /\ half \in SUBSET Int
  BY Shifted
<1> HIDE DEF start, k
<1>4. \A b : b \in low <=> b \in 0 .. WordBits - 1 /\ b - k \in mask
  BY <1>1, <1>3, Shifted
<1>5. \A b : b \in half <=> b \in Nat /\ b + 1 \in mask
  BY <1>3, Shifted
<1>6. \A b : b \in high <=> b \in Nat /\ b + (WordBits - 1 - k) \in half
  BY <1>1, <1>3, Shifted
<1> HIDE DEF low, half, high
<1>7. \A b : b \in high <=> b \in Nat /\ b + WordBits - k \in mask
  BY <1>1, <1>5, <1>6
<1>8. \A x : x \in {start + b : b \in low}
               <=> \E c \in mask : c + k < WordBits /\ x = pos + c
  <2>1. ASSUME NEW b \in low
        PROVE  \E c \in mask : c + k < WordBits /\ start + b = pos + c
    <3>1. b - k \in mask /\ b - k + k < WordBits /\ start + b = pos + (b - k)
      BY <1>1, <1>4
    <3> QED  BY <3>1
  <2>2. ASSUME NEW c \in mask, c + k < WordBits
        PROVE  \E b \in low : pos + c = start + b
    <3>1. c + k \in low /\ pos + c = start + (c + k)
      BY <1>1, <1>4, <2>2
    <3> QED  BY <3>1
  <2> QED
    BY <2>1, <2>2
<1>9. \A x : x \in {start + WordBits + b : b \in high}
               <=> \E c \in mask : c + k >= WordBits /\ x = pos + c
  <2>1. ASSUME NEW b \in high
        PROVE  \E c \in mask : c + k >= WordBits /\ start + WordBits + b = pos + c
    <3>1. /\ b + WordBits - k \in mask
          /\ b + WordBits - k + k >= WordBits
          /\ start + WordBits + b = pos + (b + WordBits - k)
      BY <1>1, <1>7
    <3> QED  BY <3>1
  <2>2. ASSUME NEW c \in mask, c + k >= WordBits
        PROVE  \E b \in high : pos + c = start + WordBits + b
    <3>1. c + k - WordBits \in high /\ pos + c = start + WordBits + (c + k - WordBits)
      BY <1>1, <1>7, <2>2
    <3> QED  BY <3>1
  <2> QED
    BY <2>1, <2>2
<1>10. \A x : x \in {pos + b : b \in mask}
                <=> \/ \E c \in mask : c + k < WordBits /\ x = pos + c
                    \/ \E c \in mask : c + k >= WordBits /\ x = pos + c
  BY <1>1
<1> QED
  BY <1>2, <1>8, <1>9, <1>10

-------------------------------------------------------------------------------
(* Recursive functions *)

\* A set of natural numbers has a smallest element.
LEMMA Smallest ==
    ASSUME NEW T \in SUBSET Nat, T # {}
    PROVE  \E m \in T : \A y \in T : m <= y
<1>1. PICK m \in T : \A y \in T : ~ (<<y, m>> \in OpToRel(<, Nat))
  BY WFMin, NatLessThanWellFounded
<1>2. \A y \in T : m <= y
  <2>1. TAKE y \in T
  <2>2. y \in Nat /\ m \in Nat
    OBVIOUS
  <2>3. y < m => <<y, m>> \in OpToRel(<, Nat)
    BY <2>2, Zenon DEF OpToRel
  <2>4. ~ (y < m)
    BY <1>1, <2>3, Zenon
  <2>5. QED
    BY <2>2, <2>4
<1>3. QED
  BY <1>2

\* A property of 0 that passes to the next number is one of all natural numbers
\* up to a bound.
LEMMA Induction ==
    ASSUME NEW n \in Nat, NEW T \in SUBSET (0 .. n), 0 \in T,
           \A m \in 0 .. n : m # 0 /\ m - 1 \in T => m \in T
    PROVE  T = 0 .. n
<1> DEFINE B == (0 .. n) \ T
<1> SUFFICES ASSUME B # {} PROVE FALSE
  OBVIOUS
<1>1. PICK m \in B : \A y \in B : m <= y
  <2>1. B \in SUBSET Nat
    OBVIOUS
  <2> HIDE DEF B
  <2>2. QED
    BY <2>1, Smallest
<1>2. QED
  BY <1>1

\* The values of g that a recursive definition fixes: the first one, and how each
\* follows from the one before.
RecursiveUpTo(g, first, step, m) ==
    \A n \in 0 .. m : g[n] = IF n = 0 THEN first ELSE step[n][g[n - 1]]

\* There is a function that satisfies a recursive definition.
LEMMA Recursion ==
    ASSUME NEW N \in Nat, NEW R, NEW first \in R, NEW step \in [1 .. N -> [R -> R]]
    PROVE  \E g \in [0 .. N -> R] : RecursiveUpTo(g, first, step, N)
<1> DEFINE Good(m) == \E g \in [0 .. N -> R] : RecursiveUpTo(g, first, step, m)
           T == {m \in 0 .. N : Good(m)}
<1>1. 0 \in T
  <2>1. [n \in 0 .. N |-> first] \in [0 .. N -> R]
    OBVIOUS
  <2>2. RecursiveUpTo([n \in 0 .. N |-> first], first, step, 0)
    BY DEF RecursiveUpTo
  <2>3. QED
    BY <2>1, <2>2
<1>2. ASSUME NEW m \in 0 .. N, m # 0, m - 1 \in T
      PROVE  m \in T
  <2>1. PICK g \in [0 .. N -> R] : RecursiveUpTo(g, first, step, m - 1)
    BY <1>2
  <2> DEFINE h == [g EXCEPT ![m] = step[m][g[m - 1]]]
  <2>2. m \in 1 .. N /\ m - 1 \in 0 .. N
    BY <1>2
  <2>3. g[m - 1] \in R /\ step[m][g[m - 1]] \in R
    BY <2>2
  <2>4. h \in [0 .. N -> R]
    BY <2>3
  <2>5. RecursiveUpTo(h, first, step, m)
    <3>1. SUFFICES ASSUME NEW n \in 0 .. m
                   PROVE  h[n] = IF n = 0 THEN first ELSE step[n][h[n - 1]]
      BY DEF RecursiveUpTo
    <3>2. CASE n = m
      BY <2>2, <3>2
    <3>3. CASE n # m
      <4>1. n \in 0 .. m - 1 /\ n \in 0 .. N /\ n - 1 # m
        BY <2>2, <3>3
      <4>2. g[n] = IF n = 0 THEN first ELSE step[n][g[n - 1]]
        BY <2>1, <4>1 DEF RecursiveUpTo
      <4>3. h[n] = g[n]
        BY <3>3, <4>1
      <4>4. n # 0 => h[n - 1] = g[n - 1]
        BY <4>1
      <4>5. QED
        BY <4>2, <4>3, <4>4
    <3>4. QED
      BY <3>2, <3>3
  <2>6. QED
    BY <2>4, <2>5
<1>3. T = 0 .. N
  <2>1. T \in SUBSET (0 .. N)
    OBVIOUS
  <2>2. \A m \in 0 .. N : m # 0 /\ m - 1 \in T => m \in T
    BY <1>2
  <2> HIDE DEF T
  <2>3. QED
    BY <1>1, <2>1, <2>2, Induction
<1>4. QED
  BY <1>3

-------------------------------------------------------------------------------
(* Sums of functions *)

\* A sum by one of its elements, the others given by another function.
LEMMA SumSplit ==
    \A f, g, S : \A e \in S :
        /\ IsFiniteSet(S)
        /\ \A x \in S : f[x] \in Int
        /\ \A x \in S \ {e} : g[x] = f[x]
        => /\ SumFunctionOnSet(f, S) = f[e] + SumFunctionOnSet(g, S \ {e})
           /\ SumFunctionOnSet(f, S) \in Int
           /\ SumFunctionOnSet(g, S \ {e}) \in Int
<1>1. SUFFICES ASSUME NEW f, NEW g, NEW S, NEW e \in S, IsFiniteSet(S),
                      \A x \in S : f[x] \in Int, \A x \in S \ {e} : g[x] = f[x]
               PROVE  /\ SumFunctionOnSet(f, S) = f[e] + SumFunctionOnSet(g, S \ {e})
                      /\ SumFunctionOnSet(f, S) \in Int
                      /\ SumFunctionOnSet(g, S \ {e}) \in Int
  OBVIOUS
<1>2. SumFunctionOnSet(f, S) = f[e] + SumFunctionOnSet(f, S \ {e})
  BY <1>1, SumRemove
<1>3. IsFiniteSet(S \ {e}) /\ \A x \in S \ {e} : f[x] \in Int /\ g[x] \in Int
  BY <1>1, FS_Subset
<1>4. SumFunctionOnSet(f, S \ {e}) = SumFunctionOnSet(g, S \ {e})
  BY <1>1, <1>3, SumPointwise
<1>5. SumFunctionOnSet(f, S) \in Int /\ SumFunctionOnSet(g, S \ {e}) \in Int
  BY <1>1, <1>3, SumType
<1>6. QED
  BY <1>2, <1>4, <1>5

-------------------------------------------------------------------------------
(* Binomial coefficients *)

\* The table of binomial coefficients satisfies its recursive definition.
LEMMA CoefficientDefined ==
    \A n, k \in 0 .. NumUsed :
        /\ Coefficient[n][k] \in Nat
        /\ Coefficient[n][k] = IF k > n THEN 0
                               ELSE IF k = 0 \/ k = n THEN 1
                               ELSE Coefficient[n - 1][k - 1] + Coefficient[n - 1][k]
<1> DEFINE N == 0 .. NumUsed
           R == [N -> Nat]
           row(n, r) == [k \in N |-> IF k > n THEN 0
                                     ELSE IF k = 0 \/ k = n THEN 1
                                     ELSE r[k - 1] + r[k]]
           first == [k \in N |-> IF k = 0 THEN 1 ELSE 0]
           step == [n \in 1 .. NumUsed |-> [r \in R |-> row(n, r)]]
<1>1. NumUsed \in Nat
  BY UsedFacts
<1>2. first \in R
  OBVIOUS
<1>3. \A n \in Nat : \A r \in R : row(n, r) \in R
  <2>1. SUFFICES ASSUME NEW n \in Nat, NEW r \in R, NEW k \in N PROVE row(n, r)[k] \in Nat
    OBVIOUS
  <2>2. k \in Nat /\ (k # 0 => k - 1 \in N)
    BY <1>1
  <2>3. r[k] \in Nat /\ (k # 0 => r[k - 1] \in Nat)
    BY <2>2
  <2>4. QED
    BY <2>2, <2>3
<1>4. step \in [1 .. NumUsed -> [R -> R]]
  <2> HIDE DEF R, row
  <2>1. QED
    BY <1>1, <1>3
<1>5. PICK g \in [N -> R] : RecursiveUpTo(g, first, step, NumUsed)
  <2> HIDE DEF R, first, step
  <2>1. QED
    BY <1>1, <1>2, <1>4, Recursion
<1>6. ASSUME NEW n \in N PROVE g[n] = row(n, g[n - 1])
  <2>1. CASE n = 0
    <3>1. g[n] = first
      BY <1>5, <2>1 DEF RecursiveUpTo
    <3>2. \A k \in N : k > 0 <=> k # 0
      BY <1>1
    <3>3. QED
      BY <2>1, <3>1, <3>2
  <2>2. CASE n # 0
    <3>1. n \in 1 .. NumUsed /\ g[n - 1] \in R
      BY <1>1, <2>2
    <3>2. g[n] = step[n][g[n - 1]]
      BY <1>5, <2>2 DEF RecursiveUpTo
    <3>3. QED
      BY <3>1, <3>2
  <2>3. QED
    BY <2>1, <2>2
<1>7. g = [n \in N |-> row(n, g[n - 1])]
  <2> HIDE DEF R, row
  <2>1. QED
    BY <1>6
<1>8. Coefficient = [n \in N |-> row(n, Coefficient[n - 1])]
  BY <1>7 DEF Coefficient
<1>9. ASSUME NEW n \in N PROVE Coefficient[n] \in R
  <2> DEFINE T == {m \in 0 .. NumUsed : Coefficient[m] \in R}
  <2>1. 0 \in T
    <3>1. row(0, Coefficient[0 - 1]) = first
      BY <1>1
    <3>2. 0 \in N
      BY <1>1
    <3>3. Coefficient[0] = first
      BY <1>8, <3>1, <3>2
    <3>4. QED
      BY <1>2, <3>2, <3>3
  <2>2. \A m \in 0 .. NumUsed : m # 0 /\ m - 1 \in T => m \in T
    <3>1. SUFFICES ASSUME NEW m \in 0 .. NumUsed, m # 0, m - 1 \in T PROVE Coefficient[m] \in R
      OBVIOUS
    <3>2. Coefficient[m] = row(m, Coefficient[m - 1])
      BY <1>8
    <3>3. Coefficient[m - 1] \in R /\ m \in Nat
      BY <1>1, <3>1
    <3> HIDE DEF R, row
    <3>4. QED
      BY <1>3, <3>2, <3>3
  <2>3. T \in SUBSET (0 .. NumUsed)
    OBVIOUS
  <2> HIDE DEF T
  <2>4. T = N
    BY <1>1, <2>1, <2>2, <2>3, Induction
  <2>5. QED
    BY <2>4 DEF T
<1>10. QED
  <2>1. SUFFICES ASSUME NEW n \in N, NEW k \in N
                 PROVE  /\ Coefficient[n][k] \in Nat
                        /\ Coefficient[n][k] = row(n, Coefficient[n - 1])[k]
    OBVIOUS
  <2>2. Coefficient[n] \in R /\ Coefficient[n] = row(n, Coefficient[n - 1])
    BY <1>8, <1>9
  <2> HIDE DEF row
  <2>3. QED
    BY <2>2

-------------------------------------------------------------------------------
(* Levels *)

\* A finite set of numbers that is not empty has a largest one, which Max chooses,
\* and a smallest one, which Min chooses.
LEMMA Extremes ==
    ASSUME NEW m \in Nat, NEW C \in SUBSET (0 .. m - 1), C # {}
    PROVE  /\ Max(C) \in C /\ \A p \in C : p <= Max(C)
           /\ Min(C) \in C /\ \A p \in C : Min(C) <= p
<1>1. C \in SUBSET (0 .. m) /\ C \in SUBSET Nat
  OBVIOUS
<1>2. Max(C) \in C /\ \A p \in C : p <= Max(C)
  BY <1>1, BoundedMax
<1>3. \E x \in C : \A y \in C : x <= y
  BY <1>1, Smallest
<1>4. Min(C) \in C /\ \A p \in C : Min(C) <= p
  BY <1>3 DEF Min
<1>5. QED
  BY <1>2, <1>4

\* The sets of positions of a map are finite.
LEMMA PositionsFinite ==
    ASSUME NEW m \in Nat, NEW C \in SUBSET (0 .. m - 1)
    PROVE  /\ IsFiniteSet(C) /\ Cardinality(C) \in Nat
           /\ C = {} <=> Cardinality(C) = 0
           /\ \A S \in SUBSET C : IsFiniteSet(S) /\ Cardinality(S) \in Nat
                                  /\ Cardinality(S) <= Cardinality(C)
                                  /\ (S # C => Cardinality(S) < Cardinality(C))
           /\ \A q \in C : Cardinality(C \ {q}) = Cardinality(C) - 1
<1>1. IsFiniteSet(0 .. m - 1)
  BY FS_Interval
<1>2. IsFiniteSet(C)
  BY <1>1, FS_Subset
<1>3. Cardinality(C) \in Nat /\ (C = {} <=> Cardinality(C) = 0)
  BY <1>2, FS_CardinalityType, FS_EmptySet
<1>4. ASSUME NEW S \in SUBSET C
      PROVE  IsFiniteSet(S) /\ Cardinality(S) \in Nat /\ Cardinality(S) <= Cardinality(C)
             /\ (S # C => Cardinality(S) < Cardinality(C))
  <2>1. IsFiniteSet(S) /\ Cardinality(S) <= Cardinality(C)
        /\ (Cardinality(S) = Cardinality(C) => S = C)
    BY <1>2, FS_Subset
  <2>2. Cardinality(S) \in Nat
    BY <2>1, FS_CardinalityType
  <2>3. QED
    BY <1>3, <2>1, <2>2
<1>5. \A q \in C : Cardinality(C \ {q}) = Cardinality(C) - 1
  BY <1>2, FS_RemoveElement
<1>6. QED
  BY <1>2, <1>3, <1>4, <1>5

\* Above the lowest position every level is one lower without it.
LEMMA LevelsFromBottom ==
    ASSUME NEW C, IsFiniteSet(C), C \in SUBSET Nat, NEW q \in C, \A p \in C : q <= p
    PROVE  /\ Level(C, q) = 0
           /\ \A p \in C \ {q} : Level(C, p) = Level(C \ {q}, p) + 1
<1> DEFINE below(D, p) == {x \in D : x < p}
<1>1. \A p \in C : p \in Nat /\ ~ (p < p)
  OBVIOUS
<1>2. below(C, q) = {}
  <2>1. \A x \in C : ~ (x < q)
    BY <1>1
  <2>2. QED
    BY <2>1
<1>3. ASSUME NEW p \in C \ {q} PROVE Level(C, p) = Level(C \ {q}, p) + 1
  <2>1. below(C, p) = below(C \ {q}, p) \cup {q} /\ q \notin below(C \ {q}, p)
    BY <1>1
  <2>2. IsFiniteSet(below(C \ {q}, p))
    BY FS_Subset
  <2>3. Cardinality(below(C, p)) = Cardinality(below(C \ {q}, p)) + 1
    BY <2>1, <2>2, FS_AddElement
  <2>4. QED
    BY <2>3 DEF Level
<1>4. Cardinality(below(C, q)) = 0
  BY <1>2, FS_EmptySet
<1>5. QED
  BY <1>3, <1>4 DEF Level

\* The level of a position is how many of the others are below it.
LEMMA Levels ==
    ASSUME NEW m \in Nat, NEW C \in SUBSET (0 .. m - 1), NEW q \in C
    PROVE  /\ Level(C, q) \in 0 .. Cardinality(C) - 1
           /\ Level(C, q) <= q
           /\ (\A p \in C : p <= q) =>
                 /\ Level(C, q) = Cardinality(C) - 1
                 /\ \A p \in C \ {q} : Level(C \ {q}, p) = Level(C, p)
<1> DEFINE below(D, p) == {x \in D : x < p}
<1>1. /\ IsFiniteSet(C) /\ Cardinality(C) \in Nat
      /\ \A S \in SUBSET C : IsFiniteSet(S) /\ Cardinality(S) \in Nat
                             /\ (S # C => Cardinality(S) < Cardinality(C))
      /\ \A p \in C : Cardinality(C \ {p}) = Cardinality(C) - 1
  BY PositionsFinite
<1>2. \A p \in C : p \in Nat /\ ~ (p < p)
  OBVIOUS
<1>3. Level(C, q) \in 0 .. Cardinality(C) - 1
  <2>1. below(C, q) \in SUBSET C /\ below(C, q) # C
    BY <1>2
  <2>2. Cardinality(below(C, q)) \in Nat /\ Cardinality(below(C, q)) < Cardinality(C)
    BY <1>1, <2>1
  <2>3. QED
    BY <1>1, <2>2 DEF Level
<1>4. Level(C, q) <= q
  <2>1. q \in Nat /\ IsFiniteSet(0 .. q - 1) /\ Cardinality(0 .. q - 1) = q
    <3>1. q \in Nat /\ 0 \in Int /\ q - 1 \in Int
      OBVIOUS
    <3>2. /\ IsFiniteSet(0 .. q - 1)
          /\ Cardinality(0 .. q - 1) = IF 0 > q - 1 THEN 0 ELSE (q - 1) - 0 + 1
      BY <3>1, FS_Interval, Zenon
    <3>3. QED
      BY <3>1, <3>2
  <2>2. below(C, q) \subseteq 0 .. q - 1
    <3>1. \A x \in C : x < q => x \in 0 .. q - 1
      BY <1>2
    <3>2. QED
      BY <3>1
  <2>3. Cardinality(below(C, q)) <= Cardinality(0 .. q - 1)
    BY <2>1, <2>2, FS_Subset
  <2>4. QED
    BY <2>1, <2>3 DEF Level
<1>5. ASSUME \A p \in C : p <= q
      PROVE  /\ Level(C, q) = Cardinality(C) - 1
             /\ \A p \in C \ {q} : Level(C \ {q}, p) = Level(C, p)
  <2>1. below(C, q) = C \ {q}
    <3>1. \A x \in C : x < q <=> x # q
      BY <1>2, <1>5
    <3>2. QED
      BY <3>1
  <2>2. \A p \in C \ {q} : below(C \ {q}, p) = below(C, p)
    BY <1>2, <1>5
  <2>3. QED
    BY <1>1, <2>1, <2>2 DEF Level
<1>7. QED
  BY <1>3, <1>4, <1>5

-------------------------------------------------------------------------------
(* The layout of the tuples of one value of the last parameter *)

\* E is the table of the numbers of tuples of up to s of the m positions with the
\* domain sizes d.
IsTable(E, d, s, m) ==
    /\ s \in Nat /\ m \in Nat
    /\ d \in [0 .. m - 1 -> Nat \ {0}]
    /\ E \in [0 .. s -> [0 .. m -> Nat]]
    /\ \A j \in 0 .. m : E[0][j] = 1
    /\ \A k \in 1 .. s : E[k][0] = 0
    /\ \A k \in 1 .. s : \A q \in 0 .. m - 1 : E[k][q + 1] = E[k][q] + d[q] * E[k - 1][q]

\* x gives every position of C a value.
HasValues(x, d, C) == \A q \in C : x[q] \in 0 .. d[q] - 1

IndexTerm(E, x, C, q) == E[Level(C, q) + 1][q] + x[q] * E[Level(C, q)][q]

\* The place of the tuple with the values x of C among those of its size.
Index(E, x, C) == SumFunctionOnSet([q \in C |-> IndexTerm(E, x, C, q)], C)

\* The terms of an index are natural numbers.
LEMMA IndexTermType ==
    ASSUME NEW E, NEW d, NEW s, NEW m, IsTable(E, d, s, m), NEW x,
           NEW C \in SUBSET (0 .. m - 1), Cardinality(C) <= s, HasValues(x, d, C), NEW q \in C
    PROVE  /\ IndexTerm(E, x, C, q) \in Nat
           /\ \A k \in 0 .. s : E[k][q] \in Nat
           /\ x[q] \in Nat
<1>1. s \in Nat /\ m \in Nat /\ q \in 0 .. m /\ q \in 0 .. m - 1
  BY DEF IsTable
<1>2. Level(C, q) \in 0 .. Cardinality(C) - 1 /\ Cardinality(C) \in Nat
  BY <1>1, Levels, PositionsFinite
<1>3. Level(C, q) + 1 \in 0 .. s /\ Level(C, q) \in 0 .. s
  BY <1>1, <1>2
<1>4. \A k \in 0 .. s : E[k][q] \in Nat
  BY <1>1 DEF IsTable
<1>5. d[q] \in Nat
  BY <1>1 DEF IsTable
<1>6. x[q] \in Nat
  BY <1>5 DEF HasValues
<1>7. E[Level(C, q) + 1][q] \in Nat /\ E[Level(C, q)][q] \in Nat
  BY <1>3, <1>4
<1>8. \A a, b, c \in Nat : a + b * c \in Nat
  OBVIOUS
<1>9. QED
  BY <1>4, <1>6, <1>7, <1>8 DEF IndexTerm

\* The index of a tuple, by the one of its lower positions.
LEMMA IndexFromTop ==
    ASSUME NEW E, NEW d, NEW s, NEW m, IsTable(E, d, s, m), NEW x,
           NEW C \in SUBSET (0 .. m - 1), Cardinality(C) <= s, HasValues(x, d, C),
           NEW q \in C, \A p \in C : p <= q
    PROVE  /\ Cardinality(C) \in 1 .. s
           /\ Index(E, x, C) = Index(E, x, C \ {q}) +
                  (E[Cardinality(C)][q] + x[q] * E[Cardinality(C) - 1][q])
<1> DEFINE D == C \ {q}
           f == [p \in C |-> IndexTerm(E, x, C, p)]
           g == [p \in D |-> IndexTerm(E, x, D, p)]
<1>1. s \in Nat /\ m \in Nat
  BY DEF IsTable
<1>2. /\ IsFiniteSet(C) /\ IsFiniteSet(D)
      /\ Cardinality(C) \in Nat /\ Cardinality(D) = Cardinality(C) - 1 /\ Cardinality(D) \in Nat
  BY <1>1, PositionsFinite
<1>3. Level(C, q) = Cardinality(C) - 1 /\ \A p \in D : Level(D, p) = Level(C, p)
  BY <1>1, Levels
<1>4. \A p \in D : f[p] = g[p]
  BY <1>3 DEF IndexTerm
<1>5. \A p \in C : f[p] \in Int
  BY IndexTermType
<1>6. /\ SumFunctionOnSet(f, C) = f[q] + SumFunctionOnSet(g, D)
      /\ SumFunctionOnSet(f, C) \in Int /\ SumFunctionOnSet(g, D) \in Int
  <2>1. IsFiniteSet(C) /\ (\A p \in C : f[p] \in Int) /\ (\A p \in D : g[p] = f[p])
    BY <1>2, <1>4, <1>5
  <2> HIDE DEF f, g
  <2>2. QED
    BY <2>1, SumSplit
<1>9. Cardinality(C) - 1 + 1 = Cardinality(C)
  BY <1>2
<1>10. f[q] = E[Cardinality(C)][q] + x[q] * E[Cardinality(C) - 1][q]
  BY <1>3, <1>9 DEF IndexTerm
<1>11. f[q] \in Int
  BY <1>5
<1>12. Cardinality(C) \in 1 .. s
  BY <1>1, <1>2
<1> HIDE DEF f, g, D
<1>13. Index(E, x, C) = SumFunctionOnSet(f, C) /\ Index(E, x, D) = SumFunctionOnSet(g, D)
  BY DEF Index, f, g
<1>14. Index(E, x, C) = Index(E, x, D) + f[q]
  BY <1>6, <1>11, <1>13
<1>15. QED
  BY <1>10, <1>12, <1>14 DEF D

\* The sum of nothing.
LEMMA IndexOfNothing ==
    ASSUME NEW E, NEW x
    PROVE  Index(E, x, {}) = 0
BY FS_EmptySet, SumByFirst DEF Index

\* There are no more tuples over fewer positions.
LEMMA TableMonotone ==
    ASSUME NEW E, NEW d, NEW s, NEW m, IsTable(E, d, s, m), NEW k \in 0 .. s
    PROVE  \A i, j \in 0 .. m : i <= j => E[k][i] <= E[k][j]
<1>1. s \in Nat /\ m \in Nat /\ \A j \in 0 .. m : E[k][j] \in Nat
  BY DEF IsTable
<1>2. \A q \in 0 .. m - 1 : E[k][q] <= E[k][q + 1]
  <2>1. SUFFICES ASSUME NEW q \in 0 .. m - 1 PROVE E[k][q] <= E[k][q + 1]
    OBVIOUS
  <2>2. q \in 0 .. m /\ q + 1 \in 0 .. m
    BY <1>1
  <2>3. CASE k = 0
    <3>1. E[0][q] = 1 /\ E[0][q + 1] = 1
      BY <2>2 DEF IsTable
    <3>2. QED
      BY <2>3, <3>1
  <2>4. CASE k # 0
    <3>1. k \in 1 .. s /\ k - 1 \in 0 .. s
      BY <1>1, <2>4
    <3>2. E[k][q + 1] = E[k][q] + d[q] * E[k - 1][q] /\ E[k - 1][q] \in Nat /\ d[q] \in Nat
      BY <2>2, <3>1 DEF IsTable
    <3>3. \A a, b, c \in Nat : a <= a + b * c
      OBVIOUS
    <3>4. E[k][q] \in Nat
      BY <1>1, <2>2
    <3>5. QED
      BY <3>2, <3>3, <3>4
  <2>5. QED
    BY <2>3, <2>4
<1>3. ASSUME NEW i \in 0 .. m
      PROVE  \A j \in 0 .. m : i <= j => E[k][i] <= E[k][j]
  <2> DEFINE T == {j \in 0 .. m : i <= j => E[k][i] <= E[k][j]}
  <2>1. 0 \in T
    <3>1. 0 \in 0 .. m /\ (i <= 0 => i = 0) /\ E[k][i] \in Nat
      BY <1>1
    <3>2. QED
      BY <3>1
  <2>2. \A j \in 0 .. m : j # 0 /\ j - 1 \in T => j \in T
    <3>1. SUFFICES ASSUME NEW j \in 0 .. m, j # 0, j - 1 \in T, i <= j
                   PROVE  E[k][i] <= E[k][j]
      OBVIOUS
    <3>2. j - 1 \in 0 .. m - 1 /\ j - 1 \in 0 .. m /\ (j - 1) + 1 = j
      BY <1>1, <3>1
    <3>3. E[k][j - 1] <= E[k][j]
      BY <1>2, <3>2
    <3>4. CASE i = j
      BY <1>1, <3>4
    <3>5. CASE i # j
      <4>1. E[k][i] <= E[k][j - 1]
        BY <3>1, <3>2, <3>5
      <4>2. E[k][i] \in Nat /\ E[k][j] \in Nat /\ E[k][j - 1] \in Nat
        BY <1>1, <3>2
      <4>3. QED
        BY <3>3, <4>1, <4>2
    <3>6. QED
      BY <3>4, <3>5
  <2>3. T \in SUBSET (0 .. m)
    OBVIOUS
  <2> HIDE DEF T
  <2>4. T = 0 .. m
    BY <1>1, <2>1, <2>2, <2>3, Induction
  <2>5. QED
    BY <2>4 DEF T
<1>4. QED
  BY <1>3

\* A number with two digits.
LEMMA Digits ==
    ASSUME NEW e \in Nat, NEW v \in Nat, NEW w \in Nat, NEW r \in Nat, NEW t \in Nat
    PROVE  /\ v < w /\ r < e => v * e + r < w * e
           /\ r < e /\ t < e /\ v * e + r = w * e + t => v = w /\ r = t
<1>1. ASSUME NEW a \in Nat, NEW b \in Nat, a < b PROVE a * e + e <= b * e
  <2>1. PICK c \in Nat : b = a + 1 + c
    <3>1. b - a - 1 \in Nat /\ b = a + 1 + (b - a - 1)
      BY <1>1
    <3>2. QED
      BY <3>1
  <2>2. b * e = a * e + e + c * e
    BY <2>1
  <2>3. a * e \in Nat /\ c * e \in Nat
    BY <2>1
  <2>4. QED
    BY <2>2, <2>3
<1>2. v * e \in Nat /\ w * e \in Nat
  OBVIOUS
<1>3. v < w /\ r < e => v * e + r < w * e
  BY <1>1, <1>2
<1>4. ASSUME r < e, t < e, v * e + r = w * e + t PROVE v = w /\ r = t
  <2>1. ~ (v < w)
    BY <1>1, <1>2, <1>4
  <2>2. ~ (w < v)
    BY <1>1, <1>2, <1>4
  <2>3. v = w
    BY <2>1, <2>2
  <2>4. QED
    BY <1>2, <1>4, <2>3
<1>5. QED
  BY <1>3, <1>4

\* What the index of a tuple is below and above, by its top position.
LEMMA IndexBetween ==
    ASSUME NEW E, NEW d, NEW s, NEW m, IsTable(E, d, s, m), NEW k \in 1 .. s,
           NEW q \in 0 .. m - 1, NEW v \in 0 .. d[q] - 1, NEW r \in 0 .. E[k - 1][q] - 1
    PROVE  /\ E[k][q] <= r + (E[k][q] + v * E[k - 1][q])
           /\ r + (E[k][q] + v * E[k - 1][q]) < E[k][q + 1]
           /\ E[k][q] \in Nat /\ E[k][q + 1] \in Nat /\ E[k - 1][q] \in Nat
           /\ v * E[k - 1][q] \in Nat
<1>1. s \in Nat /\ m \in Nat /\ k - 1 \in 0 .. s /\ k \in 0 .. s
      /\ q \in 0 .. m /\ q + 1 \in 0 .. m
  BY DEF IsTable
<1>2. E[k][q] \in Nat /\ E[k][q + 1] \in Nat /\ E[k - 1][q] \in Nat /\ d[q] \in Nat
  BY <1>1 DEF IsTable
<1>3. E[k][q + 1] = E[k][q] + d[q] * E[k - 1][q]
  BY DEF IsTable
<1>4. v \in Nat /\ v < d[q] /\ r \in Nat /\ r < E[k - 1][q]
  BY <1>2
<1>5. v * E[k - 1][q] + r < d[q] * E[k - 1][q]
  BY <1>2, <1>4, Digits
<1>6. v * E[k - 1][q] \in Nat /\ d[q] * E[k - 1][q] \in Nat
  BY <1>2, <1>4
<1>7. QED
  BY <1>2, <1>3, <1>4, <1>5, <1>6

\* The indices of the tuples of k positions, all before j, are below their number.
LEMMA IndexInRange ==
    ASSUME NEW E, NEW d, NEW s, NEW m, IsTable(E, d, s, m), NEW x
    PROVE  \A k \in 0 .. s : \A j \in 0 .. m : \A C \in SUBSET (0 .. j - 1) :
               Cardinality(C) = k /\ HasValues(x, d, C) => Index(E, x, C) \in 0 .. E[k][j] - 1
<1> DEFINE Good(k) == \A j \in 0 .. m : \A C \in SUBSET (0 .. j - 1) :
               Cardinality(C) = k /\ HasValues(x, d, C) => Index(E, x, C) \in 0 .. E[k][j] - 1
           T == {k \in 0 .. s : Good(k)}
<1>1. s \in Nat /\ m \in Nat
  BY DEF IsTable
<1>2. 0 \in T
  <2>1. SUFFICES ASSUME NEW j \in 0 .. m, NEW C \in SUBSET (0 .. j - 1), Cardinality(C) = 0
                 PROVE  Index(E, x, C) \in 0 .. E[0][j] - 1
    BY <1>1
  <2>2. C = {}
    <3>1. j \in Nat
      BY <1>1
    <3>2. QED
      BY <2>1, <3>1, PositionsFinite
  <2>3. Index(E, x, C) = 0
    BY <2>2, IndexOfNothing
  <2>4. E[0][j] = 1
    BY DEF IsTable
  <2>5. QED
    BY <2>3, <2>4
<1>3. \A k \in 0 .. s : k # 0 /\ k - 1 \in T => k \in T
  <2>1. SUFFICES ASSUME NEW k \in 0 .. s, k # 0, Good(k - 1), NEW j \in 0 .. m,
                        NEW C \in SUBSET (0 .. j - 1), Cardinality(C) = k, HasValues(x, d, C)
                 PROVE  Index(E, x, C) \in 0 .. E[k][j] - 1
    OBVIOUS
  <2>2. PICK q \in C : \A p \in C : p <= q
    <3>1. C # {}
      BY <1>1, <2>1, PositionsFinite
    <3>2. j \in Nat
      BY <1>1
    <3>3. QED
      BY <3>1, <3>2, Extremes
  <2>3. /\ k \in 1 .. s /\ k - 1 \in 0 .. s
        /\ q \in 0 .. m - 1 /\ q \in 0 .. m /\ q + 1 \in 0 .. m /\ q + 1 <= j
        /\ C \in SUBSET (0 .. m - 1)
    BY <1>1, <2>1
  <2>4. C \ {q} \in SUBSET (0 .. q - 1) /\ Cardinality(C \ {q}) = k - 1
        /\ HasValues(x, d, C \ {q})
    <3>1. \A p \in C \ {q} : p \in 0 .. q - 1
      BY <2>2, <2>3
    <3>2. Cardinality(C \ {q}) = k - 1
      BY <1>1, <2>1, <2>3, PositionsFinite
    <3>3. HasValues(x, d, C \ {q})
      BY <2>1 DEF HasValues
    <3>4. QED
      BY <3>1, <3>2, <3>3
  <2>5. Index(E, x, C \ {q}) \in 0 .. E[k - 1][q] - 1
    BY <2>1, <2>3, <2>4
  <2>6. Index(E, x, C) = Index(E, x, C \ {q}) + (E[k][q] + x[q] * E[k - 1][q])
    BY <2>1, <2>2, <2>3, IndexFromTop
  <2>7. x[q] \in 0 .. d[q] - 1
    BY <2>1 DEF HasValues
  <2>8. /\ E[k][q] <= Index(E, x, C) /\ Index(E, x, C) < E[k][q + 1]
        /\ E[k][q] \in Nat /\ E[k][q + 1] \in Nat /\ x[q] * E[k - 1][q] \in Nat
    BY <2>3, <2>5, <2>6, <2>7, IndexBetween
  <2>9. E[k][q + 1] <= E[k][j] /\ E[k][j] \in Nat
    <3>1. E[k][q + 1] <= E[k][j]
      BY <2>3, TableMonotone
    <3>2. QED
      BY <3>1 DEF IsTable
  <2>10. Index(E, x, C) \in Int
    BY <2>5, <2>6, <2>8
  <2>11. QED
    BY <2>8, <2>9, <2>10
<1>4. T \in SUBSET (0 .. s)
  OBVIOUS
<1> HIDE DEF T
<1>5. T = 0 .. s
  BY <1>1, <1>2, <1>3, <1>4, Induction
<1>6. QED
  BY <1>5 DEF T

\* The index of a tuple is made of its top position q and the index of the others.
IsTop(E, d, x, k, C, q) ==
    /\ \A p \in C : p <= q
    /\ C \ {q} \in SUBSET (0 .. q - 1) /\ Cardinality(C \ {q}) = k - 1
    /\ HasValues(x, d, C \ {q})
    /\ x[q] \in 0 .. d[q] - 1
    /\ Index(E, x, C \ {q}) \in 0 .. E[k - 1][q] - 1
    /\ Index(E, x, C) = Index(E, x, C \ {q}) + (E[k][q] + x[q] * E[k - 1][q])
    /\ E[k][q] <= Index(E, x, C) /\ Index(E, x, C) < E[k][q + 1]
    /\ E[k][q] \in Nat /\ E[k][q + 1] \in Nat /\ E[k - 1][q] \in Nat

\* There is a top position.
LEMMA IndexByTop ==
    ASSUME NEW E, NEW d, NEW s, NEW m, IsTable(E, d, s, m), NEW x, NEW k \in 1 .. s,
           NEW C \in SUBSET (0 .. m - 1), Cardinality(C) = k, HasValues(x, d, C)
    PROVE  \E q \in C : IsTop(E, d, x, k, C, q)
<1>1. s \in Nat /\ m \in Nat
  BY DEF IsTable
<1>2. PICK q \in C : \A p \in C : p <= q
  <2>1. C # {}
    BY <1>1, PositionsFinite
  <2>2. QED
    BY <1>1, <2>1, Extremes
<1>3. /\ k - 1 \in 0 .. s
      /\ q \in 0 .. m - 1 /\ q \in 0 .. m
  BY <1>1
<1>4. C \ {q} \in SUBSET (0 .. q - 1) /\ Cardinality(C \ {q}) = k - 1
      /\ HasValues(x, d, C \ {q})
  <2>1. \A p \in C \ {q} : p \in 0 .. q - 1
    BY <1>2, <1>3
  <2>2. Cardinality(C \ {q}) = k - 1
    BY <1>1, PositionsFinite
  <2>3. HasValues(x, d, C \ {q})
    BY DEF HasValues
  <2>4. QED
    BY <2>1, <2>2, <2>3
<1>5. Index(E, x, C \ {q}) \in 0 .. E[k - 1][q] - 1
  BY <1>3, <1>4, IndexInRange
<1>6. Index(E, x, C) = Index(E, x, C \ {q}) + (E[k][q] + x[q] * E[k - 1][q])
  BY <1>1, <1>2, <1>3, IndexFromTop
<1>7. x[q] \in 0 .. d[q] - 1
  BY DEF HasValues
<1>8. /\ E[k][q] <= Index(E, x, C) /\ Index(E, x, C) < E[k][q + 1]
      /\ E[k][q] \in Nat /\ E[k][q + 1] \in Nat /\ E[k - 1][q] \in Nat
  BY <1>3, <1>5, <1>6, <1>7, IndexBetween
<1>9. QED
  BY <1>2, <1>4, <1>5, <1>6, <1>7, <1>8 DEF IsTop

\* No two tuples of the same size have the same index.
LEMMA IndexInjective ==
    ASSUME NEW E, NEW d, NEW s, NEW m, IsTable(E, d, s, m), NEW x, NEW y
    PROVE  \A k \in 0 .. s : \A C, D \in SUBSET (0 .. m - 1) :
               /\ Cardinality(C) = k /\ HasValues(x, d, C)
               /\ Cardinality(D) = k /\ HasValues(y, d, D)
               /\ Index(E, x, C) = Index(E, y, D)
               => C = D /\ \A q \in C : x[q] = y[q]
<1> DEFINE Good(k) == \A C, D \in SUBSET (0 .. m - 1) :
               /\ Cardinality(C) = k /\ HasValues(x, d, C)
               /\ Cardinality(D) = k /\ HasValues(y, d, D)
               /\ Index(E, x, C) = Index(E, y, D)
               => C = D /\ \A q \in C : x[q] = y[q]
           T == {k \in 0 .. s : Good(k)}
<1>1. s \in Nat /\ m \in Nat
  BY DEF IsTable
<1>2. 0 \in T
  <2>1. SUFFICES ASSUME NEW C \in SUBSET (0 .. m - 1), NEW D \in SUBSET (0 .. m - 1),
                        Cardinality(C) = 0, Cardinality(D) = 0
                 PROVE  C = D /\ \A q \in C : x[q] = y[q]
    BY <1>1
  <2>2. C = {} /\ D = {}
    BY <1>1, <2>1, PositionsFinite
  <2>3. QED
    BY <2>2
<1>3. \A k \in 0 .. s : k # 0 /\ k - 1 \in T => k \in T
  <2>1. SUFFICES ASSUME NEW k \in 0 .. s, k # 0, Good(k - 1),
                        NEW C \in SUBSET (0 .. m - 1), NEW D \in SUBSET (0 .. m - 1),
                        Cardinality(C) = k, HasValues(x, d, C),
                        Cardinality(D) = k, HasValues(y, d, D),
                        Index(E, x, C) = Index(E, y, D)
                 PROVE  C = D /\ \A q \in C : x[q] = y[q]
    OBVIOUS
  <2> DEFINE i == Index(E, x, C)
  <2>2. k \in 1 .. s /\ k \in 0 .. s /\ k - 1 \in 0 .. s
    BY <1>1, <2>1
  <2>30. PICK p \in C : IsTop(E, d, x, k, C, p)
    BY <2>1, <2>2, IndexByTop
  <2>3. /\ C \ {p} \in SUBSET (0 .. p - 1) /\ Cardinality(C \ {p}) = k - 1
         /\ HasValues(x, d, C \ {p})
         /\ x[p] \in 0 .. d[p] - 1
         /\ Index(E, x, C \ {p}) \in 0 .. E[k - 1][p] - 1
         /\ i = Index(E, x, C \ {p}) + (E[k][p] + x[p] * E[k - 1][p])
         /\ E[k][p] <= i /\ i < E[k][p + 1]
         /\ E[k][p] \in Nat /\ E[k][p + 1] \in Nat /\ E[k - 1][p] \in Nat
    BY <2>30 DEF IsTop
  <2>40. PICK q \in D : IsTop(E, d, y, k, D, q)
    BY <2>1, <2>2, IndexByTop
  <2>4. /\ D \ {q} \in SUBSET (0 .. q - 1) /\ Cardinality(D \ {q}) = k - 1
         /\ HasValues(y, d, D \ {q})
         /\ y[q] \in 0 .. d[q] - 1
         /\ Index(E, y, D \ {q}) \in 0 .. E[k - 1][q] - 1
         /\ i = Index(E, y, D \ {q}) + (E[k][q] + y[q] * E[k - 1][q])
         /\ E[k][q] <= i /\ i < E[k][q + 1]
         /\ E[k][q] \in Nat /\ E[k][q + 1] \in Nat /\ E[k - 1][q] \in Nat
    BY <2>1, <2>40 DEF IsTop
  <2>5. /\ p \in 0 .. m - 1 /\ p + 1 \in 0 .. m /\ p \in 0 .. m
        /\ q \in 0 .. m - 1 /\ q + 1 \in 0 .. m /\ q \in 0 .. m
    BY <1>1
  <2>6. d[p] \in Nat /\ d[q] \in Nat
    BY <2>5 DEF IsTable
  <2>7. i \in Int
    <3>1. x[p] \in Nat /\ Index(E, x, C \ {p}) \in Nat
      BY <2>3, <2>6
    <3>2. \A a, b, c, e \in Nat : a + (b + c * e) \in Int
      OBVIOUS
    <3>3. QED
      BY <2>3, <3>1, <3>2
  <2>8. p = q
    <3>1. ~ (p < q)
      <4>1. p < q => p + 1 <= q
        BY <2>5
      <4>2. p < q => E[k][p + 1] <= E[k][q]
        BY <2>2, <2>5, <4>1, TableMonotone
      <4>3. QED
        BY <2>3, <2>4, <2>7, <4>2
    <3>2. ~ (q < p)
      <4>1. q < p => q + 1 <= p
        BY <2>5
      <4>2. q < p => E[k][q + 1] <= E[k][p]
        BY <2>2, <2>5, <4>1, TableMonotone
      <4>3. QED
        BY <2>3, <2>4, <2>7, <4>2
    <3>3. QED
      BY <2>5, <3>1, <3>2
  <2>9. x[p] = y[p] /\ Index(E, x, C \ {p}) = Index(E, y, D \ {p})
    <3>1. /\ x[p] \in Nat /\ y[p] \in Nat /\ E[k - 1][p] \in Nat
          /\ Index(E, x, C \ {p}) \in Nat /\ Index(E, y, D \ {p}) \in Nat
          /\ Index(E, x, C \ {p}) < E[k - 1][p] /\ Index(E, y, D \ {p}) < E[k - 1][p]
      BY <2>3, <2>4, <2>6, <2>8
    <3>2. Index(E, x, C \ {p}) + (E[k][p] + x[p] * E[k - 1][p])
              = Index(E, y, D \ {p}) + (E[k][p] + y[p] * E[k - 1][p])
      BY <2>3, <2>4, <2>8
    <3> DEFINE e == E[k - 1][p]
               b == E[k][p]
               v == x[p]
               w == y[p]
               r == Index(E, x, C \ {p})
               t == Index(E, y, D \ {p})
    <3>3. /\ e \in Nat /\ b \in Nat /\ v \in Nat /\ w \in Nat /\ r \in Nat /\ t \in Nat
          /\ r < e /\ t < e /\ r + (b + v * e) = t + (b + w * e)
      BY <2>3, <3>1, <3>2
    <3> HIDE DEF e, b, v, w, r, t
    <3>4. v * e + r = w * e + t
      <4>1. v * e \in Nat /\ w * e \in Nat
        BY <3>3
      <4>2. QED
        BY <3>3, <4>1
    <3>5. v = w /\ r = t
      BY <3>3, <3>4, Digits
    <3>6. QED
      BY <3>5 DEF v, w, r, t
  <2>10. C \ {p} = D \ {p} /\ \A r \in C \ {p} : x[r] = y[r]
    <3>1. C \ {p} \in SUBSET (0 .. m - 1) /\ D \ {p} \in SUBSET (0 .. m - 1)
      OBVIOUS
    <3>2. QED
      BY <2>1, <2>3, <2>4, <2>8, <2>9, <3>1
  <2>11. p \in C /\ p \in D
    BY <2>8
  <2>12. QED
    BY <2>9, <2>10, <2>11
<1>4. T \in SUBSET (0 .. s)
  OBVIOUS
<1> HIDE DEF T
<1>5. T = 0 .. s
  BY <1>1, <1>2, <1>3, <1>4, Induction
<1>6. QED
  BY <1>5 DEF T

-------------------------------------------------------------------------------
(* Maps *)

\* The parameters and the strength of a map, and the table that goes with them.
IsMap(map) ==
    /\ map.params \in Seq(Params)
    /\ Len(map.params) \in 1 .. NumUsed
    /\ \A i, j \in 1 .. Len(map.params) : i < j => map.params[i] < map.params[j]
    /\ map.strength \in 1 .. Len(map.params)
    /\ map.E = TupleCounts(map.params, map.strength)

Sizes(map) == [q \in Earlier(map) |-> NumValues[Param(map, q)]]

\* The positions of a map and their parameters.
LEMMA MapFacts ==
    ASSUME NEW map, IsMap(map)
    PROVE  /\ LastPosition(map) \in Nat /\ LastPosition(map) < NumUsed
           /\ NumEarlier(map) \in 0 .. LastPosition(map)
           /\ map.strength = NumEarlier(map) + 1
           /\ Len(map.params) = LastPosition(map) + 1
           /\ Earlier(map) = 0 .. LastPosition(map) - 1
           /\ \A q \in 0 .. LastPosition(map) :
                  Param(map, q) \in Params /\ NumValues[Param(map, q)] \in Nat \ {0}
           /\ \A p, q \in 0 .. LastPosition(map) : p < q => Param(map, p) < Param(map, q)
           /\ \A p, q \in 0 .. LastPosition(map) : Param(map, p) = Param(map, q) => p = q
<1>1. /\ map.params \in Seq(Params) /\ Len(map.params) \in 1 .. NumUsed
      /\ \A i, j \in 1 .. Len(map.params) : i < j => map.params[i] < map.params[j]
      /\ map.strength \in 1 .. Len(map.params)
      /\ NumUsed \in Nat
  BY UsedFacts DEF IsMap
<1>2. /\ LastPosition(map) \in Nat /\ LastPosition(map) < NumUsed
      /\ NumEarlier(map) \in 0 .. LastPosition(map)
      /\ map.strength = NumEarlier(map) + 1
      /\ Len(map.params) = LastPosition(map) + 1
      /\ Earlier(map) = 0 .. LastPosition(map) - 1
  BY <1>1 DEF LastPosition, NumEarlier, Earlier
<1>3. \A q \in 0 .. LastPosition(map) : q + 1 \in 1 .. Len(map.params)
  BY <1>2
<1>4. \A q \in 0 .. LastPosition(map) : Param(map, q) \in Params
  BY <1>1, <1>3 DEF Param
<1>5. \A q \in 0 .. LastPosition(map) : NumValues[Param(map, q)] \in Nat \ {0}
  BY <1>4, ParamsFacts
<1>6. \A p, q \in 0 .. LastPosition(map) : p < q => Param(map, p) < Param(map, q)
  <2>1. TAKE p, q \in 0 .. LastPosition(map)
  <2>2. p + 1 \in 1 .. Len(map.params) /\ q + 1 \in 1 .. Len(map.params)
        /\ (p < q => p + 1 < q + 1)
    BY <1>3
  <2>3. QED
    BY <1>1, <2>2 DEF Param
<1>7. \A p, q \in 0 .. LastPosition(map) : Param(map, p) = Param(map, q) => p = q
  <2>1. TAKE p, q \in 0 .. LastPosition(map)
  <2>2. Param(map, p) \in Nat /\ Param(map, q) \in Nat
    BY <1>4, ParamsFacts
  <2>3. QED
    BY <1>6, <2>2
<1>8. QED
  BY <1>2, <1>4, <1>5, <1>6, <1>7

\* The table of a map is one of numbers of tuples.
LEMMA Layout ==
    ASSUME NEW map, IsMap(map)
    PROVE  IsTable(map.E, Sizes(map), NumEarlier(map), LastPosition(map))
<1> DEFINE s == NumEarlier(map)
           m == LastPosition(map)
           d == Sizes(map)
           K == 0 .. s
           R == [K -> Nat]
           row(j, r) == [k \in K |-> IF k = 0 THEN 1
                                     ELSE IF j = 0 THEN 0
                                     ELSE r[k] + NumValues[map.params[j]] * r[k - 1]]
           first == [k \in K |-> IF k = 0 THEN 1 ELSE 0]
           step == [j \in 1 .. m |-> [r \in R |-> row(j, r)]]
<1>1. /\ s \in Nat /\ m \in Nat /\ s = map.strength - 1 /\ m = Len(map.params) - 1
      /\ map.E = TupleCounts(map.params, map.strength)
  BY MapFacts DEF IsMap, NumEarlier, LastPosition
<1>2. d \in [0 .. m - 1 -> Nat \ {0}] /\ \A q \in 0 .. m - 1 : d[q] = NumValues[map.params[q + 1]]
  <2>1. Earlier(map) = 0 .. m - 1
    BY MapFacts
  <2>2. \A q \in 0 .. m - 1 : NumValues[Param(map, q)] \in Nat \ {0}
    <3>1. \A q \in 0 .. m - 1 : q \in 0 .. LastPosition(map)
      BY <1>1
    <3>2. QED
      BY <3>1, MapFacts
  <2>3. QED
    BY <2>1, <2>2 DEF Sizes, Param
<1>3. first \in R
  OBVIOUS
<1>4. \A j \in 1 .. m : \A r \in R : row(j, r) \in R
  <2>1. SUFFICES ASSUME NEW j \in 1 .. m, NEW r \in R, NEW k \in K PROVE row(j, r)[k] \in Nat
    OBVIOUS
  <2>2. k \in Nat /\ (k # 0 => k - 1 \in K)
    BY <1>1
  <2>3. r[k] \in Nat /\ (k # 0 => r[k - 1] \in Nat)
    BY <2>2
  <2>4. j - 1 \in 0 .. m - 1 /\ (j - 1) + 1 = j
    BY <1>1
  <2>5. NumValues[map.params[j]] \in Nat
    BY <1>2, <2>4
  <2>6. \A a, b, c \in Nat : a + b * c \in Nat
    OBVIOUS
  <2>7. QED
    BY <2>2, <2>3, <2>5, <2>6
<1>5. step \in [1 .. m -> [R -> R]]
  <2> HIDE DEF R, row
  <2>1. QED
    BY <1>4
<1>6. PICK g \in [0 .. m -> R] : RecursiveUpTo(g, first, step, m)
  <2> HIDE DEF R, first, step, m
  <2>1. QED
    BY <1>1, <1>3, <1>5, Recursion
<1>7. ASSUME NEW j \in 0 .. m PROVE g[j] = row(j, g[j - 1])
  <2>1. CASE j = 0
    <3>1. g[j] = first
      BY <1>6, <2>1 DEF RecursiveUpTo
    <3>2. QED
      BY <2>1, <3>1
  <2>2. CASE j # 0
    <3>1. j \in 1 .. m /\ j - 1 \in 0 .. m
      BY <1>1, <2>2
    <3>2. g[j] = step[j][g[j - 1]] /\ g[j - 1] \in R
      BY <1>6, <2>2, <3>1 DEF RecursiveUpTo
    <3>3. QED
      BY <3>1, <3>2
  <2>3. QED
    BY <2>1, <2>2
<1> DEFINE before == CHOOSE b : b = [j \in 0 .. m |-> row(j, b[j - 1])]
<1>8. g = [j \in 0 .. m |-> row(j, g[j - 1])]
  <2> HIDE DEF R, row
  <2>1. QED
    BY <1>7
<1>9. before = [j \in 0 .. m |-> row(j, before[j - 1])]
  BY <1>8
<1>10. map.E = [k \in 0 .. map.strength - 1 |-> [j \in 0 .. Len(map.params) - 1 |-> before[j][k]]]
  BY <1>1 DEF TupleCounts
<1> HIDE DEF before
<1>11. \A j \in 0 .. m : before[j] \in R
  <2> DEFINE T == {j \in 0 .. m : before[j] \in R}
  <2>1. 0 \in T
    <3>1. 0 \in 0 .. m
      BY <1>1
    <3>2. before[0] = row(0, before[0 - 1])
      BY <1>9, <3>1
    <3>3. before[0] = first
      BY <3>2
    <3>4. QED
      BY <1>3, <3>1, <3>3
  <2>2. \A j \in 0 .. m : j # 0 /\ j - 1 \in T => j \in T
    <3>1. SUFFICES ASSUME NEW j \in 0 .. m, j # 0, j - 1 \in T PROVE before[j] \in R
      OBVIOUS
    <3>2. j \in 1 .. m /\ before[j - 1] \in R
      BY <1>1, <3>1
    <3> HIDE DEF R, row
    <3>3. before[j] = row(j, before[j - 1])
      BY <1>9
    <3>4. QED
      BY <1>4, <3>2, <3>3
  <2>3. T \in SUBSET (0 .. m)
    OBVIOUS
  <2> HIDE DEF T
  <2>4. T = 0 .. m
    BY <1>1, <2>1, <2>2, <2>3, Induction
  <2>5. QED
    BY <2>4 DEF T
<1>12. map.E = [k \in K |-> [j \in 0 .. m |-> before[j][k]]]
  BY <1>1, <1>10
<1>13. map.E \in [K -> [0 .. m -> Nat]]
  <2>1. \A j \in 0 .. m : \A k \in K : before[j][k] \in Nat
    BY <1>11
  <2> HIDE DEF K, m
  <2>2. QED
    BY <1>12, <2>1
<1>14. ASSUME NEW k \in K, NEW j \in 0 .. m
       PROVE  map.E[k][j] = IF k = 0 THEN 1
                            ELSE IF j = 0 THEN 0
                            ELSE before[j - 1][k] + NumValues[map.params[j]] * before[j - 1][k - 1]
  <2>1. before[j] = row(j, before[j - 1])
    <3> HIDE DEF row
    <3>1. QED
      BY <1>9
  <2>2. map.E[k][j] = before[j][k]
    BY <1>12
  <2>3. QED
    BY <2>1, <2>2
<1>15. \A j \in 0 .. m : map.E[0][j] = 1
  <2>1. 0 \in K
    BY <1>1
  <2>2. QED
    BY <1>14, <2>1
<1>16. \A k \in 1 .. s : map.E[k][0] = 0
  <2>1. 0 \in 0 .. m /\ \A k \in 1 .. s : k \in K /\ k # 0
    BY <1>1
  <2>2. QED
    BY <1>14, <2>1
<1>17. \A k \in 1 .. s : \A q \in 0 .. m - 1 :
           map.E[k][q + 1] = map.E[k][q] + d[q] * map.E[k - 1][q]
  <2>1. SUFFICES ASSUME NEW k \in 1 .. s, NEW q \in 0 .. m - 1
                 PROVE  map.E[k][q + 1] = map.E[k][q] + d[q] * map.E[k - 1][q]
    OBVIOUS
  <2>2. /\ k \in K /\ k - 1 \in K /\ k # 0
        /\ q + 1 \in 0 .. m /\ q + 1 # 0 /\ q \in 0 .. m /\ (q + 1) - 1 = q
    BY <1>1
  <2>3. map.E[k][q + 1] = before[q][k] + NumValues[map.params[q + 1]] * before[q][k - 1]
    BY <1>14, <2>2
  <2>4. map.E[k][q] = before[q][k] /\ map.E[k - 1][q] = before[q][k - 1]
    BY <1>12, <2>2
  <2>5. QED
    BY <1>2, <2>3, <2>4
<1>18. QED
  BY <1>1, <1>2, <1>13, <1>15, <1>16, <1>17 DEF IsTable

-------------------------------------------------------------------------------
(* The tuples of a map and their places *)

\* The tuples of a map.
Own(map) == UNION {TuplesOf(ParamsOf(map, C)) : C \in Combinations(map)}

LastParam(map) == Param(map, LastPosition(map))

\* The values of a tuple, by the earlier positions.
ValuesAt(map, C, u) == [q \in C |-> u[Param(map, q)]]

\* A combination and its parameters determine each other.
LEMMA CombinationFacts ==
    ASSUME NEW map, IsMap(map), NEW C \in Combinations(map)
    PROVE  /\ C \in SUBSET (0 .. LastPosition(map) - 1)
           /\ C \in SUBSET Earlier(map)
           /\ Cardinality(C) = NumEarlier(map)
           /\ IsFiniteSet(C)
           /\ ParamsOf(map, C) \in SUBSET Params
           /\ LastParam(map) \in ParamsOf(map, C)
           /\ \A q \in C : Param(map, q) \in ParamsOf(map, C)
           /\ \A p \in ParamsOf(map, C) : p = LastParam(map) \/ \E q \in C : p = Param(map, q)
           /\ CombinationOf(map, ParamsOf(map, C)) = C
<1> DEFINE m == LastPosition(map)
<1>1. /\ m \in Nat /\ Earlier(map) = 0 .. m - 1
      /\ \A q \in 0 .. m : Param(map, q) \in Params
      /\ \A p, q \in 0 .. m : Param(map, p) = Param(map, q) => p = q
  BY MapFacts
<1>2. C \in SUBSET (0 .. m - 1) /\ Cardinality(C) = NumEarlier(map)
  BY <1>1 DEF Combinations, kSubset
<1>3. IsFiniteSet(C)
  <2> HIDE DEF m
  <2>1. QED
    BY <1>1, <1>2, PositionsFinite
<1>4. \A q \in C \cup {m} : q \in 0 .. m
  BY <1>1, <1>2
<1>5. ParamsOf(map, C) \in SUBSET Params
  BY <1>1, <1>4 DEF ParamsOf
<1>6. \A q \in Earlier(map) : Param(map, q) \in ParamsOf(map, C) <=> q \in C
  <2>1. TAKE q \in Earlier(map)
  <2>2. q \in 0 .. m /\ q # m
    BY <1>1
  <2>3. Param(map, q) \in ParamsOf(map, C) <=> q \in C \cup {m}
    BY <1>1, <1>4, <2>2 DEF ParamsOf
  <2>4. QED
    BY <2>2, <2>3
<1>7. CombinationOf(map, ParamsOf(map, C)) = C
  BY <1>1, <1>2, <1>6 DEF CombinationOf
<1>8. /\ LastParam(map) \in ParamsOf(map, C)
      /\ \A q \in C : Param(map, q) \in ParamsOf(map, C)
      /\ \A p \in ParamsOf(map, C) : p = LastParam(map) \/ \E q \in C : p = Param(map, q)
  BY DEF ParamsOf, LastParam
<1>9. QED
  BY <1>1, <1>2, <1>3, <1>5, <1>7, <1>8

\* A tuple of a combination has values of the domains of its parameters.
LEMMA OwnTuple ==
    ASSUME NEW map, IsMap(map), NEW C \in Combinations(map), NEW u \in TuplesOf(ParamsOf(map, C))
    PROVE  /\ DOMAIN u = ParamsOf(map, C) /\ CombinationOf(map, DOMAIN u) = C
           /\ u \in Own(map) /\ u \in Tuples
           /\ u[LastParam(map)] \in Dom(LastParam(map))
           /\ u[LastParam(map)] \in 0 .. NumValues[LastParam(map)] - 1
           /\ \A q \in C : u[Param(map, q)] \in Dom(Param(map, q))
           /\ HasValues(ValuesAt(map, C, u), Sizes(map), C)
<1>1. DOMAIN u = ParamsOf(map, C) /\ \A p \in ParamsOf(map, C) : u[p] \in Dom(p)
  BY DEF TuplesOf
<1>2. CombinationOf(map, DOMAIN u) = C
  BY <1>1, CombinationFacts
<1>3. u \in Own(map)
  BY DEF Own
<1>4. u \in Tuples
  BY CombinationFacts DEF Tuples
<1>5. u[LastParam(map)] \in Dom(LastParam(map))
      /\ \A q \in C : u[Param(map, q)] \in Dom(Param(map, q))
  BY <1>1, CombinationFacts
<1>6. HasValues(ValuesAt(map, C, u), Sizes(map), C)
  <2>1. \A q \in C : q \in Earlier(map)
    BY CombinationFacts
  <2>2. QED
    BY <1>5, <2>1 DEF HasValues, ValuesAt, Sizes, Dom
<1>7. QED
  BY <1>1, <1>2, <1>3, <1>4, <1>5, <1>6 DEF Dom

\* The combination of a tuple of a map.
LEMMA OwnFacts ==
    ASSUME NEW map, IsMap(map), NEW u \in Own(map)
    PROVE  /\ CombinationOf(map, DOMAIN u) \in Combinations(map)
           /\ u \in TuplesOf(ParamsOf(map, CombinationOf(map, DOMAIN u)))
           /\ DOMAIN u = ParamsOf(map, CombinationOf(map, DOMAIN u))
<1>1. PICK C \in Combinations(map) : u \in TuplesOf(ParamsOf(map, C))
  BY DEF Own
<1>2. CombinationOf(map, DOMAIN u) = C /\ DOMAIN u = ParamsOf(map, C)
  BY <1>1, OwnTuple
<1>3. QED
  BY <1>1, <1>2

\* The place of a tuple: the last value is the high digit.
LEMMA PlaceOfTuple ==
    ASSUME NEW map, IsMap(map), NEW C \in Combinations(map), NEW u \in TuplesOf(ParamsOf(map, C))
    PROVE  /\ PhysicalIndex(map, C, u) = u[LastParam(map)] * TuplesPerValue(map)
                                         + Index(map.E, ValuesAt(map, C, u), C)
           /\ Index(map.E, ValuesAt(map, C, u), C) \in 0 .. TuplesPerValue(map) - 1
           /\ TuplesPerValue(map) \in Nat
           /\ u[LastParam(map)] \in Nat
<1> DEFINE s == NumEarlier(map)
           m == LastPosition(map)
           E == map.E
           x == ValuesAt(map, C, u)
           f == [q \in C |-> E[Level(C, q) + 1][q]]
           g == [q \in C |-> u[Param(map, q)] * E[Level(C, q)][q]]
           h == [q \in C |-> IndexTerm(E, x, C, q)]
<1>1. /\ IsTable(E, Sizes(map), s, m) /\ C \in SUBSET (0 .. m - 1) /\ Cardinality(C) = s
      /\ HasValues(x, Sizes(map), C) /\ IsFiniteSet(C) /\ s \in Nat /\ m \in Nat
      /\ s \in 0 .. s /\ m \in 0 .. m
  BY CombinationFacts, OwnTuple, Layout, MapFacts DEF IsTable
<1>2. ASSUME NEW q \in C
      PROVE  f[q] \in Int /\ g[q] \in Int /\ h[q] \in Int /\ h[q] = f[q] + g[q]
  <2>1. (\A k \in 0 .. s : E[k][q] \in Nat) /\ x[q] \in Nat
    <3> HIDE DEF x, E, s, m
    <3>1. s <= s
      BY <1>1
    <3>2. QED
      BY <1>1, <3>1, IndexTermType
  <2>2. Level(C, q) \in 0 .. s - 1
    <3> HIDE DEF s, m
    <3>1. QED
      BY <1>1, Levels
  <2>3. Level(C, q) \in 0 .. s /\ Level(C, q) + 1 \in 0 .. s
    BY <1>1, <2>2
  <2>4. E[Level(C, q)][q] \in Nat /\ E[Level(C, q) + 1][q] \in Nat
    BY <2>1, <2>3
  <2>5. u[Param(map, q)] = x[q]
    BY DEF ValuesAt
  <2>6. h[q] = E[Level(C, q) + 1][q] + x[q] * E[Level(C, q)][q]
    BY DEF IndexTerm
  <2>7. \A a, b, c \in Nat : a \in Int /\ b * c \in Int /\ a + b * c \in Int
    OBVIOUS
  <2> HIDE DEF x
  <2>8. QED
    BY <2>1, <2>4, <2>5, <2>6, <2>7
<1>3. /\ Base(map, C) = SumFunctionOnSet(f, C)
      /\ Index(E, x, C) = SumFunctionOnSet(h, C)
      /\ SumFunction(g) = SumFunctionOnSet(g, C)
  BY DEF Base, Index, SumFunction
<1>4. /\ SumFunctionOnSet(h, C) = SumFunctionOnSet(f, C) + SumFunctionOnSet(g, C)
      /\ SumFunctionOnSet(f, C) \in Int /\ SumFunctionOnSet(g, C) \in Int
  <2> HIDE DEF f, g, h
  <2>1. PICK S : S = C
    OBVIOUS
  <2>2. IsFiniteSet(S) /\ \A q \in S : f[q] \in Int /\ g[q] \in Int /\ h[q] \in Int
        /\ h[q] = f[q] + g[q]
    BY <1>1, <1>2, <2>1
  <2>3. SumFunctionOnSet(h, S) = SumFunctionOnSet(f, S) + SumFunctionOnSet(g, S)
        /\ SumFunctionOnSet(f, S) \in Int /\ SumFunctionOnSet(g, S) \in Int
    BY <2>2, SumPointwise, SumType
  <2>4. QED
    BY <2>1, <2>3
<1>5. TuplesPerValue(map) = E[s][m] /\ TuplesPerValue(map) \in Nat
  BY <1>1 DEF TuplesPerValue, IsTable
<1>6. u[LastParam(map)] \in Nat
  BY OwnTuple, MapFacts
<1>7. Index(E, x, C) \in 0 .. E[s][m] - 1
  <2> HIDE DEF E, x, s, m
  <2>1. QED
    BY <1>1, IndexInRange
<1>8. PhysicalIndex(map, C, u) = SumFunctionOnSet(f, C) + u[LastParam(map)] * TuplesPerValue(map)
          + SumFunctionOnSet(g, C)
  BY <1>3 DEF PhysicalIndex, LastParam
<1>9. u[LastParam(map)] * TuplesPerValue(map) \in Nat
  BY <1>5, <1>6
<1> HIDE DEF f, g, h
<1>10. QED
  BY <1>3, <1>4, <1>5, <1>6, <1>7, <1>8, <1>9

\* No two tuples of a map share a bit, and all bits are within the array
\* (coverage_map.hpp:117-133, coverage_map.cpp:110-126): the base addresses and strides put every
\* combination of earlier parameters and every choice of values at a place of its own.
THEOREM PlacesDistinct ==
    ASSUME NEW map, IsMap(map),
           NEW C \in Combinations(map), NEW u \in TuplesOf(ParamsOf(map, C)),
           NEW D \in Combinations(map), NEW v \in TuplesOf(ParamsOf(map, D))
    PROVE  /\ PhysicalIndex(map, C, u) \in 0 .. TotalNumTuples(map) - 1
           /\ PhysicalIndex(map, C, u) = PhysicalIndex(map, D, v) => C = D /\ u = v
<1> DEFINE e == TuplesPerValue(map)
           a == u[LastParam(map)]
           b == v[LastParam(map)]
           i == Index(map.E, ValuesAt(map, C, u), C)
           j == Index(map.E, ValuesAt(map, D, v), D)
           n == NumValues[LastParam(map)]
<1>1. /\ PhysicalIndex(map, C, u) = a * e + i /\ i \in 0 .. e - 1
      /\ PhysicalIndex(map, D, v) = b * e + j /\ j \in 0 .. e - 1
      /\ a \in Nat /\ b \in Nat /\ e \in Nat
  BY PlaceOfTuple
<1>2. n \in Nat /\ a < n /\ TotalNumTuples(map) = n * e
  <2>1. n \in Nat /\ a \in 0 .. n - 1 /\ LastDomain(map) = 0 .. n - 1
    BY OwnTuple, MapFacts DEF LastDomain, LastParam, Dom
  <2>2. Cardinality(0 .. n - 1) = n
    <3> HIDE DEF n
    <3>1. n \in Nat /\ 0 \in Int /\ n - 1 \in Int
      BY <2>1
    <3>2. Cardinality(0 .. n - 1) = IF 0 > n - 1 THEN 0 ELSE (n - 1) - 0 + 1
      BY <3>1, FS_Interval, Zenon
    <3>3. QED
      BY <3>1, <3>2
  <2>3. QED
    BY <2>1, <2>2 DEF TotalNumTuples
<1>3. PhysicalIndex(map, C, u) \in 0 .. TotalNumTuples(map) - 1
  <2> HIDE DEF a, b, i, j, e, n
  <2>1. a * e + i < n * e
    BY <1>1, <1>2, Digits
  <2>2. a * e \in Nat /\ n * e \in Nat /\ i \in Nat
    BY <1>1, <1>2
  <2>3. QED
    BY <1>1, <1>2, <2>1, <2>2
<1>4. ASSUME PhysicalIndex(map, C, u) = PhysicalIndex(map, D, v)
      PROVE  C = D /\ u = v
  <2>1. a = b /\ i = j
    <3> HIDE DEF a, b, i, j, e, n
    <3>1. i \in Nat /\ j \in Nat /\ i < e /\ j < e /\ a * e + i = b * e + j
      BY <1>1, <1>4
    <3>2. QED
      BY <1>1, <3>1, Digits
  <2>2. C = D /\ \A q \in C : ValuesAt(map, C, u)[q] = ValuesAt(map, D, v)[q]
    <3> DEFINE x == ValuesAt(map, C, u)
               y == ValuesAt(map, D, v)
               s == NumEarlier(map)
               m == LastPosition(map)
    <3>1. /\ IsTable(map.E, Sizes(map), s, m) /\ s \in 0 .. s
          /\ C \in SUBSET (0 .. m - 1) /\ Cardinality(C) = s /\ HasValues(x, Sizes(map), C)
          /\ D \in SUBSET (0 .. m - 1) /\ Cardinality(D) = s /\ HasValues(y, Sizes(map), D)
      BY CombinationFacts, OwnTuple, Layout, MapFacts
    <3> HIDE DEF x, y, s, m
    <3>2. Index(map.E, x, C) = Index(map.E, y, D)
      BY <2>1 DEF x, y
    <3>3. C = D /\ \A q \in C : x[q] = y[q]
      BY <3>1, <3>2, IndexInjective
    <3>4. QED
      BY <3>3 DEF x, y
  <2>3. \A q \in C : u[Param(map, q)] = v[Param(map, q)]
    BY <2>2 DEF ValuesAt
  <2>4. DOMAIN u = ParamsOf(map, C) /\ DOMAIN v = ParamsOf(map, C)
        /\ u = [p \in DOMAIN u |-> u[p]] /\ v = [p \in DOMAIN v |-> v[p]]
    BY <2>2 DEF TuplesOf
  <2>5. \A p \in ParamsOf(map, C) : u[p] = v[p]
    BY <2>1, <2>3, CombinationFacts
  <2>6. QED
    BY <2>2, <2>4, <2>5
<1>5. QED
  BY <1>3, <1>4

-------------------------------------------------------------------------------
(* Counting combinations *)

\* A one-to-one image of a finite set has as many elements.
LEMMA SameCount ==
    ASSUME NEW S, IsFiniteSet(S), NEW f, DOMAIN f = S,
           \A x, y \in S : f[x] = f[y] => x = y
    PROVE  /\ IsFiniteSet({f[x] : x \in S})
           /\ Cardinality({f[x] : x \in S}) = Cardinality(S)
<1> DEFINE T == {f[x] : x \in S}
           g == [x \in S |-> f[x]]
<1>1. g \in [S -> T]
  OBVIOUS
<1>2. \A t \in T : \E x \in S : g[x] = t
  OBVIOUS
<1>3. \A x, y \in S : g[x] = g[y] => x = y
  OBVIOUS
<1> HIDE DEF g, T
<1>4. g \in Surjection(S, T)
  BY <1>1, <1>2 DEF Surjection
<1>6. g \in Injection(S, T)
  BY <1>1, <1>3 DEF Injection, IsInjective
<1>5. IsFiniteSet(T) /\ Cardinality(T) = Cardinality(S)
  BY <1>4, <1>6, FS_Surjection
<1>7. QED
  BY <1>5 DEF T

\* Pascal's rule, with zeros beside the triangle.
LEMMA Pascal ==
    /\ \A n, k \in 0 .. NumUsed : Coefficient[n][k] \in Nat
    /\ \A n \in 0 .. NumUsed : Coefficient[n][0] = 1
    /\ \A k \in 1 .. NumUsed : Coefficient[0][k] = 0
    /\ \A n, k \in 1 .. NumUsed :
           Coefficient[n][k] = Coefficient[n - 1][k - 1] + Coefficient[n - 1][k]
<1>1. NumUsed \in Nat
  BY UsedFacts
<1>2. \A n, k \in 0 .. NumUsed : Coefficient[n][k] \in Nat
  BY CoefficientDefined
<1>3. \A n \in 0 .. NumUsed : Coefficient[n][0] = 1
  <2>1. 0 \in 0 .. NumUsed /\ \A n \in 0 .. NumUsed : ~ (0 > n)
    BY <1>1
  <2>2. QED
    BY <2>1, CoefficientDefined
<1>4. \A n, k \in 0 .. NumUsed : k > n => Coefficient[n][k] = 0
  BY CoefficientDefined
<1>5. \A n \in 0 .. NumUsed : Coefficient[n][n] = 1
  <2>1. \A n \in 0 .. NumUsed : ~ (n > n)
    BY <1>1
  <2>2. QED
    BY <2>1, CoefficientDefined
<1>6. \A k \in 1 .. NumUsed : Coefficient[0][k] = 0
  <2>1. 0 \in 0 .. NumUsed /\ \A k \in 1 .. NumUsed : k \in 0 .. NumUsed /\ k > 0
    BY <1>1
  <2>2. QED
    BY <1>4, <2>1
<1>7. ASSUME NEW n \in 1 .. NumUsed, NEW k \in 1 .. NumUsed
      PROVE  Coefficient[n][k] = Coefficient[n - 1][k - 1] + Coefficient[n - 1][k]
  <2>1. /\ n \in 0 .. NumUsed /\ k \in 0 .. NumUsed
        /\ n - 1 \in 0 .. NumUsed /\ k - 1 \in 0 .. NumUsed /\ k # 0
    BY <1>1
  <2>2. CASE k > n
    <3>1. k > n - 1 /\ k - 1 > n - 1
      BY <1>1, <2>2
    <3>2. Coefficient[n][k] = 0 /\ Coefficient[n - 1][k] = 0 /\ Coefficient[n - 1][k - 1] = 0
      BY <1>4, <2>1, <2>2, <3>1
    <3>3. QED
      BY <3>2
  <2>3. CASE k = n
    <3>1. k > n - 1 /\ k - 1 = n - 1
      BY <1>1, <2>3
    <3>2. Coefficient[n][k] = 1 /\ Coefficient[n - 1][k] = 0 /\ Coefficient[n - 1][k - 1] = 1
      BY <1>4, <1>5, <2>1, <2>3, <3>1
    <3>3. QED
      BY <3>2
  <2>4. CASE ~ (k > n) /\ k # n
    BY <2>1, <2>4, CoefficientDefined
  <2>5. QED
    BY <2>2, <2>3, <2>4
<1>8. QED
  BY <1>2, <1>3, <1>6, <1>7

\* The sets of k of the first n positions.
PositionSets(k, n) == kSubset(k, 0 .. n - 1)

\* They are finitely many.
LEMMA PositionSetsFinite ==
    ASSUME NEW k \in Nat, NEW n \in Nat
    PROVE  /\ IsFiniteSet(PositionSets(k, n))
           /\ \A D : D \in PositionSets(k, n) <=>
                  D \in SUBSET (0 .. n - 1) /\ Cardinality(D) = k
<1>1. IsFiniteSet(0 .. n - 1)
  BY FS_Interval
<1>2. IsFiniteSet(SUBSET (0 .. n - 1))
  BY <1>1, FS_SUBSET
<1>3. PositionSets(k, n) \in SUBSET (SUBSET (0 .. n - 1))
  BY DEF PositionSets, kSubset
<1>4. IsFiniteSet(PositionSets(k, n))
  BY <1>2, <1>3, FS_Subset
<1>5. QED
  BY <1>4 DEF PositionSets, kSubset

\* The choices with the last position are those of one less of the positions before.
LEMMA PositionSetsWithLast ==
    ASSUME NEW k \in Nat \ {0}, NEW n \in Nat
    PROVE  LET with == {D \in PositionSets(k, n + 1) : n \in D}
           IN /\ with = {D \cup {n} : D \in PositionSets(k - 1, n)}
              /\ with \cup PositionSets(k, n) = PositionSets(k, n + 1)
              /\ with \cap PositionSets(k, n) = {}
              /\ \A D \in PositionSets(k - 1, n) : n \notin D
<1> DEFINE with == {D \in PositionSets(k, n + 1) : n \in D}
<1>0. k - 1 \in Nat /\ k \in Nat /\ n + 1 \in Nat /\ (n + 1) - 1 = n
  OBVIOUS
<1>1. /\ \A D : D \in PositionSets(k, n + 1) <=> D \in SUBSET (0 .. n) /\ Cardinality(D) = k
      /\ \A D : D \in PositionSets(k, n) <=> D \in SUBSET (0 .. n - 1) /\ Cardinality(D) = k
      /\ \A D : D \in PositionSets(k - 1, n) <=> D \in SUBSET (0 .. n - 1) /\ Cardinality(D) = k - 1
  <2>1. \A D : D \in PositionSets(k, n + 1)
                 <=> D \in SUBSET (0 .. (n + 1) - 1) /\ Cardinality(D) = k
    BY <1>0, PositionSetsFinite
  <2>2. QED
    BY <1>0, <2>1, PositionSetsFinite
<1>2. /\ n \notin 0 .. n - 1
      /\ \A x \in 0 .. n : x # n => x \in 0 .. n - 1
      /\ \A x \in 0 .. n - 1 : x \in 0 .. n
  OBVIOUS
<1>3. \A D \in PositionSets(k - 1, n) : n \notin D
  BY <1>1, <1>2
<1>4. ASSUME NEW D \in PositionSets(k - 1, n)
      PROVE  D \cup {n} \in with
  <2>1. IsFiniteSet(D) /\ n \notin D /\ Cardinality(D) = k - 1 /\ D \in SUBSET (0 .. n - 1)
    BY <1>1, <1>3, PositionsFinite
  <2>2. Cardinality(D \cup {n}) = (k - 1) + 1
    BY <2>1, FS_AddElement
  <2>3. D \cup {n} \in SUBSET (0 .. n)
    BY <1>2, <2>1
  <2>4. QED
    BY <1>0, <1>1, <2>2, <2>3
<1>5. ASSUME NEW D \in with
      PROVE  \E F \in PositionSets(k - 1, n) : D = F \cup {n}
  <2>1. D \in SUBSET (0 .. n) /\ Cardinality(D) = k /\ n \in D
    BY <1>1
  <2>2. IsFiniteSet(D)
    <3>1. IsFiniteSet(0 .. n)
      BY FS_Interval
    <3>2. QED
      BY <2>1, <3>1, FS_Subset
  <2>3. Cardinality(D \ {n}) = k - 1
    BY <2>1, <2>2, FS_RemoveElement
  <2>4. D \ {n} \in SUBSET (0 .. n - 1)
    BY <1>2, <2>1
  <2>5. D \ {n} \in PositionSets(k - 1, n) /\ D = (D \ {n}) \cup {n}
    BY <1>1, <2>1, <2>3, <2>4
  <2>6. QED
    BY <2>5
<1>6. with = {D \cup {n} : D \in PositionSets(k - 1, n)}
  <2> HIDE DEF with
  <2>1. QED
    BY <1>4, <1>5
<1>7. with \cup PositionSets(k, n) = PositionSets(k, n + 1)
  BY <1>1, <1>2
<1>8. with \cap PositionSets(k, n) = {}
  BY <1>1, <1>2
<1>9. QED
  BY <1>3, <1>6, <1>7, <1>8

\* Two disjoint finite sets.
LEMMA DisjointUnion ==
    ASSUME NEW S, NEW T, IsFiniteSet(S), IsFiniteSet(T), S \cap T = {}
    PROVE  IsFiniteSet(S \cup T) /\ Cardinality(S \cup T) = Cardinality(S) + Cardinality(T)
<1>1. Cardinality(S) \in Nat /\ Cardinality(T) \in Nat /\ Cardinality(S \cap T) = 0
  BY FS_CardinalityType, FS_EmptySet
<1>2. IsFiniteSet(S \cup T)
      /\ Cardinality(S \cup T) = Cardinality(S) + Cardinality(T) - Cardinality(S \cap T)
  BY FS_Union, Zenon
<1>3. QED
  BY <1>1, <1>2

\* "n over k" is the number of choices of k of n positions.
LEMMA PositionSetsCount ==
    \A n \in 0 .. NumUsed : \A k \in 0 .. NumUsed :
        Cardinality(PositionSets(k, n)) = Coefficient[n][k]
<1> DEFINE Good(n) == \A k \in 0 .. NumUsed : Cardinality(PositionSets(k, n)) = Coefficient[n][k]
           T == {n \in 0 .. NumUsed : Good(n)}
<1>1. NumUsed \in Nat
  BY UsedFacts
<1>2. \A n \in Nat : Cardinality(PositionSets(0, n)) = 1
  <2>1. TAKE n \in Nat
  <2>2. \A D : D \in PositionSets(0, n) <=> D = {}
    <3>1. \A D : D \in PositionSets(0, n) <=> D \in SUBSET (0 .. n - 1) /\ Cardinality(D) = 0
      BY PositionSetsFinite
    <3>2. \A D \in SUBSET (0 .. n - 1) : Cardinality(D) = 0 <=> D = {}
      BY PositionsFinite
    <3>3. {} \in SUBSET (0 .. n - 1)
      OBVIOUS
    <3>4. QED
      BY <3>1, <3>2, <3>3
  <2>3. PositionSets(0, n) = {{}}
    BY <2>2
  <2>4. QED
    BY <2>3, FS_Singleton
<1>3. 0 \in T
  <2>1. SUFFICES ASSUME NEW k \in 0 .. NumUsed
                 PROVE  Cardinality(PositionSets(k, 0)) = Coefficient[0][k]
    BY <1>1
  <2>2. CASE k = 0
    BY <1>1, <1>2, <2>2, Pascal
  <2>3. CASE k # 0
    <3>1. k \in Nat /\ 0 \in Nat /\ k \in 1 .. NumUsed
      BY <1>1, <2>3
    <3>2. \A D : D \in PositionSets(k, 0) <=> D \in SUBSET (0 .. 0 - 1) /\ Cardinality(D) = k
      BY <3>1, PositionSetsFinite
    <3>3. 0 .. 0 - 1 = {}
      OBVIOUS
    <3>4. Cardinality({}) = 0
      BY FS_EmptySet
    <3>5. PositionSets(k, 0) = {}
      BY <2>3, <3>2, <3>3, <3>4
    <3>6. QED
      BY <3>1, <3>4, <3>5, Pascal
  <2>4. QED
    BY <2>2, <2>3
<1>4. \A n \in 0 .. NumUsed : n # 0 /\ n - 1 \in T => n \in T
  <2>1. SUFFICES ASSUME NEW n \in 0 .. NumUsed, n # 0, Good(n - 1), NEW k \in 0 .. NumUsed
                 PROVE  Cardinality(PositionSets(k, n)) = Coefficient[n][k]
    OBVIOUS
  <2>2. n - 1 \in Nat /\ (n - 1) + 1 = n /\ n \in 1 .. NumUsed /\ n \in Nat /\ k \in Nat
    BY <1>1, <2>1
  <2>3. CASE k = 0
    BY <1>2, <2>2, <2>3, Pascal
  <2>4. CASE k # 0
    <3> DEFINE with == {D \in PositionSets(k, n) : n - 1 \in D}
    <3>1. k \in Nat \ {0} /\ k \in 1 .. NumUsed /\ k - 1 \in 0 .. NumUsed /\ k - 1 \in Nat
      BY <1>1, <2>4
    <3>2. /\ with = {D \cup {n - 1} : D \in PositionSets(k - 1, n - 1)}
          /\ with \cup PositionSets(k, n - 1) = PositionSets(k, n)
          /\ with \cap PositionSets(k, n - 1) = {}
          /\ \A D \in PositionSets(k - 1, n - 1) : n - 1 \notin D
      BY <2>2, <3>1, PositionSetsWithLast
    <3>3. /\ IsFiniteSet(PositionSets(k - 1, n - 1))
          /\ IsFiniteSet(PositionSets(k, n - 1)) /\ IsFiniteSet(PositionSets(k, n))
      BY <2>2, <3>1, PositionSetsFinite
    <3> HIDE DEF with
    <3>4. Cardinality(with) = Cardinality(PositionSets(k - 1, n - 1)) /\ IsFiniteSet(with)
      <4> DEFINE f == [D \in PositionSets(k - 1, n - 1) |-> D \cup {n - 1}]
      <4>1. \A D, F \in PositionSets(k - 1, n - 1) : f[D] = f[F] => D = F
        <5>1. \A X, Y, a : a \notin X /\ a \notin Y /\ X \cup {a} = Y \cup {a} => X = Y
          OBVIOUS
        <5>2. \A D \in PositionSets(k - 1, n - 1) : f[D] = D \cup {n - 1} /\ n - 1 \notin D
          BY <3>2
        <5> HIDE DEF f
        <5>3. QED
          BY <5>1, <5>2
      <4>2. with = {f[D] : D \in PositionSets(k - 1, n - 1)}
        BY <3>2
      <4>3. DOMAIN f = PositionSets(k - 1, n - 1)
        OBVIOUS
      <4> HIDE DEF f
      <4>4. QED
        BY <3>3, <4>1, <4>2, <4>3, SameCount
    <3>5. Cardinality(PositionSets(k, n)) = Cardinality(with) + Cardinality(PositionSets(k, n - 1))
      BY <3>2, <3>3, <3>4, DisjointUnion
    <3>6. Cardinality(PositionSets(k - 1, n - 1)) = Coefficient[n - 1][k - 1]
          /\ Cardinality(PositionSets(k, n - 1)) = Coefficient[n - 1][k]
      BY <2>1, <3>1
    <3>7. QED
      BY <2>2, <3>1, <3>4, <3>5, <3>6, Pascal
  <2>5. QED
    BY <2>3, <2>4
<1>5. T \in SUBSET (0 .. NumUsed)
  OBVIOUS
<1> HIDE DEF T
<1>6. T = 0 .. NumUsed
  BY <1>1, <1>3, <1>4, <1>5, Induction
<1>7. QED
  BY <1>6 DEF T

-------------------------------------------------------------------------------
(* The order of combinations *)

\* The one that is smallest is the minimum.
LEMMA MinIs ==
    ASSUME NEW m \in Nat, NEW S \in SUBSET (0 .. m), NEW x \in S, \A y \in S : x <= y
    PROVE  Min(S) = x
<1>1. \E z \in S : \A y \in S : z <= y
  OBVIOUS
<1>2. Min(S) \in S /\ \A y \in S : Min(S) <= y
  BY <1>1 DEF Min
<1>3. PICK z : z = Min(S)
  OBVIOUS
<1>4. z \in S /\ z <= x /\ x <= z
  BY <1>2, <1>3, Zenon
<1>5. z = x
  BY <1>4
<1>6. QED
  BY <1>3, <1>5

\* What it means that a combination comes before another.
LEMMA BeforeIff ==
    ASSUME NEW n \in Nat, NEW S \in SUBSET (0 .. n - 1), NEW T \in SUBSET (0 .. n - 1)
    PROVE  /\ ComboBefore(S, T) <=> \E x \in S : x \notin T /\ \A y \in T : y \notin S => y < x
           /\ S # T => ComboBefore(S, T) \/ ComboBefore(T, S)
<1> DEFINE d == SymDiff(S, T)
<1>1. d \in SUBSET (0 .. n - 1) /\ SymDiff(T, S) = d /\ (d = {} <=> S = T)
      /\ \A x : x \in d <=> (x \in S /\ x \notin T) \/ (x \in T /\ x \notin S)
  BY DEF SymDiff
<1>2. ComboBefore(S, T) <=> d # {} /\ Max(d) \in S
  BY DEF ComboBefore
<1>3. ComboBefore(T, S) <=> d # {} /\ Max(d) \in T
  BY <1>1 DEF ComboBefore
<1> HIDE DEF d
<1>4. d # {} => Max(d) \in d /\ \A y \in d : y <= Max(d)
  BY <1>1, Extremes
<1>10. d # {} => Max(d) \in Int
  <2>1. \A x \in d : x \in Int
    BY <1>1
  <2>2. QED
    BY <1>4, <2>1, Zenon
<1>5. ASSUME d # {}, Max(d) \in S
      PROVE  \E x \in S : x \notin T /\ \A y \in T : y \notin S => y < x
  <2>1. Max(d) \notin T /\ Max(d) \in Int
    BY <1>1, <1>4, <1>5, <1>10, Zenon
  <2>2. \A y \in T : y \notin S => y < Max(d)
    <3>1. TAKE y \in T
    <3>2. HAVE y \notin S
    <3>3. y <= Max(d) /\ y # Max(d) /\ y \in Int
      BY <1>1, <1>4, <1>5, <3>2
    <3>4. QED
      BY <2>1, <3>3
  <2>3. QED
    BY <1>5, <2>1, <2>2
<1>6. ASSUME NEW x \in S, x \notin T, \A y \in T : y \notin S => y < x
      PROVE  d # {} /\ Max(d) \in S
  <2>1. x \in d
    BY <1>1, <1>6
  <2>2. Max(d) \in d /\ x <= Max(d) /\ x \in Int /\ Max(d) \in Int
    <3>1. d # {} /\ x \in Int
      BY <1>1, <2>1
    <3>2. QED
      BY <1>4, <1>10, <2>1, <3>1, Zenon
  <2>3. ~ (Max(d) < x)
    BY <2>2
  <2>4. QED
    BY <1>1, <1>6, <2>1, <2>2, <2>3
<1>7. ComboBefore(S, T) <=> \E x \in S : x \notin T /\ \A y \in T : y \notin S => y < x
  BY <1>2, <1>5, <1>6
<1>8. S # T => ComboBefore(S, T) \/ ComboBefore(T, S)
  BY <1>1, <1>2, <1>3, <1>4
<1>9. QED
  BY <1>7, <1>8

\* The combinations are in one order.
LEMMA BeforeTransitive ==
    ASSUME NEW n \in Nat, NEW S \in SUBSET (0 .. n - 1), NEW T \in SUBSET (0 .. n - 1),
           NEW U \in SUBSET (0 .. n - 1), ComboBefore(S, T), ComboBefore(T, U)
    PROVE  ComboBefore(S, U)
<1>1. PICK x \in S : x \notin T /\ \A z \in T : z \notin S => z < x
  BY BeforeIff
<1>2. PICK y \in T : y \notin U /\ \A z \in U : z \notin T => z < y
  BY BeforeIff
<1>3. x \in Int /\ y \in Int /\ x # y /\ \A z \in U : z \in Int
  BY <1>1
<1>4. CASE y < x
  <2>1. x \notin U
    BY <1>1, <1>2, <1>3, <1>4
  <2>2. \A z \in U : z \notin S => z < x
    BY <1>1, <1>2, <1>3, <1>4
  <2>3. \E w \in S : w \notin U /\ \A z \in U : z \notin S => z < w
    BY <2>1, <2>2
  <2>4. QED
    BY <2>3, BeforeIff
<1>5. CASE x < y
  <2>1. y \in S
    BY <1>1, <1>3, <1>5
  <2>2. \A z \in U : z \notin S => z < y
    BY <1>1, <1>2, <1>3, <1>5
  <2>3. \E w \in S : w \notin U /\ \A z \in U : z \notin S => z < w
    BY <1>2, <2>1, <2>2
  <2>4. QED
    BY <2>3, BeforeIff
<1>6. QED
  BY <1>3, <1>4, <1>5

\* The combinations of k of the first b positions that come before C.
BeforeIn(C, k, b) == {D \in PositionSets(k, b) : ComboBefore(D, C)}

\* They are those with a higher top position, and those with the top position of
\* C of which the others come before.
LEMMA BeforeByTop ==
    ASSUME NEW b \in Nat, NEW k \in Nat \ {0}, NEW C \in PositionSets(k, b),
           NEW q \in C, \A p \in C : p <= q
    PROVE  LET above == PositionSets(k, b) \ PositionSets(k, q + 1)
               with == {D \cup {q} : D \in BeforeIn(C \ {q}, k - 1, q)}
           IN BeforeIn(C, k, b) = above \cup with /\ above \cap with = {}
              /\ PositionSets(k, q + 1) \in SUBSET PositionSets(k, b)
<1> DEFINE above == PositionSets(k, b) \ PositionSets(k, q + 1)
           with == {D \cup {q} : D \in BeforeIn(C \ {q}, k - 1, q)}
           E == C \ {q}
<1>1. /\ k \in Nat /\ k - 1 \in Nat
      /\ \A D : D \in PositionSets(k, b) <=> D \in SUBSET (0 .. b - 1) /\ Cardinality(D) = k
  BY PositionSetsFinite
<1>2. C \in SUBSET (0 .. b - 1) /\ q \in Nat /\ q \in 0 .. b - 1 /\ q + 1 \in Nat /\ q \in Int
      /\ (q + 1) - 1 = q
  BY <1>1
<1>3. \A D : D \in PositionSets(k, q + 1) <=> D \in SUBSET (0 .. q) /\ Cardinality(D) = k
  <2>1. \A D : D \in PositionSets(k, q + 1)
                 <=> D \in SUBSET (0 .. (q + 1) - 1) /\ Cardinality(D) = k
    BY <1>1, <1>2, PositionSetsFinite
  <2>2. QED
    BY <1>2, <2>1
<1>4. \A x \in 0 .. q : x \in 0 .. b - 1
  BY <1>2
<1>5. PositionSets(k, q + 1) \in SUBSET PositionSets(k, b)
  BY <1>1, <1>3, <1>4
<1>6. /\ {D \in PositionSets(k, q + 1) : q \in D} = {D \cup {q} : D \in PositionSets(k - 1, q)}
      /\ \A D \in PositionSets(k - 1, q) : q \notin D /\ D \in SUBSET (0 .. q - 1)
      /\ \A D \in PositionSets(k, q + 1) : q \notin D => D \in PositionSets(k, q)
  <2>1. {D \in PositionSets(k, q + 1) : q \in D} = {D \cup {q} : D \in PositionSets(k - 1, q)}
    BY <1>2, PositionSetsWithLast
  <2>2. \A D \in PositionSets(k - 1, q) : D \in SUBSET (0 .. q - 1)
    BY <1>1, <1>2, PositionSetsFinite
  <2>3. \A D \in PositionSets(k, q + 1) : q \notin D => D \in PositionSets(k, q)
    BY <1>2, PositionSetsWithLast
  <2>4. q \notin 0 .. q - 1
    BY <1>2
  <2>5. QED
    BY <2>1, <2>2, <2>3, <2>4
<1>7. E \in SUBSET (0 .. q - 1)
  BY <1>2
<1>8. \A D \in above : ComboBefore(D, C)
  <2>1. TAKE D \in above
  <2>2. D \in SUBSET (0 .. b - 1) /\ ~ (D \in SUBSET (0 .. q))
    BY <1>1, <1>3
  <2>3. PICK x \in D : x \notin 0 .. q
    BY <2>2
  <2>4. x \in Nat /\ q < x
    BY <1>2, <2>2, <2>3
  <2>5. x \notin C /\ \A y \in C : y < x
    BY <1>2, <2>4
  <2>6. \E z \in D : z \notin C /\ \A y \in C : y \notin D => y < z
    BY <2>5
  <2>7. QED
    BY <1>2, <2>2, <2>6, BeforeIff
<1>9. ASSUME NEW F \in PositionSets(k - 1, q)
      PROVE  ComboBefore(F \cup {q}, C) <=> ComboBefore(F, E)
  <2>1. F \in SUBSET (0 .. q - 1) /\ q \notin F /\ F \cup {q} \in SUBSET (0 .. b - 1)
        /\ q \notin E /\ C = E \cup {q}
    BY <1>2, <1>4, <1>6
  <2>2. ComboBefore(F \cup {q}, C) <=>
            \E x \in F \cup {q} : x \notin C /\ \A y \in C : y \notin F \cup {q} => y < x
    <3>1. PICK G : G = F \cup {q}
      OBVIOUS
    <3>2. G \in SUBSET (0 .. b - 1)
      BY <2>1, <3>1
    <3>3. ComboBefore(G, C) <=> \E x \in G : x \notin C /\ \A y \in C : y \notin G => y < x
      BY <1>2, <3>2, BeforeIff
    <3>4. QED
      BY <3>1, <3>3
  <2>3. ComboBefore(F, E) <=> \E x \in F : x \notin E /\ \A y \in E : y \notin F => y < x
    BY <1>2, <1>7, <2>1, BeforeIff
  <2> HIDE DEF E
  <2>4. QED
    BY <2>1, <2>2, <2>3
<1>10. \A D \in PositionSets(k, q) : ~ ComboBefore(D, C)
  <2>1. TAKE D \in PositionSets(k, q)
  <2>2. D \in SUBSET (0 .. q - 1)
    BY <1>1, <1>2, PositionSetsFinite
  <2>3. D \in SUBSET (0 .. b - 1) /\ q \notin D /\ \A x \in D : x \in Int /\ x < q
    BY <1>2, <2>2
  <2>4. ~ \E x \in D : x \notin C /\ \A y \in C : y \notin D => y < x
    <3>1. \A x \in D : ~ (q < x)
      BY <1>2, <2>3
    <3>2. QED
      BY <2>3, <3>1
  <2>5. QED
    BY <1>2, <2>3, <2>4, BeforeIff
<1>11. with = {D \cup {q} : D \in {F \in PositionSets(k - 1, q) : ComboBefore(F, E)}}
  BY DEF BeforeIn
<1>12. \A D \in with : D \in PositionSets(k, q + 1) /\ ComboBefore(D, C)
  <2>1. TAKE D \in with
  <2>2. PICK F \in PositionSets(k - 1, q) : ComboBefore(F, E) /\ D = F \cup {q}
    BY <1>11
  <2>3. F \cup {q} \in {G \in PositionSets(k, q + 1) : q \in G}
    <3>1. F \cup {q} \in {G \cup {q} : G \in PositionSets(k - 1, q)}
      OBVIOUS
    <3>2. QED
      BY <1>6, <3>1
  <2>4. QED
    BY <1>9, <2>2, <2>3
<1>13. \A D \in PositionSets(k, q + 1) : ComboBefore(D, C) => D \in with
  <2>1. TAKE D \in PositionSets(k, q + 1)
  <2>2. HAVE ComboBefore(D, C)
  <2>3. q \in D
    <3>1. q \notin D => D \in PositionSets(k, q)
      BY <1>6, Zenon
    <3>2. QED
      BY <1>10, <2>2, <3>1, Zenon
  <2>4. D \in {G \cup {q} : G \in PositionSets(k - 1, q)}
    BY <1>6, <2>3
  <2>5. PICK F \in PositionSets(k - 1, q) : D = F \cup {q}
    BY <2>4
  <2>6. ComboBefore(F, E)
    BY <1>9, <2>2, <2>5
  <2>7. QED
    BY <1>11, <2>5, <2>6
<1> HIDE DEF with, E
<1>14. BeforeIn(C, k, b) = above \cup with
  BY <1>5, <1>8, <1>12, <1>13 DEF BeforeIn
<1>15. above \cap with = {}
  BY <1>12
<1>16. QED
  BY <1>5, <1>14, <1>15 DEF with

-------------------------------------------------------------------------------
(* The rank of a combination *)

NextAt(C, b, q) == Min({p \in C : p > q} \cup {b})

RankAt(C, b, q) ==
    Coefficient[NextAt(C, b, q)][Level(C, q) + 1] - Coefficient[q + 1][Level(C, q) + 1]

\* The rank of a combination among those of the first b positions.
RankUpTo(C, b) == SumFunctionOnSet([q \in C |-> RankAt(C, b, q)], C)

\* The rank is a sum of integers, and the position after the last one is the bound.
LEMMA RankAtFacts ==
    ASSUME NEW b \in 0 .. NumUsed, NEW C \in SUBSET (0 .. b - 1), NEW q \in C
    PROVE  /\ NextAt(C, b, q) \in {p \in C : p > q} \cup {b}
           /\ NextAt(C, b, q) \in 0 .. b
           /\ RankAt(C, b, q) \in Int
           /\ (\A p \in C : p <= q) =>
                  /\ NextAt(C, b, q) = b
                  /\ \A p \in C \ {q} : NextAt(C, b, p) = NextAt(C \ {q}, q, p)
<1> DEFINE after(p) == {x \in C : x > p} \cup {b}
<1>1. b \in Nat /\ NumUsed \in Nat /\ \A p \in C : p \in Nat /\ p < b /\ p \in 0 .. b
  BY UsedFacts
<1>2. \A p \in C : after(p) \in SUBSET (0 .. b)
  <2>1. TAKE p \in C
  <2>2. b \in 0 .. b /\ \A x \in C : x \in 0 .. b
    BY <1>1
  <2>3. QED
    BY <2>2
<1>3. NextAt(C, b, q) \in after(q)
  <2>1. \E x \in after(q) : \A y \in after(q) : x <= y
    <3>1. after(q) \in SUBSET Nat /\ after(q) # {}
      BY <1>1, <1>2
    <3> HIDE DEF after
    <3>2. QED
      BY <3>1, Smallest
  <2>2. QED
    BY <2>1 DEF NextAt, Min
<1>4. NextAt(C, b, q) \in 0 .. b
  BY <1>2, <1>3
<1>5. RankAt(C, b, q) \in Int
  <2>1. NextAt(C, b, q) \in 0 .. NumUsed /\ q + 1 \in 0 .. NumUsed
    BY <1>1, <1>4
  <2>2. Level(C, q) \in 0 .. Cardinality(C) - 1 /\ Cardinality(C) \in Nat /\ Level(C, q) <= q
    BY <1>1, Levels, PositionsFinite
  <2>3. Level(C, q) + 1 \in 0 .. NumUsed
    BY <1>1, <2>2
  <2>4. QED
    BY <2>1, <2>3, Pascal DEF RankAt
<1>6. ASSUME \A p \in C : p <= q
      PROVE  /\ NextAt(C, b, q) = b
             /\ \A p \in C \ {q} : NextAt(C, b, p) = NextAt(C \ {q}, q, p)
  <2>1. NextAt(C, b, q) = b
    <3>1. after(q) = {b}
      <4>1. \A x \in C : ~ (x > q)
        BY <1>1, <1>6
      <4>2. QED
        BY <4>1
    <3>2. QED
      BY <1>3, <3>1
  <2>2. ASSUME NEW p \in C \ {q}
        PROVE  NextAt(C, b, p) = NextAt(C \ {q}, q, p)
    <3> DEFINE S == {x \in C \ {q} : x > p} \cup {q}
               T == after(p)
    <3>1. S \in SUBSET Nat /\ q \in S
      BY <1>1
    <3>2. PICK x \in S : \A y \in S : x <= y
      <4> HIDE DEF S
      <4>1. QED
        BY <3>1, Smallest
    <3>3. q > p /\ T = S \cup {b} /\ S \in SUBSET (0 .. b) /\ x \in S /\ x \in T
      <4>1. q > p
        BY <1>1, <1>6
      <4>2. T = S \cup {b}
        BY <4>1
      <4>3. S \in SUBSET (0 .. b)
        BY <1>1
      <4>4. QED
        BY <4>1, <4>2, <4>3
    <3>4. \A y \in T : x <= y
      <4>1. x <= q /\ q < b /\ x \in Int /\ q \in Int /\ b \in Int
        BY <1>1, <3>2, <3>3
      <4>2. QED
        BY <3>2, <3>3, <4>1
    <3>5. T \in SUBSET (0 .. b)
      BY <1>2
    <3> HIDE DEF S, T
    <3>6. Min(S) = x /\ Min(T) = x
      BY <1>1, <3>2, <3>3, <3>4, <3>5, MinIs
    <3>7. QED
      BY <3>6 DEF NextAt, S, T
  <2>3. QED
    BY <2>1, <2>2
<1>7. QED
  BY <1>3, <1>4, <1>5, <1>6

\* The rank, by the top position and the rank of the others.
LEMMA RankFromTop ==
    ASSUME NEW b \in 0 .. NumUsed, NEW C \in SUBSET (0 .. b - 1),
           NEW q \in C, \A p \in C : p <= q
    PROVE  LET k == Cardinality(C)
           IN /\ RankUpTo(C, b) = RankUpTo(C \ {q}, q) + (Coefficient[b][k] - Coefficient[q + 1][k])
              /\ C \ {q} \in SUBSET (0 .. q - 1) /\ k \in 1 .. NumUsed
              /\ q \in 0 .. NumUsed /\ q + 1 \in 0 .. NumUsed
<1> DEFINE D == C \ {q}
           k == Cardinality(C)
           f == [p \in C |-> RankAt(C, b, p)]
           g == [p \in D |-> RankAt(D, q, p)]
<1>1. b \in Nat /\ NumUsed \in Nat /\ q \in 0 .. b - 1
  BY UsedFacts
<1>2. q \in 0 .. NumUsed /\ q + 1 \in 0 .. NumUsed /\ D \in SUBSET (0 .. q - 1)
  BY <1>1
<1>3. IsFiniteSet(C) /\ k \in Nat /\ k # 0
  BY <1>1, PositionsFinite
<1>4. Level(C, q) = k - 1 /\ Level(C, q) <= q /\ \A p \in D : Level(D, p) = Level(C, p)
  BY <1>1, Levels
<1>5. NextAt(C, b, q) = b /\ \A p \in D : NextAt(C, b, p) = NextAt(D, q, p)
  BY RankAtFacts
<1>6. \A p \in D : g[p] = f[p]
  BY <1>4, <1>5 DEF RankAt
<1>7. \A p \in C : f[p] \in Int
  BY RankAtFacts
<1>8. f[q] = Coefficient[b][k] - Coefficient[q + 1][k]
  BY <1>3, <1>4, <1>5 DEF RankAt
<1>9. /\ SumFunctionOnSet(f, C) = f[q] + SumFunctionOnSet(g, D)
      /\ SumFunctionOnSet(f, C) \in Int /\ SumFunctionOnSet(g, D) \in Int
  <2>1. IsFiniteSet(C) /\ (\A p \in C : f[p] \in Int) /\ (\A p \in D : g[p] = f[p])
    BY <1>3, <1>6, <1>7
  <2> HIDE DEF f, g
  <2>2. QED
    BY <2>1, SumSplit
<1>10. f[q] \in Int
  BY <1>7
<1>11. RankUpTo(C, b) = SumFunctionOnSet(f, C) /\ RankUpTo(D, q) = SumFunctionOnSet(g, D)
  BY DEF RankUpTo
<1>12. k \in 1 .. NumUsed
  BY <1>1, <1>2, <1>3, <1>4
<1> HIDE DEF f, g, D
<1>13. RankUpTo(C, b) = RankUpTo(D, q) + f[q]
  BY <1>9, <1>10, <1>11
<1>14. QED
  BY <1>2, <1>8, <1>12, <1>13 DEF D

\* The rank is the number of combinations that come before.
LEMMA RankCounts ==
    \A k \in 0 .. NumUsed : \A b \in 0 .. NumUsed : \A C \in PositionSets(k, b) :
        RankUpTo(C, b) = Cardinality(BeforeIn(C, k, b))
<1> DEFINE Good(k) == \A b \in 0 .. NumUsed : \A C \in PositionSets(k, b) :
                          RankUpTo(C, b) = Cardinality(BeforeIn(C, k, b))
           T == {k \in 0 .. NumUsed : Good(k)}
<1>1. NumUsed \in Nat
  BY UsedFacts
<1>2. 0 \in T
  <2>1. SUFFICES ASSUME NEW b \in 0 .. NumUsed, NEW C \in PositionSets(0, b)
                 PROVE  RankUpTo(C, b) = Cardinality(BeforeIn(C, 0, b))
    BY <1>1
  <2>2. b \in Nat /\ 0 \in Nat
    BY <1>1
  <2>3. \A D \in PositionSets(0, b) : D = {}
    <3>1. TAKE D \in PositionSets(0, b)
    <3>2. D \in SUBSET (0 .. b - 1) /\ Cardinality(D) = 0
      BY <2>2, PositionSetsFinite
    <3>3. QED
      BY <2>2, <3>2, PositionsFinite
  <2>4. C = {}
    BY <2>3
  <2>5. RankUpTo(C, b) = 0
    BY <2>4, FS_EmptySet, SumByFirst DEF RankUpTo
  <2>6. \A D \in PositionSets(0, b) : ~ ComboBefore(D, C)
    <3>1. SymDiff({}, {}) = {}
      BY DEF SymDiff
    <3>2. QED
      BY <2>3, <2>4, <3>1 DEF ComboBefore
  <2>7. BeforeIn(C, 0, b) = {}
    BY <2>6 DEF BeforeIn
  <2>8. QED
    BY <2>5, <2>7, FS_EmptySet
<1>3. \A k \in 0 .. NumUsed : k # 0 /\ k - 1 \in T => k \in T
  <2>1. SUFFICES ASSUME NEW k \in 0 .. NumUsed, k # 0, Good(k - 1), NEW b \in 0 .. NumUsed,
                        NEW C \in PositionSets(k, b)
                 PROVE  RankUpTo(C, b) = Cardinality(BeforeIn(C, k, b))
    OBVIOUS
  <2>2. b \in Nat /\ k \in Nat \ {0} /\ k \in Nat /\ k - 1 \in Nat
    BY <1>1, <2>1
  <2>3. C \in SUBSET (0 .. b - 1) /\ Cardinality(C) = k
    BY <2>2, PositionSetsFinite
  <2>4. PICK q \in C : \A p \in C : p <= q
    <3>1. C # {}
      BY <2>1, <2>2, <2>3, PositionsFinite
    <3>2. QED
      BY <2>2, <2>3, <3>1, Extremes
  <2> DEFINE D == C \ {q}
             above == PositionSets(k, b) \ PositionSets(k, q + 1)
             with == {F \cup {q} : F \in BeforeIn(D, k - 1, q)}
  <2>5. /\ RankUpTo(C, b) = RankUpTo(D, q) + (Coefficient[b][k] - Coefficient[q + 1][k])
        /\ D \in SUBSET (0 .. q - 1) /\ q \in 0 .. NumUsed /\ q + 1 \in 0 .. NumUsed
    BY <2>3, <2>4, RankFromTop
  <2>6. q \in Nat /\ q + 1 \in Nat
    BY <1>1, <2>5
  <2>7. D \in PositionSets(k - 1, q)
    <3>1. Cardinality(D) = k - 1
      BY <2>2, <2>3, PositionsFinite
    <3>2. QED
      BY <2>2, <2>5, <2>6, <3>1, PositionSetsFinite
  <2>8. RankUpTo(D, q) = Cardinality(BeforeIn(D, k - 1, q))
    BY <2>1, <2>5, <2>7
  <2>9. /\ BeforeIn(C, k, b) = above \cup with /\ above \cap with = {}
        /\ PositionSets(k, q + 1) \in SUBSET PositionSets(k, b)
    BY <2>2, <2>4, BeforeByTop
  <2>10. /\ IsFiniteSet(PositionSets(k, b)) /\ IsFiniteSet(PositionSets(k, q + 1))
         /\ IsFiniteSet(PositionSets(k - 1, q))
    BY <2>2, <2>6, PositionSetsFinite
  <2>11. /\ IsFiniteSet(BeforeIn(D, k - 1, q)) /\ \A F \in BeforeIn(D, k - 1, q) : q \notin F
         /\ Cardinality(BeforeIn(D, k - 1, q)) \in Nat
    <3>1. BeforeIn(D, k - 1, q) \in SUBSET PositionSets(k - 1, q)
      BY DEF BeforeIn
    <3>2. IsFiniteSet(BeforeIn(D, k - 1, q))
      BY <2>10, <3>1, FS_Subset
    <3>3. \A F \in PositionSets(k - 1, q) : F \in SUBSET (0 .. q - 1)
      BY <2>2, <2>6, PositionSetsFinite
    <3>4. q \notin 0 .. q - 1
      BY <2>6
    <3>5. Cardinality(BeforeIn(D, k - 1, q)) \in Nat
      BY <3>2, FS_CardinalityType
    <3>6. QED
      BY <3>1, <3>2, <3>3, <3>4, <3>5
  <2>12. IsFiniteSet(with) /\ Cardinality(with) = Cardinality(BeforeIn(D, k - 1, q))
    <3> DEFINE S == BeforeIn(D, k - 1, q)
               f == [F \in S |-> F \cup {q}]
    <3>1. \A F \in S : f[F] = F \cup {q} /\ q \notin F
      BY <2>11
    <3>2. with = {f[F] : F \in S}
      BY <3>1
    <3>3. DOMAIN f = S /\ IsFiniteSet(S)
      BY <2>11
    <3> HIDE DEF f, S
    <3>4. \A F, G \in S : f[F] = f[G] => F = G
      <4>1. \A X, Y, a : a \notin X /\ a \notin Y /\ X \cup {a} = Y \cup {a} => X = Y
        OBVIOUS
      <4>2. QED
        BY <3>1, <4>1
    <3>5. IsFiniteSet({f[F] : F \in S}) /\ Cardinality({f[F] : F \in S}) = Cardinality(S)
      BY <3>3, <3>4, SameCount
    <3>6. QED
      BY <3>2, <3>5 DEF S
  <2>13. IsFiniteSet(above) /\ Cardinality(above) = Coefficient[b][k] - Coefficient[q + 1][k]
    <3>1. IsFiniteSet(above)
          /\ Cardinality(above) = Cardinality(PositionSets(k, b))
                - Cardinality(PositionSets(k, b) \cap PositionSets(k, q + 1))
      BY <2>10, FS_Difference
    <3>2. PositionSets(k, b) \cap PositionSets(k, q + 1) = PositionSets(k, q + 1)
      BY <2>9
    <3>3. QED
      BY <2>5, <3>1, <3>2, PositionSetsCount
  <2>14. Cardinality(BeforeIn(C, k, b)) = Cardinality(above) + Cardinality(with)
    <3> HIDE DEF above, with
    <3>1. QED
      BY <2>9, <2>12, <2>13, DisjointUnion
  <2>15. Coefficient[b][k] \in Int /\ Coefficient[q + 1][k] \in Int
    BY <2>5, Pascal
  <2>16. QED
    BY <2>5, <2>8, <2>11, <2>12, <2>13, <2>14, <2>15
<1>4. T \in SUBSET (0 .. NumUsed)
  OBVIOUS
<1> HIDE DEF T
<1>5. T = 0 .. NumUsed
  BY <1>1, <1>2, <1>3, <1>4, Induction
<1>6. QED
  BY <1>5 DEF T

\* The rank computed from binomial coefficients is the place of the combination in the
\* enumeration of the map, and no two combinations have the same
\* (coverage_map.cpp:110-131): a tuple is counted to its own combination.
THEOREM RankIsPlace ==
    ASSUME NEW map, IsMap(map), NEW C \in Combinations(map)
    PROVE  /\ Rank(map, C) = Cardinality({D \in Combinations(map) : ComboBefore(D, C)})
           /\ Rank(map, C) \in 0 .. Cardinality(Combinations(map)) - 1
           /\ \A D \in Combinations(map) : Rank(map, D) = Rank(map, C) => D = C
<1> DEFINE s == NumEarlier(map)
           m == LastPosition(map)
           before(D) == {F \in Combinations(map) : ComboBefore(F, D)}
<1>1. /\ s \in 0 .. NumUsed /\ m \in 0 .. NumUsed /\ s \in Nat /\ m \in Nat
      /\ Combinations(map) = PositionSets(s, m)
  BY UsedFacts, MapFacts DEF Combinations, PositionSets
<1>2. ASSUME NEW D \in Combinations(map)
      PROVE  Rank(map, D) = Cardinality(before(D))
  <2>1. D \in SUBSET (0 .. m - 1)
    BY CombinationFacts
  <2>2. \A q \in D : RankTerm(map, D, q, Level(D, q)) = RankAt(D, m, q)
    <3>1. TAKE q \in D
    <3>2. NextAt(D, m, q) \in 0 .. m
      <4> HIDE DEF m
      <4>1. QED
        BY <1>1, <2>1, RankAtFacts
    <3>3. Top(map, D, q) = NextAt(D, m, q) - 1
      BY DEF Top, NextAt
    <3>4. Top(map, D, q) + 1 = NextAt(D, m, q)
      BY <1>1, <3>2, <3>3
    <3>5. QED
      BY <3>4 DEF RankTerm, RankAt
  <2>3. Rank(map, D) = RankUpTo(D, m)
    <3>1. [q \in D |-> RankTerm(map, D, q, Level(D, q))] = [q \in D |-> RankAt(D, m, q)]
      BY <2>2
    <3>2. Rank(map, D) = SumFunction([q \in D |-> RankAt(D, m, q)])
      BY <3>1 DEF Rank
    <3>3. QED
      BY <3>2 DEF SumFunction, RankUpTo
  <2>4. D \in PositionSets(s, m)
    BY <1>1
  <2>5. RankUpTo(D, m) = Cardinality(BeforeIn(D, s, m))
    <3> HIDE DEF s, m
    <3>1. QED
      BY <1>1, <2>4, RankCounts
  <2>6. BeforeIn(D, s, m) = before(D)
    BY <1>1 DEF BeforeIn
  <2>7. QED
    BY <2>3, <2>5, <2>6
<1>3. IsFiniteSet(Combinations(map)) /\ \A D \in Combinations(map) : D \in SUBSET (0 .. m - 1)
  <2> HIDE DEF s, m
  <2>1. QED
    BY <1>1, PositionSetsFinite
<1>4. \A D \in Combinations(map) : ~ ComboBefore(D, D)
  <2>1. \A D : SymDiff(D, D) = {}
    BY DEF SymDiff
  <2>2. QED
    BY <2>1 DEF ComboBefore
<1>5. ASSUME NEW S \in SUBSET Combinations(map), NEW U \in SUBSET S, NEW D \in S, D \notin U
      PROVE  /\ Cardinality(U) < Cardinality(S) /\ Cardinality(U) \in Nat
             /\ Cardinality(S) \in Nat
  <2>1. IsFiniteSet(S)
    BY <1>3, FS_Subset
  <2>2. /\ IsFiniteSet(U) /\ Cardinality(U) <= Cardinality(S)
        /\ Cardinality(U) = Cardinality(S) => U = S
    BY <2>1, FS_Subset
  <2>3. Cardinality(U) \in Nat /\ Cardinality(S) \in Nat
    BY <2>1, <2>2, FS_CardinalityType
  <2>4. U # S
    BY <1>5
  <2>5. QED
    BY <2>2, <2>3, <2>4
<1>6. Rank(map, C) \in 0 .. Cardinality(Combinations(map)) - 1
  <2>1. before(C) \in SUBSET Combinations(map) /\ C \notin before(C)
    BY <1>4
  <2> HIDE DEF before
  <2>2. /\ Cardinality(before(C)) < Cardinality(Combinations(map))
        /\ Cardinality(before(C)) \in Nat /\ Cardinality(Combinations(map)) \in Nat
    BY <1>5, <2>1
  <2>3. Rank(map, C) = Cardinality(before(C))
    BY <1>2
  <2>4. QED
    BY <2>2, <2>3
<1>7. ASSUME NEW D \in Combinations(map), NEW F \in Combinations(map), ComboBefore(D, F)
      PROVE  Rank(map, D) # Rank(map, F)
  <2>1. before(D) \in SUBSET before(F)
    <3>1. ASSUME NEW G \in Combinations(map), ComboBefore(G, D) PROVE ComboBefore(G, F)
      <4> HIDE DEF m
      <4>1. QED
        BY <1>1, <1>3, <1>7, <3>1, BeforeTransitive
    <3>2. QED
      BY <3>1
  <2>2. D \in before(F) /\ D \notin before(D) /\ before(F) \in SUBSET Combinations(map)
    BY <1>4, <1>7
  <2> HIDE DEF before
  <2>3. /\ Cardinality(before(D)) < Cardinality(before(F))
        /\ Cardinality(before(D)) \in Nat /\ Cardinality(before(F)) \in Nat
    BY <1>5, <2>1, <2>2
  <2>4. QED
    BY <1>2, <2>3
<1>8. ASSUME NEW D \in Combinations(map), Rank(map, D) = Rank(map, C)
      PROVE  D = C
  <2>1. D # C => ComboBefore(D, C) \/ ComboBefore(C, D)
    <3> HIDE DEF m
    <3>1. QED
      BY <1>1, <1>3, BeforeIff
  <2>2. QED
    BY <1>7, <1>8, <2>1
<1>9. QED
  BY <1>2, <1>6, <1>8

-------------------------------------------------------------------------------
(* Slots *)

\* Two ways to split a number into words and bits are the same.
LEMMA WordAndBit ==
    ASSUME NEW pos \in Nat
    PROVE  /\ pos \div WordBits \in Nat /\ pos % WordBits \in 0 .. WordBits - 1
           /\ pos = (pos \div WordBits) * WordBits + (pos % WordBits)
           /\ \A w \in Nat : \A b \in 0 .. WordBits - 1 :
                  pos = w * WordBits + b => pos \div WordBits = w /\ pos % WordBits = b
<1>1. WordBits \in Nat /\ WordBits > 0
  BY WordAssumption
<1>2. /\ pos \div WordBits \in Nat /\ pos % WordBits \in 0 .. WordBits - 1
      /\ pos = (pos \div WordBits) * WordBits + (pos % WordBits)
  BY Position
<1>3. ASSUME NEW w \in Nat, NEW b \in 0 .. WordBits - 1, pos = w * WordBits + b
      PROVE  pos \div WordBits = w /\ pos % WordBits = b
  <2>1. PICK v \in Nat : v = pos \div WordBits
    BY <1>2
  <2>2. PICK r \in 0 .. WordBits - 1 : r = pos % WordBits
    BY <1>2
  <2>3. /\ r \in Nat /\ b \in Nat /\ r < WordBits /\ b < WordBits
        /\ v * WordBits + r = w * WordBits + b
    BY <1>1, <1>2, <1>3, <2>1, <2>2
  <2>4. v = w /\ r = b
    BY <1>1, <2>3, Digits
  <2>5. QED
    BY <2>1, <2>2, <2>4
<1>4. QED
  BY <1>2, <1>3

\* The slots of a position are a range of their own.
LEMMA SlotRanges ==
    ASSUME NEW E, NEW d, NEW s, NEW m, IsTable(E, d, s, m), s >= 1
    PROVE  /\ \A j \in 0 .. m : E[1][j] \in Nat /\ E[0][j] = 1
           /\ \A q \in 0 .. m - 1 : d[q] \in Nat \ {0} /\ E[1][q + 1] = E[1][q] + d[q]
           /\ \A i, j \in 0 .. m : E[1][i] < E[1][j] <=> i < j
<1>1. /\ s \in Nat /\ m \in Nat /\ 1 \in 1 .. s /\ 1 \in 0 .. s /\ 1 - 1 = 0
      /\ d \in [0 .. m - 1 -> Nat \ {0}] /\ E \in [0 .. s -> [0 .. m -> Nat]]
      /\ \A j \in 0 .. m : E[0][j] = 1
      /\ \A q \in 0 .. m - 1 : E[1][q + 1] = E[1][q] + d[q] * E[1 - 1][q]
  BY DEF IsTable
<1>2. \A j \in 0 .. m : E[1][j] \in Nat /\ E[0][j] = 1
  BY <1>1
<1>3. \A q \in 0 .. m - 1 : d[q] \in Nat \ {0} /\ E[1][q + 1] = E[1][q] + d[q]
  <2>1. TAKE q \in 0 .. m - 1
  <2>2. q \in 0 .. m /\ d[q] \in Nat \ {0}
    BY <1>1
  <2>3. E[1 - 1][q] = 1
    BY <1>1, <2>2
  <2>4. E[1][q + 1] = E[1][q] + d[q] * E[1 - 1][q]
    BY <1>1, Zenon
  <2>5. E[1][q + 1] = E[1][q] + d[q] * 1
    BY <2>3, <2>4, Zenon
  <2>6. E[1][q] \in Nat
    BY <1>2, <2>2
  <2>7. QED
    BY <2>2, <2>5, <2>6
<1>4. \A i, j \in 0 .. m : i <= j => E[1][i] <= E[1][j]
  BY <1>1, TableMonotone
<1>5. ASSUME NEW i \in 0 .. m, NEW j \in 0 .. m, i < j
      PROVE  E[1][i] < E[1][j]
  <2>1. i \in 0 .. m - 1 /\ i + 1 \in 0 .. m /\ i + 1 <= j
    BY <1>1, <1>5
  <2>2. E[1][i + 1] <= E[1][j] /\ E[1][i] < E[1][i + 1]
    BY <1>2, <1>3, <1>4, <2>1
  <2>3. QED
    BY <1>2, <2>1, <2>2
<1>6. ASSUME NEW i \in 0 .. m, NEW j \in 0 .. m, ~ (i < j)
      PROVE  ~ (E[1][i] < E[1][j])
  <2>1. j <= i
    BY <1>6
  <2>2. E[1][j] <= E[1][i] /\ E[1][j] \in Nat /\ E[1][i] \in Nat
    BY <1>2, <1>4, <2>1
  <2>3. QED
    BY <2>2
<1>7. QED
  BY <1>2, <1>3, <1>5, <1>6

\* The position of a slot is the one whose value has it.
LEMMA SlotIs ==
    ASSUME NEW map, IsMap(map), NumEarlier(map) >= 1, NEW q \in Earlier(map),
           NEW v \in 0 .. Sizes(map)[q] - 1
    PROVE  /\ SlotPosition(map, map.E[1][q] + v) = q
           /\ map.E[1][q] + v \in Nat
           /\ \A j \in 0 .. LastPosition(map) : map.E[1][q] + v < map.E[1][j] <=> q < j
<1> DEFINE m == LastPosition(map)
           d == Sizes(map)
           E == map.E
           slot == E[1][q] + v
<1>1. /\ \A j \in 0 .. m : E[1][j] \in Nat
      /\ \A p \in 0 .. m - 1 : d[p] \in Nat \ {0} /\ E[1][p + 1] = E[1][p] + d[p]
      /\ \A i, j \in 0 .. m : E[1][i] < E[1][j] <=> i < j
  BY Layout, SlotRanges
<1>2. m \in Nat /\ Earlier(map) = 0 .. m - 1
  BY MapFacts
<1>3. q \in 0 .. m - 1 /\ q \in 0 .. m /\ q + 1 \in 0 .. m
  BY <1>2
<1> HIDE DEF m, d
<1>4. slot \in E[1][q] .. E[1][q + 1] - 1 /\ slot \in Nat
  BY <1>1, <1>3 DEF d
<1>5. ASSUME NEW j \in 0 .. m
      PROVE  slot < E[1][j] <=> q < j
  <2>1. CASE q < j
    <3>1. q + 1 <= j
      BY <1>2, <1>3, <2>1
    <3>2. E[1][q + 1] <= E[1][j]
      <4>1. ~ (j < q + 1)
        BY <1>2, <1>3, <3>1
      <4>2. E[1][q + 1] \in Nat /\ E[1][j] \in Nat /\ ~ (E[1][j] < E[1][q + 1])
        BY <1>1, <1>3, <4>1
      <4>3. QED
        BY <4>2
    <3>3. E[1][j] \in Nat /\ E[1][q + 1] \in Nat /\ E[1][q] \in Nat
      BY <1>1, <1>3
    <3> HIDE DEF slot
    <3>4. QED
      BY <1>4, <2>1, <3>2, <3>3
  <2>2. CASE ~ (q < j)
    <3>1. E[1][j] \in Nat /\ E[1][q] \in Nat /\ E[1][q + 1] \in Nat /\ ~ (E[1][q] < E[1][j])
      BY <1>1, <1>3, <2>2
    <3> HIDE DEF slot
    <3>2. QED
      BY <1>4, <2>2, <3>1
  <2>3. QED
    BY <2>1, <2>2
<1>6. ASSUME NEW p \in Earlier(map), slot \in E[1][p] .. E[1][p + 1] - 1
      PROVE  p = q
  <2>1. p \in 0 .. m /\ p + 1 \in 0 .. m /\ p \in Int
    BY <1>2
  <2>2. E[1][p] \in Nat /\ E[1][p + 1] \in Nat
    BY <1>1, <2>1
  <2>3. slot < E[1][p + 1] /\ ~ (slot < E[1][p])
    <3> HIDE DEF slot
    <3>1. QED
      BY <1>4, <1>6, <2>2
  <2>4. q < p + 1 /\ ~ (q < p)
    BY <1>5, <2>1, <2>3
  <2>5. QED
    BY <1>3, <2>1, <2>4
<1>7. SlotPosition(map, slot) = q
  BY <1>4, <1>6 DEF SlotPosition
<1>8. QED
  BY <1>4, <1>5, <1>7 DEF m

-------------------------------------------------------------------------------
(* Rows of combinations *)

\* The combinations of positions where a test has values.
Reached(map, test) == {C \in Combinations(map) : C \subseteq Assigned(map, test)}

TestValues(map, test) == [q \in Earlier(map) |-> test[Param(map, q)]]

\* A position where a test has a value.
LEMMA AssignedFacts ==
    ASSUME NEW map, IsMap(map), NEW test \in PartialTests, NEW q \in Assigned(map, test)
    PROVE  /\ q \in Earlier(map) /\ q \in 0 .. LastPosition(map) - 1
           /\ test[Param(map, q)] \in Dom(Param(map, q))
           /\ TestValues(map, test)[q] = test[Param(map, q)]
           /\ TestValues(map, test)[q] \in 0 .. Sizes(map)[q] - 1
<1>1. q \in Earlier(map) /\ test[Param(map, q)] # DontCare
  BY DEF Assigned
<1>2. q \in 0 .. LastPosition(map) - 1 /\ q \in 0 .. LastPosition(map)
  BY <1>1, MapFacts
<1>3. Param(map, q) \in Params
  BY <1>2, MapFacts
<1>4. test[Param(map, q)] \in Dom(Param(map, q))
  BY <1>1, <1>3 DEF PartialTests
<1>5. QED
  BY <1>1, <1>2, <1>4 DEF TestValues, Sizes, Dom

\* One position can be chosen in as many ways as there are positions.
LEMMA OneOf ==
    ASSUME NumUsed >= 1
    PROVE  \A n \in 0 .. NumUsed : Coefficient[n][1] = n
<1> DEFINE T == {n \in 0 .. NumUsed : Coefficient[n][1] = n}
<1>1. NumUsed \in Nat /\ 1 \in 1 .. NumUsed /\ 1 - 1 = 0
  BY UsedFacts
<1>2. 0 \in T
  BY <1>1, Pascal
<1>3. \A n \in 0 .. NumUsed : n # 0 /\ n - 1 \in T => n \in T
  <2>1. SUFFICES ASSUME NEW n \in 0 .. NumUsed, n # 0, n - 1 \in T PROVE Coefficient[n][1] = n
    OBVIOUS
  <2>2. n \in 1 .. NumUsed /\ n - 1 \in 0 .. NumUsed
    BY <1>1, <2>1
  <2>3. Coefficient[n][1] = Coefficient[n - 1][1 - 1] + Coefficient[n - 1][1]
    BY <1>1, <2>2, Pascal
  <2>4. Coefficient[n - 1][1 - 1] = 1
    BY <1>1, <2>2, Pascal
  <2>5. QED
    BY <2>1, <2>2, <2>3, <2>4
<1>4. T \in SUBSET (0 .. NumUsed)
  OBVIOUS
<1> HIDE DEF T
<1>5. T = 0 .. NumUsed
  BY <1>1, <1>2, <1>3, <1>4, Induction
<1>6. QED
  BY <1>5 DEF T

\* A combination is its lowest position and those above.
IsBottom(map, C, q) ==
    LET R == C \ {q}
        M == Min(R \cup {LastPosition(map)})
    IN /\ q = Min(C) /\ \A p \in C : q <= p
       /\ q \in C /\ q \in Earlier(map) /\ q \in 0 .. LastPosition(map) - 1
       /\ R \in SUBSET Earlier(map) /\ IsFiniteSet(R) /\ Cardinality(R) = NumEarlier(map) - 1
       /\ Level(C, q) = 0
       /\ \A p \in R : q < p /\ Level(C, p) = Level(R, p) + 1 /\ Level(R, p) + 1 <= p
       /\ M \in 0 .. LastPosition(map) /\ q < M

\* The lowest position of a combination is the slot in the row of its others.
LEMMA BottomOf ==
    ASSUME NEW map, IsMap(map), NumEarlier(map) >= 1, NEW C \in Combinations(map)
    PROVE  IsBottom(map, C, Min(C))
<1> DEFINE m == LastPosition(map)
           q == Min(C)
           R == C \ {q}
           M == Min(R \cup {m})
<1>1. /\ m \in Nat /\ Earlier(map) = 0 .. m - 1 /\ NumEarlier(map) \in Nat
      /\ C \in SUBSET (0 .. m - 1) /\ Cardinality(C) = NumEarlier(map) /\ IsFiniteSet(C)
  BY CombinationFacts, MapFacts
<1> HIDE DEF m
<1>2. C # {}
  BY <1>1, PositionsFinite
<1>3. q \in C /\ \A p \in C : q <= p
  BY <1>1, <1>2, Extremes
<1> HIDE DEF q
<1>4. q \in 0 .. m - 1 /\ R \in SUBSET (0 .. m - 1)
  BY <1>1, <1>3
<1>5. IsFiniteSet(R) /\ Cardinality(R) = NumEarlier(map) - 1
  BY <1>1, <1>3, FS_RemoveElement
<1>6. Level(C, q) = 0 /\ \A p \in R : Level(C, p) = Level(R, p) + 1
  <2>1. C \in SUBSET Nat
    BY <1>1
  <2>2. QED
    BY <1>1, <1>3, <2>1, LevelsFromBottom
<1>7. \A p \in C : Level(C, p) <= p
  BY <1>1, Levels
<1>8. \A p \in R : q < p /\ Level(R, p) + 1 <= p
  <2>1. TAKE p \in R
  <2>2. q <= p /\ q # p /\ q \in Int /\ p \in Int
    BY <1>1, <1>3
  <2>3. Level(R, p) + 1 <= p
    BY <1>6, <1>7
  <2>4. QED
    BY <2>2, <2>3
<1>9. M \in R \cup {m} /\ M \in 0 .. m
  <2> DEFINE S == R \cup {m}
  <2>1. S \in SUBSET (0 .. m) /\ S \in SUBSET Nat /\ S # {}
    BY <1>1, <1>4
  <2> HIDE DEF S
  <2>2. \E x \in S : \A y \in S : x <= y
    BY <2>1, Smallest
  <2>3. Min(S) \in S
    BY <2>2 DEF Min
  <2>4. QED
    BY <2>1, <2>3 DEF S
<1>10. q < M
  BY <1>1, <1>4, <1>8, <1>9
<1>11. QED
  BY <1>1, <1>3, <1>4, <1>5, <1>6, <1>8, <1>9, <1>10 DEF IsBottom, m, q

\* The terms of the rank of a combination.
LEMMA RankTermIs ==
    ASSUME NEW map, IsMap(map), NEW C \in Combinations(map), NEW q \in C
    PROVE  /\ RankTerm(map, C, q, Level(C, q)) = RankAt(C, LastPosition(map), q)
           /\ RankAt(C, LastPosition(map), q) \in Int
           /\ Top(map, C, q) + 1 = NextAt(C, LastPosition(map), q)
<1> DEFINE m == LastPosition(map)
<1>1. m \in Nat /\ m \in 0 .. NumUsed /\ C \in SUBSET (0 .. m - 1)
  BY UsedFacts, CombinationFacts, MapFacts
<1>2. NextAt(C, m, q) \in 0 .. m /\ RankAt(C, m, q) \in Int
  <2> HIDE DEF m
  <2>1. QED
    BY <1>1, RankAtFacts
<1>3. Top(map, C, q) = NextAt(C, m, q) - 1
  BY DEF Top, NextAt
<1>4. Top(map, C, q) + 1 = NextAt(C, m, q)
  BY <1>1, <1>2, <1>3
<1>5. QED
  BY <1>2, <1>4 DEF RankTerm, RankAt

\* A row word's bit is the place of the tuple, up to the value of the last parameter, and
\* the row's number, less the position, is the place of the combination.
LEMMA RowOfCombo ==
    ASSUME NEW map, IsMap(map), NumEarlier(map) >= 1, NEW test \in PartialTests,
           NEW C \in Reached(map, test)
    PROVE  LET q == Min(C)
               row == Row(map, test, C \ {q})
           IN /\ row.base + (map.E[1][q] + test[Param(map, q)])
                     = Index(map.E, TestValues(map, test), C)
              /\ row.rank - q = Rank(map, C)
              /\ row.base \in Int /\ row.rank \in Int
<1> DEFINE m == LastPosition(map)
           s == NumEarlier(map)
           E == map.E
           x == TestValues(map, test)
           q == Min(C)
           R == C \ {q}
           M == Min(R \cup {m})
           row == Row(map, test, R)
<1>1. C \in Combinations(map) /\ C \in SUBSET Assigned(map, test)
  BY DEF Reached
<1>2. /\ C \in SUBSET (0 .. m - 1) /\ Cardinality(C) = s /\ IsFiniteSet(C)
      /\ m \in Nat /\ m \in 0 .. NumUsed /\ s \in Nat /\ NumUsed \in Nat /\ NumUsed >= 1
  BY <1>1, CombinationFacts, MapFacts, UsedFacts
<1>3. /\ q \in C /\ (\A p \in C : q <= p) /\ q \in 0 .. m - 1 /\ Level(C, q) = 0
      /\ \A p \in R : q < p /\ Level(C, p) = Level(R, p) + 1
      /\ M \in 0 .. m /\ q < M
  BY <1>1, BottomOf DEF IsBottom
<1>4. HasValues(x, Sizes(map), C) /\ \A p \in C : x[p] = test[Param(map, p)]
  BY <1>1, AssignedFacts DEF HasValues
<1>5. IsTable(E, Sizes(map), s, m)
  BY Layout
<1> HIDE DEF m, s, E, x, q, M
<1>6. \A p \in C : IndexTerm(E, x, C, p) \in Int
  <2>1. Cardinality(C) <= s
    BY <1>2
  <2>2. \A p \in C : IndexTerm(E, x, C, p) \in Nat
    BY <1>2, <1>4, <1>5, <2>1, IndexTermType
  <2>3. QED
    BY <2>2
<1> DEFINE f == [p \in C |-> IndexTerm(E, x, C, p)]
           g == [p \in R |-> LET l == Level(R, p) + 1
                             IN E[l + 1][p] + test[Param(map, p)] * E[l][p]]
           F == [p \in C |-> RankAt(C, m, p)]
           G == [p \in R |-> RankTerm(map, R, p, Level(R, p) + 1)]
<1>7. \A p \in R : g[p] = f[p]
  BY <1>3, <1>4 DEF IndexTerm
<1>8. f[q] = E[1][q] + test[Param(map, q)] /\ f[q] \in Int
  <2>1. f[q] = E[0 + 1][q] + x[q] * E[0][q]
    BY <1>3 DEF IndexTerm
  <2>2. E[0][q] = 1 /\ 0 + 1 = 1
    BY <1>2, <1>3, <1>5 DEF IsTable
  <2>3. x[q] \in Nat
    BY <1>3, <1>4 DEF HasValues
  <2>4. x[q] * E[0][q] = x[q]
    BY <2>2, <2>3
  <2>5. QED
    BY <1>3, <1>4, <1>6, <2>1, <2>2, <2>4
<1>9. row.base = SumFunctionOnSet(g, R) /\ row.rank = SumFunctionOnSet(G, R) + M - 1
  BY DEF Row, SumFunction, E, M, m
<1>10. \A p \in C : F[p] \in Int
  <2>1. \A p \in C : RankAt(C, LastPosition(map), p) \in Int
    BY <1>1, RankTermIs
  <2>2. QED
    BY <2>1 DEF m
<1>11. \A p \in R : G[p] = F[p]
  <2>1. TAKE p \in R
  <2>2. {y \in C : y > p} = {y \in R : y > p}
    <3>1. q < p /\ q \in Int /\ p \in Int
      BY <1>2, <1>3
    <3>2. QED
      BY <3>1
  <2>3. Top(map, R, p) = Top(map, C, p)
    BY <2>2 DEF Top
  <2>4. RankTerm(map, R, p, Level(R, p) + 1) = RankTerm(map, C, p, Level(C, p))
    BY <1>3, <2>3 DEF RankTerm
  <2>5. RankTerm(map, C, p, Level(C, p)) = RankAt(C, m, p)
    BY <1>1, RankTermIs DEF m
  <2>6. QED
    BY <2>4, <2>5
<1>12. F[q] = M - (q + 1)
  <2>1. {y \in C : y > q} = R
    <3>1. \A y \in C : y > q <=> y # q
      BY <1>2, <1>3
    <3>2. QED
      BY <3>1
  <2>2. NextAt(C, m, q) = M
    BY <2>1 DEF NextAt, M
  <2>3. F[q] = Coefficient[M][1] - Coefficient[q + 1][1]
    BY <1>3, <2>2 DEF RankAt
  <2>4. M \in 0 .. NumUsed /\ q + 1 \in 0 .. NumUsed
    BY <1>2, <1>3
  <2>5. Coefficient[M][1] = M /\ Coefficient[q + 1][1] = q + 1
    BY <1>2, <2>4, OneOf
  <2>6. QED
    BY <2>3, <2>5
<1>13. Index(E, x, C) = SumFunctionOnSet(f, C)
  BY DEF Index
<1>14. Rank(map, C) = SumFunctionOnSet(F, C)
  <2>1. \A p \in C : RankTerm(map, C, p, Level(C, p)) = RankAt(C, m, p)
    BY <1>1, RankTermIs DEF m
  <2>2. [p \in C |-> RankTerm(map, C, p, Level(C, p))] = F
    BY <2>1
  <2>3. Rank(map, C) = SumFunction(F) /\ DOMAIN F = C
    BY <2>2 DEF Rank
  <2>4. QED
    BY <2>3 DEF SumFunction
<1> HIDE DEF f, g, F, G
<1>15. /\ SumFunctionOnSet(f, C) = f[q] + SumFunctionOnSet(g, C \ {q})
       /\ SumFunctionOnSet(f, C) \in Int
       /\ SumFunctionOnSet(g, C \ {q}) \in Int
  <2>1. IsFiniteSet(C) /\ (\A p \in C : f[p] \in Int) /\ \A p \in C \ {q} : g[p] = f[p]
    BY <1>2, <1>6, <1>7 DEF f
  <2>2. QED
    BY <1>3, <2>1, SumSplit
<1>16. /\ SumFunctionOnSet(F, C) = F[q] + SumFunctionOnSet(G, C \ {q})
       /\ SumFunctionOnSet(F, C) \in Int
       /\ SumFunctionOnSet(G, C \ {q}) \in Int
  <2>1. IsFiniteSet(C) /\ (\A p \in C : F[p] \in Int) /\ \A p \in C \ {q} : G[p] = F[p]
    BY <1>2, <1>10, <1>11
  <2>2. QED
    BY <1>3, <2>1, SumSplit
<1>17. row.base + (E[1][q] + test[Param(map, q)]) = Index(E, x, C)
  BY <1>8, <1>9, <1>13, <1>15
<1>18. row.rank - q = Rank(map, C) /\ row.rank \in Int
  <2>1. M \in Int /\ q \in Int
    BY <1>2, <1>3
  <2> HIDE DEF row, R
  <2>2. row.rank = SumFunctionOnSet(G, R) + M - 1 /\ SumFunctionOnSet(G, R) \in Int
    BY <1>9, <1>16 DEF R
  <2>3. Rank(map, C) = M - (q + 1) + SumFunctionOnSet(G, R)
    BY <1>12, <1>14, <1>16 DEF R
  <2>4. QED
    BY <2>1, <2>2, <2>3
<1>19. QED
  BY <1>9, <1>15, <1>17, <1>18 DEF E, x, q

-------------------------------------------------------------------------------
(* The words of rows and the combinations behind their bits *)

Slot(map, test, q) == map.E[1][q] + test[Param(map, q)]

\* The word and the bit of it where a combination is looked at.
WordOf(map, test, C) == <<C \ {Min(C)}, (Slot(map, test, Min(C)) \div WordBits) * WordBits>>

BitOf(map, test, C) == Slot(map, test, Min(C)) % WordBits

\* A bit of a word of a row is a slot of the test before the end of the row.
LEMMA BitsOfWord ==
    ASSUME NEW map, NEW test, NEW row, row.length \in Nat, NEW w \in Nat,
           NEW off, off = w * WordBits, NEW b
    PROVE  b \in TestWord(map, test, row, off) <=>
               /\ b \in 0 .. WordBits - 1
               /\ off + b \in TestSlots(map, test)
               /\ off + b < row.length
<1>1. WordBits \in Nat /\ WordBits > 0 /\ 0 \in 0 .. WordBits - 1
  BY WordAssumption
<1>2. off \in Nat /\ off = w * WordBits + 0
  BY <1>1
<1>3. off \div WordBits = w
  BY <1>1, <1>2, WordAndBit
<1>4. b \in Word(TestSlots(map, test), off \div WordBits) <=>
          b \in 0 .. WordBits - 1 /\ off + b \in TestSlots(map, test)
  BY <1>3 DEF Word
<1>5. b \in 0 .. WordBits - 1 =>
          (b \in RowWordMask(row.length, off) <=> off + b < row.length)
  <2>1. HAVE b \in 0 .. WordBits - 1
  <2>2. b \in Nat /\ b < WordBits
    BY <1>1, <2>1
  <2>3. CASE row.length - off < WordBits
    <3>1. RowWordMask(row.length, off) = 0 .. row.length - off - 1
      BY <2>3 DEF RowWordMask
    <3>2. QED
      BY <1>2, <2>2, <3>1
  <2>4. CASE ~ (row.length - off < WordBits)
    <3>1. RowWordMask(row.length, off) = 0 .. WordBits - 1
      BY <2>4 DEF RowWordMask
    <3>2. QED
      BY <1>1, <1>2, <2>2, <2>4, <3>1
  <2>5. QED
    BY <2>3, <2>4
<1>6. QED
  BY <1>4, <1>5 DEF TestWord

\* A slot of the test is one of an assigned position.
LEMMA SlotOfAssigned ==
    ASSUME NEW map, IsMap(map), NumEarlier(map) >= 1, NEW test \in PartialTests,
           NEW q \in Assigned(map, test)
    PROVE  /\ Slot(map, test, q) \in Nat
           /\ SlotPosition(map, Slot(map, test, q)) = q
           /\ \A j \in 0 .. LastPosition(map) : Slot(map, test, q) < map.E[1][j] <=> q < j
           /\ q \in 0 .. LastPosition(map) - 1
<1>1. /\ q \in Earlier(map) /\ q \in 0 .. LastPosition(map) - 1
      /\ test[Param(map, q)] \in 0 .. Sizes(map)[q] - 1
  BY AssignedFacts
<1>2. QED
  BY <1>1, SlotIs DEF Slot

\* The rows of a test have slots.
LEMMA RowLength ==
    ASSUME NEW map, IsMap(map), NumEarlier(map) >= 1, NEW test \in PartialTests,
           NEW R \in RowChoices(map, test)
    PROVE  LET M == Min(R \cup {LastPosition(map)})
           IN /\ M \in 1 .. LastPosition(map)
              /\ \A p \in R : M <= p
              /\ R \in SUBSET Assigned(map, test)
              /\ IsFiniteSet(R) /\ Cardinality(R) = NumEarlier(map) - 1
              /\ Row(map, test, R).length = map.E[1][M]
              /\ Row(map, test, R).length \in Nat \ {0}
<1> DEFINE m == LastPosition(map)
           S == R \cup {m}
           M == Min(S)
<1>1. /\ m \in Nat /\ m >= 1 /\ Earlier(map) = 0 .. m - 1 /\ m \in 0 .. m
  BY MapFacts
<1>2. /\ R \in SUBSET Assigned(map, test) /\ Cardinality(R) = NumEarlier(map) - 1
      /\ \A q \in R : q > Level(R, q)
  BY DEF RowChoices, kSubset
<1>3. R \in SUBSET (0 .. m - 1)
  BY <1>1, <1>2 DEF Assigned
<1> HIDE DEF m
<1>4. IsFiniteSet(R) /\ \A q \in R : Level(R, q) \in 0 .. Cardinality(R) - 1
  <2>1. IsFiniteSet(R)
    BY <1>1, <1>3, PositionsFinite
  <2>2. \A q \in R : Level(R, q) \in 0 .. Cardinality(R) - 1
    BY <1>1, <1>3, Levels
  <2>3. QED
    BY <2>1, <2>2
<1>5. \A q \in R : q >= 1 /\ q \in 1 .. m
  <2>1. TAKE q \in R
  <2>2. q > Level(R, q) /\ Level(R, q) \in Nat /\ q \in 0 .. m - 1
    BY <1>2, <1>3, <1>4
  <2>3. QED
    BY <1>1, <2>2
<1>6. S \in SUBSET (1 .. m) /\ S \in SUBSET Nat /\ S # {}
  BY <1>1, <1>5
<1>7. M \in S /\ \A y \in S : M <= y
  <2> HIDE DEF S
  <2>1. \E x \in S : \A y \in S : x <= y
    BY <1>6, Smallest
  <2>2. QED
    BY <2>1 DEF Min
<1>8. Row(map, test, R).length = map.E[1][M]
  BY DEF Row, m
<1>9. map.E[1][M] \in Nat \ {0}
  <2>1. /\ \A j \in 0 .. m : map.E[1][j] \in Nat
        /\ \A i, j \in 0 .. m : map.E[1][i] < map.E[1][j] <=> i < j
    BY Layout, SlotRanges DEF m
  <2>2. M \in 0 .. m /\ 0 \in 0 .. m /\ 0 < M
    BY <1>1, <1>6, <1>7
  <2> HIDE DEF M
  <2>3. map.E[1][0] < map.E[1][M] /\ map.E[1][0] \in Nat /\ map.E[1][M] \in Nat
    BY <2>1, <2>2
  <2>4. QED
    BY <2>3
<1>10. QED
  BY <1>2, <1>4, <1>6, <1>7, <1>8, <1>9 DEF m

\* Every bit of every word is the one of a combination where the test has values.
LEMMA CombinationOfBit ==
    ASSUME NEW map, IsMap(map), NumEarlier(map) >= 1, NEW test \in PartialTests,
           NEW rw \in RowWords(map, test),
           NEW b \in TestWord(map, test, Row(map, test, rw[1]), rw[2])
    PROVE  \E C \in Reached(map, test) : WordOf(map, test, C) = rw /\ BitOf(map, test, C) = b
<1> DEFINE m == LastPosition(map)
           last(R) == (Row(map, test, R).length - 1) \div WordBits
<1>0. PICK R \in RowChoices(map, test) : \E w \in 0 .. last(R) : rw = <<R, w * WordBits>>
  BY DEF RowWords
<1>1. PICK w \in 0 .. last(R) : rw = <<R, w * WordBits>>
  BY <1>0
<1> DEFINE row == Row(map, test, R)
           off == w * WordBits
           M == Min(R \cup {m})
<1>2. rw[1] = R /\ rw[2] = off /\ w \in Nat
  BY <1>1
<1>3. /\ M \in 1 .. m /\ (\A p \in R : M <= p) /\ R \in SUBSET Assigned(map, test)
      /\ IsFiniteSet(R) /\ Cardinality(R) = NumEarlier(map) - 1
      /\ row.length = map.E[1][M] /\ row.length \in Nat
  BY RowLength
<1> HIDE DEF M, m, row
<1>4. off + b \in TestSlots(map, test) /\ off + b < row.length /\ b \in 0 .. WordBits - 1
  <2>1. b \in TestWord(map, test, row, off)
    BY <1>2 DEF row
  <2>2. QED
    BY <1>2, <1>3, <2>1, BitsOfWord
<1>5. PICK q \in Assigned(map, test) : off + b = Slot(map, test, q)
  BY <1>4 DEF TestSlots, Slot
<1>6. m \in Nat /\ M \in 0 .. m /\ q \in 0 .. m - 1 /\ Slot(map, test, q) \in Nat
      /\ Earlier(map) = 0 .. m - 1 /\ NumEarlier(map) \in Nat
  BY <1>3, SlotOfAssigned, MapFacts DEF m
<1>7. q < M
  <2>1. \A j \in 0 .. m : Slot(map, test, q) < map.E[1][j] <=> q < j
    BY SlotOfAssigned DEF m
  <2>2. QED
    BY <1>3, <1>4, <1>5, <1>6, <2>1
<1> DEFINE C == R \cup {q}
<1>8. q \notin R /\ \A p \in C : q <= p
  <2>1. \A p \in R : q < p /\ p \in Int
    <3>1. TAKE p \in R
    <3>2. M <= p /\ p \in Int /\ M \in Int /\ q \in Int
      BY <1>3, <1>6 DEF Assigned
    <3>3. QED
      BY <1>7, <3>2
  <2>2. QED
    BY <1>6, <2>1
<1>9. C \in Reached(map, test)
  <2>1. C \in SUBSET Assigned(map, test) /\ C \in SUBSET Earlier(map)
    BY <1>3, <1>5 DEF Assigned
  <2>2. Cardinality(C) = Cardinality(R) + 1
    BY <1>3, <1>8, FS_AddElement
  <2>3. Cardinality(C) = NumEarlier(map)
    BY <1>3, <1>6, <2>2
  <2>4. QED
    BY <2>1, <2>3 DEF Reached, Combinations, kSubset
<1>10. Min(C) = q /\ C \ {Min(C)} = R
  <2>1. C \in SUBSET (0 .. m) /\ q \in C
    BY <1>3, <1>6 DEF Assigned
  <2>2. Min(C) = q
    <3> HIDE DEF C
    <3>1. QED
      BY <1>6, <1>8, <2>1, MinIs
  <2>3. QED
    BY <1>8, <2>2
<1>11. Slot(map, test, q) \div WordBits = w /\ Slot(map, test, q) % WordBits = b
  BY <1>2, <1>4, <1>5, <1>6, WordAndBit
<1>12. WordOf(map, test, C) = rw /\ BitOf(map, test, C) = b
  BY <1>1, <1>10, <1>11 DEF WordOf, BitOf
<1>13. QED
  BY <1>9, <1>12

\* A combination where the test has values is one of the bits of one of the words.
LEMMA BitOfCombination ==
    ASSUME NEW map, IsMap(map), NumEarlier(map) >= 1, NEW test \in PartialTests,
           NEW C \in Reached(map, test)
    PROVE  LET rw == WordOf(map, test, C)
               b == BitOf(map, test, C)
           IN /\ rw \in RowWords(map, test)
              /\ rw[1] = C \ {Min(C)} /\ rw[2] \in Nat /\ b \in Nat
              /\ b \in TestWord(map, test, Row(map, test, rw[1]), rw[2])
              /\ rw[2] + b = Slot(map, test, Min(C))
              /\ SlotPosition(map, rw[2] + b) = Min(C)
<1> DEFINE m == LastPosition(map)
           q == Min(C)
           R == C \ {q}
           M == Min(R \cup {m})
           slot == Slot(map, test, q)
           w == slot \div WordBits
           off == w * WordBits
           b == slot % WordBits
           row == Row(map, test, R)
           len == row.length
<1>1. C \in Combinations(map) /\ C \in SUBSET Assigned(map, test)
  BY DEF Reached
<1>2. /\ q \in C /\ IsFiniteSet(R) /\ Cardinality(R) = NumEarlier(map) - 1
      /\ \A p \in R : Level(R, p) + 1 <= p
      /\ M \in 0 .. m /\ q < M
  BY <1>1, BottomOf DEF IsBottom
<1>3. R \in RowChoices(map, test)
  <2>1. \A p \in R : p > Level(R, p)
    <3>1. TAKE p \in R
    <3>2. p \in Int /\ Level(R, p) + 1 <= p /\ Level(R, p) \in Int
      <4>1. p \in Int
        BY <1>1, AssignedFacts
      <4>2. IsFiniteSet({x \in R : x < p})
        BY <1>2, FS_Subset
      <4>3. Level(R, p) \in Nat
        BY <4>2, FS_CardinalityType DEF Level
      <4>4. QED
        BY <1>2, <4>1, <4>3
    <3>3. QED
      BY <3>2
  <2>2. R \in SUBSET Assigned(map, test)
    BY <1>1
  <2>3. QED
    BY <1>2, <2>1, <2>2 DEF RowChoices, kSubset
<1>4. len = map.E[1][M] /\ len \in Nat \ {0}
  BY <1>3, RowLength, ZenonT(60)
<1>5. /\ slot \in Nat /\ SlotPosition(map, slot) = q
      /\ \A j \in 0 .. m : slot < map.E[1][j] <=> q < j
  BY <1>1, <1>2, SlotOfAssigned
<1>6. slot < len
  BY <1>2, <1>4, <1>5
<1>7. WordBits \in Nat /\ WordBits > 0
  BY WordAssumption
<1> HIDE DEF slot, q, M, m, row
<1>8. /\ w \in Nat /\ b \in 0 .. WordBits - 1 /\ slot = off + b
      /\ off \in Nat
  <2>1. w \in Nat /\ b \in 0 .. WordBits - 1 /\ slot = off + b
    BY <1>5, WordAndBit
  <2>2. off \in Nat
    BY <1>7, <2>1
  <2>3. QED
    BY <2>1, <2>2
<1>9. w \in 0 .. (len - 1) \div WordBits
  <2> DEFINE n == (len - 1) \div WordBits
             c == (len - 1) % WordBits
             offn == n * WordBits
  <2>1. len - 1 \in Nat /\ slot <= len - 1
    BY <1>4, <1>5, <1>6
  <2>2. n \in Nat /\ c \in 0 .. WordBits - 1 /\ len - 1 = offn + c
    <3> HIDE DEF len
    <3>1. QED
      BY <2>1, WordAndBit
  <2> HIDE DEF n, c, w, b, len
  <2>3. n < w => n * WordBits + c < w * WordBits
    BY <1>7, <1>8, <2>2, Digits
  <2>4. ~ (n < w)
    <3>1. off \in Nat /\ b \in Nat /\ slot = off + b /\ slot <= len - 1 /\ len - 1 = offn + c
      BY <1>7, <1>8, <2>1, <2>2
    <3>2. offn \in Nat /\ c \in Nat
      BY <1>7, <2>2
    <3>3. n < w => offn + c < off
      BY <2>3
    <3> HIDE DEF off, offn
    <3>4. QED
      BY <3>1, <3>2, <3>3
  <2>5. w <= n
    BY <1>8, <2>2, <2>4
  <2>6. QED
    BY <1>8, <2>2, <2>5 DEF n
<1>10. <<R, off>> \in RowWords(map, test)
  BY <1>3, <1>9 DEF RowWords, row
<1>11. WordOf(map, test, C) = <<R, off>> /\ BitOf(map, test, C) = b
  BY DEF WordOf, BitOf, q, slot
<1>12. b \in TestWord(map, test, row, off)
  <2>1. slot \in TestSlots(map, test)
    BY <1>1, <1>2 DEF TestSlots, slot, Slot
  <2> HIDE DEF w, b
  <2>2. QED
    BY <1>4, <1>6, <1>8, <2>1, BitsOfWord
<1> HIDE DEF w, b, R
<1>13. QED
  BY <1>5, <1>8, <1>10, <1>11, <1>12 DEF row, slot, q, R

\* The image of a finite set is finite.
LEMMA FiniteImage ==
    ASSUME NEW S, IsFiniteSet(S), NEW f
    PROVE  IsFiniteSet({f[x] : x \in S})
<1> DEFINE T == {f[x] : x \in S}
           g == [x \in S |-> f[x]]
<1>1. g \in [S -> T] /\ \A t \in T : \E x \in S : g[x] = t
  OBVIOUS
<1> HIDE DEF g, T
<1>2. g \in Surjection(S, T)
  BY <1>1 DEF Surjection
<1>3. IsFiniteSet(T)
  BY <1>2, FS_Surjection
<1>4. QED
  BY <1>3 DEF T

\* A map has finitely many combinations, and a test finitely many rows and words.
LEMMA RowsFinite ==
    ASSUME NEW map, IsMap(map)
    PROVE  /\ IsFiniteSet(Combinations(map))
           /\ NumEarlier(map) >= 1 =>
                 \A test \in PartialTests :
                     IsFiniteSet(Reached(map, test)) /\ IsFiniteSet(RowWords(map, test))
<1> DEFINE m == LastPosition(map)
           s == NumEarlier(map)
<1>1. m \in Nat /\ s \in Nat /\ Earlier(map) = 0 .. m - 1
  BY MapFacts
<1>2. IsFiniteSet(Combinations(map))
  <2>1. Combinations(map) = PositionSets(s, m)
    BY <1>1 DEF Combinations, PositionSets
  <2> HIDE DEF s, m
  <2>2. QED
    BY <1>1, <2>1, PositionSetsFinite
<1>3. ASSUME s >= 1, NEW test \in PartialTests
      PROVE  IsFiniteSet(Reached(map, test)) /\ IsFiniteSet(RowWords(map, test))
  <2>1. IsFiniteSet(Reached(map, test))
    <3>1. Reached(map, test) \in SUBSET Combinations(map)
      BY DEF Reached
    <3>2. QED
      BY <1>2, <3>1, FS_Subset
  <2> DEFINE Rs == RowChoices(map, test)
             last == [R \in Rs |-> (Row(map, test, R).length - 1) \div WordBits]
             words == [R \in Rs |-> {<<R, w * WordBits>> : w \in 0 .. last[R]}]
  <2>2. IsFiniteSet(Rs)
    <3>1. IsFiniteSet(0 .. m - 1)
      <4> HIDE DEF m
      <4>1. 0 \in Int /\ m - 1 \in Int
        BY <1>1
      <4>2. QED
        BY <4>1, FS_Interval, Zenon
    <3>2. IsFiniteSet(SUBSET (0 .. m - 1))
      BY <3>1, FS_SUBSET
    <3>3. \A R \in Rs : R \in SUBSET (0 .. m - 1)
      <4>1. Assigned(map, test) \in SUBSET (0 .. m - 1)
        BY <1>1 DEF Assigned
      <4>2. QED
        BY <4>1 DEF RowChoices, kSubset
    <3>4. Rs \in SUBSET (SUBSET (0 .. m - 1))
      <4> HIDE DEF Rs
      <4>1. QED
        BY <3>3
    <3>5. QED
      BY <3>2, <3>4, FS_Subset
  <2>3. \A R \in Rs : IsFiniteSet(words[R])
    <3>1. TAKE R \in Rs
    <3>2. last[R] \in Nat
      <4>1. Row(map, test, R).length \in Nat \ {0}
        BY <1>3, RowLength
      <4>2. Row(map, test, R).length - 1 \in Nat
        BY <4>1
      <4>3. QED
        BY <4>2, WordAndBit
    <3> DEFINE f == [w \in 0 .. last[R] |-> <<R, w * WordBits>>]
    <3>3. IsFiniteSet(0 .. last[R])
      <4> HIDE DEF last
      <4>1. 0 \in Int /\ last[R] \in Int
        BY <3>2
      <4>2. QED
        BY <4>1, FS_Interval, Zenon
    <3>4. words[R] = {f[w] : w \in 0 .. last[R]}
      OBVIOUS
    <3> HIDE DEF f, last, words
    <3>5. IsFiniteSet({f[w] : w \in 0 .. last[R]})
      <4>1. PICK S : S = 0 .. last[R]
        OBVIOUS
      <4>2. IsFiniteSet({f[w] : w \in S})
        BY <3>3, <4>1, FiniteImage
      <4>3. QED
        BY <4>1, <4>2
    <3>6. QED
      BY <3>4, <3>5
  <2>4. RowWords(map, test) = UNION {words[R] : R \in Rs}
    BY DEF RowWords
  <2> HIDE DEF words, Rs
  <2>5. IsFiniteSet({words[R] : R \in Rs})
    BY <2>2, FiniteImage
  <2>6. \A T \in {words[R] : R \in Rs} : IsFiniteSet(T)
    BY <2>3
  <2>7. IsFiniteSet(UNION {words[R] : R \in Rs})
    BY <2>5, <2>6, FS_UNION
  <2>8. QED
    BY <2>1, <2>4, <2>7
<1>4. QED
  BY <1>2, <1>3

\* No two combinations have the same bit of the same word.
LEMMA BitsDistinct ==
    ASSUME NEW map, IsMap(map), NumEarlier(map) >= 1, NEW test \in PartialTests,
           NEW C \in Reached(map, test), NEW D \in Reached(map, test),
           WordOf(map, test, C) = WordOf(map, test, D), BitOf(map, test, C) = BitOf(map, test, D)
    PROVE  C = D
<1>1. Min(C) = Min(D) /\ C \ {Min(C)} = D \ {Min(D)}
  <2>1. /\ SlotPosition(map, WordOf(map, test, C)[2] + BitOf(map, test, C)) = Min(C)
        /\ WordOf(map, test, C)[1] = C \ {Min(C)}
    BY BitOfCombination
  <2>2. /\ SlotPosition(map, WordOf(map, test, D)[2] + BitOf(map, test, D)) = Min(D)
        /\ WordOf(map, test, D)[1] = D \ {Min(D)}
    BY BitOfCombination
  <2>3. QED
    BY <2>1, <2>2
<1>2. Min(C) \in C /\ Min(D) \in D
  <2>1. C \in Combinations(map) /\ D \in Combinations(map)
    BY DEF Reached
  <2>2. QED
    BY <2>1, BottomOf DEF IsBottom
<1>3. QED
  BY <1>1, <1>2

\* Some bits of every word of a test, and how many they are.
Selects(map, test, sel, n) ==
    \A rw \in RowWords(map, test) :
        /\ sel[rw] \in SUBSET TestWord(map, test, Row(map, test, rw[1]), rw[2])
        /\ n[rw] = Cardinality(sel[rw])

\* The numbers of bits selected from all words add up to the number of the
\* combinations they are of.
LEMMA WordsCount ==
    ASSUME NEW map, IsMap(map), NumEarlier(map) >= 1, NEW test \in PartialTests,
           NEW sel, NEW n, Selects(map, test, sel, n)
    PROVE  LET S == {C \in Reached(map, test) : BitOf(map, test, C) \in sel[WordOf(map, test, C)]}
           IN SumFunctionOnSet(n, RowWords(map, test)) = Cardinality(S) /\ IsFiniteSet(S)
<1> DEFINE S == {C \in Reached(map, test) : BitOf(map, test, C) \in sel[WordOf(map, test, C)]}
           W == RowWords(map, test)
           parts == [rw \in W |-> {C \in S : WordOf(map, test, C) = rw}]
<1> /\ \A rw \in W : n[rw] = Cardinality(sel[rw])
    /\ \A rw \in W : sel[rw] \in SUBSET TestWord(map, test, Row(map, test, rw[1]), rw[2])
  BY DEF Selects
<1>1. IsFiniteSet(S) /\ IsFiniteSet(W)
  <2>1. S \in SUBSET Reached(map, test)
    OBVIOUS
  <2>2. QED
    BY <2>1, RowsFinite, FS_Subset
<1>2. ASSUME NEW rw \in W
      PROVE  IsFiniteSet(parts[rw]) /\ n[rw] = Cardinality(parts[rw])
  <2> DEFINE T == parts[rw]
             f == [C \in T |-> BitOf(map, test, C)]
  <2>1. T \in SUBSET S
    OBVIOUS
  <2>2. IsFiniteSet(T)
    BY <1>1, <2>1, FS_Subset
  <2>3. \A C, D \in T : f[C] = f[D] => C = D
    <3>1. TAKE C, D \in T
    <3>2. /\ C \in Reached(map, test) /\ D \in Reached(map, test)
          /\ WordOf(map, test, C) = WordOf(map, test, D)
          /\ f[C] = BitOf(map, test, C) /\ f[D] = BitOf(map, test, D)
      OBVIOUS
    <3>3. QED
      BY <3>2, BitsDistinct
  <2>4. {f[C] : C \in T} = sel[rw]
    <3>1. \A C \in T : f[C] \in sel[rw]
      OBVIOUS
    <3>2. ASSUME NEW b \in sel[rw]
          PROVE  \E C \in T : f[C] = b
      <4>1. b \in TestWord(map, test, Row(map, test, rw[1]), rw[2])
        OBVIOUS
      <4>2. PICK C \in Reached(map, test) :
                WordOf(map, test, C) = rw /\ BitOf(map, test, C) = b
        BY <4>1, CombinationOfBit
      <4>3. C \in T /\ f[C] = b
        BY <4>2
      <4>4. QED
        BY <4>3
    <3> HIDE DEF f, T
    <3>3. QED
      BY <3>1, <3>2
  <2>5. DOMAIN f = T
    OBVIOUS
  <2> HIDE DEF f
  <2>6. Cardinality({f[C] : C \in T}) = Cardinality(T)
    BY <2>2, <2>3, <2>5, SameCount
  <2>7. QED
    BY <2>2, <2>4, <2>6
<1>3. \A v, w \in W : v # w => parts[v] \cap parts[w] = {}
  OBVIOUS
<1>4. Joined(parts, W) = S
  <2>1. \A C \in S : WordOf(map, test, C) \in W
    BY BitOfCombination
  <2>2. \A C \in S : C \in parts[WordOf(map, test, C)]
    BY <2>1
  <2>3. \A rw \in W : parts[rw] \in SUBSET S
    OBVIOUS
  <2> HIDE DEF S, W, parts
  <2>4. QED
    BY <2>1, <2>2, <2>3 DEF Joined
<1> HIDE DEF S, W, parts
<1>5. Cardinality(Joined(parts, W)) = SumFunctionOnSet(n, W)
  BY <1>1, <1>2, <1>3, CardinalityOfUnion
<1>6. QED
  BY <1>1, <1>4, <1>5 DEF S, W

\* The tuple that a test has, or would have with value v of the last parameter, for a
\* combination.
TupleAt(map, test, v, C) ==
    [p \in ParamsOf(map, C) |-> IF p = LastParam(map) THEN v ELSE test[p]]

\* The tuples that a test covers with value v.
Hit(map, test, v) == {TupleAt(map, test, v, C) : C \in Reached(map, test)}

\* The tuple of a combination is one of the map.
LEMMA HitTuple ==
    ASSUME NEW map, IsMap(map), NEW test \in PartialTests, NEW v \in LastDomain(map),
           NEW C \in Reached(map, test)
    PROVE  LET u == TupleAt(map, test, v, C)
           IN /\ u \in TuplesOf(ParamsOf(map, C)) /\ u \in Own(map)
              /\ CombinationOf(map, DOMAIN u) = C
              /\ u[LastParam(map)] = v
              /\ \A q \in C : ValuesAt(map, C, u)[q] = TestValues(map, test)[q]
<1> DEFINE u == TupleAt(map, test, v, C)
           m == LastPosition(map)
<1>1. C \in Combinations(map) /\ C \in SUBSET Assigned(map, test)
  BY DEF Reached
<1>2. m \in Nat /\ Earlier(map) = 0 .. m - 1
      /\ \A p, q \in 0 .. m : Param(map, p) = Param(map, q) => p = q
  BY MapFacts
<1>3. \A q \in C : Param(map, q) # LastParam(map) /\ q \in Earlier(map)
  <2>1. TAKE q \in C
  <2>2. q \in Earlier(map)
    BY <1>1 DEF Assigned
  <2>3. q \in 0 .. m /\ m \in 0 .. m /\ q # m
    BY <1>2, <2>2
  <2>4. QED
    BY <1>2, <2>2, <2>3 DEF LastParam
<1>4. DOMAIN u = ParamsOf(map, C) /\ u[LastParam(map)] = v
  BY <1>1, CombinationFacts DEF TupleAt
<1>5. \A q \in C : u[Param(map, q)] = test[Param(map, q)]
                   /\ test[Param(map, q)] \in Dom(Param(map, q))
  <2>1. TAKE q \in C
  <2>2. Param(map, q) \in ParamsOf(map, C) /\ q \in Assigned(map, test)
    BY <1>1, CombinationFacts
  <2>3. QED
    BY <1>3, <2>2, AssignedFacts DEF TupleAt
<1>6. u \in TuplesOf(ParamsOf(map, C))
  <2>1. \A p \in ParamsOf(map, C) : u[p] \in Dom(p)
    <3>1. TAKE p \in ParamsOf(map, C)
    <3>2. CASE p = LastParam(map)
      BY <1>4, <3>2 DEF LastDomain, LastParam
    <3>3. CASE p # LastParam(map)
      <4>1. PICK q \in C : p = Param(map, q)
        BY <1>1, <3>3, CombinationFacts
      <4>2. QED
        BY <1>5, <4>1
    <3>4. QED
      BY <3>2, <3>3
  <2>2. u \in [ParamsOf(map, C) -> AllValues]
    <3>1. \A p \in ParamsOf(map, C) : u[p] \in AllValues
      <4>1. TAKE p \in ParamsOf(map, C)
      <4>2. p \in Params
        BY <1>1, CombinationFacts
      <4>3. QED
        BY <2>1, <4>2 DEF AllValues
    <3>2. u = [p \in ParamsOf(map, C) |-> u[p]]
      BY DEF TupleAt
    <3> HIDE DEF u
    <3>3. QED
      BY <3>1, <3>2
  <2>3. QED
    BY <2>1, <2>2 DEF TuplesOf
<1>7. u \in Own(map) /\ CombinationOf(map, DOMAIN u) = C
  BY <1>1, <1>6, OwnTuple
<1>8. \A q \in C : ValuesAt(map, C, u)[q] = TestValues(map, test)[q]
  BY <1>3, <1>5 DEF ValuesAt, TestValues
<1>9. QED
  BY <1>4, <1>6, <1>7, <1>8

\* The index of a tuple depends on its values only.
LEMMA SameIndex ==
    ASSUME NEW E, NEW C, NEW x, NEW y, \A q \in C : x[q] = y[q]
    PROVE  Index(E, x, C) = Index(E, y, C)
<1>1. [q \in C |-> IndexTerm(E, x, C, q)] = [q \in C |-> IndexTerm(E, y, C, q)]
  BY DEF IndexTerm
<1>2. QED
  BY <1>1 DEF Index

\* The bit of a word of a row is looked at, for a value, at the place of the tuple that
\* the test would have, and counted to the combination of the tuple.
LEMMA PlaceOfBit ==
    ASSUME NEW map, IsMap(map), NumEarlier(map) >= 1, NEW test \in PartialTests,
           NEW v \in LastDomain(map), NEW C \in Reached(map, test)
    PROVE  LET rw == WordOf(map, test, C)
               b == BitOf(map, test, C)
               row == Row(map, test, rw[1])
           IN /\ row.base + v * TuplesPerValue(map) + rw[2] + b
                     = PhysicalIndex(map, C, TupleAt(map, test, v, C))
              /\ row.rank - SlotPosition(map, rw[2] + b) = Rank(map, C)
<1> DEFINE rw == WordOf(map, test, C)
           b == BitOf(map, test, C)
           q == Min(C)
           row == Row(map, test, C \ {q})
           slot == Slot(map, test, q)
           u == TupleAt(map, test, v, C)
           i == Index(map.E, ValuesAt(map, C, u), C)
           high == v * TuplesPerValue(map)
<1>1. /\ rw[1] = C \ {q} /\ rw[2] + b = slot /\ SlotPosition(map, rw[2] + b) = q
      /\ rw[2] \in Nat /\ b \in Nat
  BY BitOfCombination
<1>2. /\ row.base + slot = Index(map.E, TestValues(map, test), C)
      /\ row.rank - q = Rank(map, C) /\ row.base \in Int
  BY RowOfCombo DEF Slot
<1>3. /\ u \in TuplesOf(ParamsOf(map, C)) /\ u[LastParam(map)] = v
      /\ \A p \in C : ValuesAt(map, C, u)[p] = TestValues(map, test)[p]
  BY HitTuple
<1>4. C \in Combinations(map)
  BY DEF Reached
<1>5. PhysicalIndex(map, C, u) = high + i /\ i \in Nat
      /\ TuplesPerValue(map) \in Nat /\ v \in Nat
  <2>1. /\ PhysicalIndex(map, C, u) = u[LastParam(map)] * TuplesPerValue(map) + i
        /\ i \in 0 .. TuplesPerValue(map) - 1
        /\ TuplesPerValue(map) \in Nat /\ u[LastParam(map)] \in Nat
    BY <1>3, <1>4, PlaceOfTuple
  <2>2. QED
    BY <1>3, <2>1
<1>6. i = Index(map.E, TestValues(map, test), C)
  BY <1>3, SameIndex
<1>7. high \in Nat
  BY <1>5
<1> HIDE DEF rw, b, q, row, slot, i, high
<1>8. row.base + high + rw[2] + b = high + i
  BY <1>1, <1>2, <1>5, <1>6, <1>7
<1>9. QED
  BY <1>1, <1>2, <1>5, <1>8 DEF rw, b, row, high

\* The words of rows start at places of the array.
LEMMA RowBaseType ==
    ASSUME NEW map, IsMap(map), NumEarlier(map) >= 1, NEW test \in PartialTests,
           NEW v \in LastDomain(map), NEW rw \in RowWords(map, test)
    PROVE  /\ Row(map, test, rw[1]).base + v * TuplesPerValue(map) + rw[2] \in Nat
           /\ TestWord(map, test, Row(map, test, rw[1]), rw[2]) \in SUBSET (0 .. WordBits - 1)
<1> DEFINE m == LastPosition(map)
           s == NumEarlier(map)
           last(R) == (Row(map, test, R).length - 1) \div WordBits
<1>0. PICK R \in RowChoices(map, test) : \E w \in 0 .. last(R) : rw = <<R, w * WordBits>>
  BY DEF RowWords
<1>1. PICK w \in 0 .. last(R) : rw = <<R, w * WordBits>>
  BY <1>0
<1>2. rw[1] = R /\ rw[2] \in Nat
  <2>1. w \in Nat /\ WordBits \in Nat
    BY <1>1, WordAssumption
  <2>2. w * WordBits \in Nat
    BY <2>1
  <2>3. QED
    BY <1>1, <2>2
<1>3. /\ R \in SUBSET Assigned(map, test) /\ IsFiniteSet(R) /\ Cardinality(R) = s - 1
  BY RowLength
<1>4. /\ m \in Nat /\ s \in Nat /\ m \in 0 .. m /\ s \in 0 .. s
      /\ map.E \in [0 .. s -> [0 .. m -> Nat]]
      /\ Earlier(map) = 0 .. m - 1
  BY Layout, MapFacts DEF IsTable
<1> DEFINE f == [q \in R |-> LET l == Level(R, q) + 1
                             IN map.E[l + 1][q] + test[Param(map, q)] * map.E[l][q]]
<1>5. \A q \in R : f[q] \in Int /\ f[q] >= 0
  <2>1. TAKE q \in R
  <2>2. q \in 0 .. m - 1 /\ q \in 0 .. m /\ test[Param(map, q)] \in Nat
    <3>1. q \in 0 .. m - 1 /\ test[Param(map, q)] \in Dom(Param(map, q))
      BY <1>3, AssignedFacts
    <3>2. q \in 0 .. m
      BY <1>4, <3>1
    <3>3. test[Param(map, q)] \in Nat
      BY <3>1 DEF Dom
    <3>4. QED
      BY <3>1, <3>2, <3>3
  <2>3. R \in SUBSET (0 .. m - 1)
    BY <1>3, <1>4 DEF Assigned
  <2>4. Level(R, q) \in 0 .. Cardinality(R) - 1
    <3> HIDE DEF m
    <3>1. QED
      BY <1>4, <2>3, Levels
  <2>5. Level(R, q) + 1 \in 0 .. s /\ Level(R, q) + 1 + 1 \in 0 .. s
    BY <1>3, <1>4, <2>4
  <2>6. map.E[Level(R, q) + 1 + 1][q] \in Nat /\ map.E[Level(R, q) + 1][q] \in Nat
    BY <1>4, <2>2, <2>5
  <2>7. \A a, b, c \in Nat : a + b * c \in Int /\ a + b * c >= 0
    OBVIOUS
  <2>8. QED
    BY <2>2, <2>6, <2>7
<1>6. Row(map, test, R).base = SumFunctionOnSet(f, R)
  BY DEF Row, SumFunction
<1>7. SumFunctionOnSet(f, R) \in Nat
  <2> HIDE DEF f
  <2>1. SumFunctionOnSet(f, R) \in Int /\ SumFunctionOnSet(f, R) >= 0
    BY <1>3, <1>5, SumType
  <2>2. QED
    BY <2>1
<1>8. v * TuplesPerValue(map) \in Nat
  <2>1. TuplesPerValue(map) \in Nat
    BY <1>4 DEF TuplesPerValue
  <2>2. v \in Nat
    BY DEF LastDomain, Dom
  <2>3. QED
    BY <2>1, <2>2
<1>9. QED
  BY <1>2, <1>6, <1>7, <1>8 DEF TestWord, Word

-------------------------------------------------------------------------------
(* What a map says of its tuples *)

\* Where the bits of a tuple of the map are.
Place(map, u) == PhysicalIndex(map, CombinationOf(map, DOMAIN u), u)

IsMapRecord(map) ==
    map \in [params     : Seq(Params),
             strength   : Nat,
             E          : {TupleCounts(map.params, map.strength)},
             covered    : SUBSET Nat,
             valid      : SUBSET Nat,
             numCovered : [0 .. Cardinality(Combinations(map)) - 1 -> Nat],
             newly      : Nat]

\* The bits and counters of a map say that the tuples Mk are covered, and of the other
\* tuples which of them are in Vd.
Reflects(map, Mk, Vd) ==
    /\ IsMap(map) /\ IsMapRecord(map)
    /\ Mk \in SUBSET Own(map)
    /\ map.covered = {Place(map, u) : u \in Mk}
    /\ map.valid \in SUBSET (0 .. TotalNumTuples(map) - 1)
    /\ \A u \in Own(map) \ Mk : Place(map, u) \in map.valid <=> u \in Vd
    /\ \A C \in Combinations(map) :
           map.numCovered[Rank(map, C)] = Cardinality(Mk \cap TuplesOf(ParamsOf(map, C)))
    /\ map.newly = Cardinality(Mk)

\* Every tuple of a map has a place of its own.
LEMMA PlaceFacts ==
    ASSUME NEW map, IsMap(map)
    PROVE  /\ \A u \in Own(map) : Place(map, u) \in 0 .. TotalNumTuples(map) - 1
           /\ \A u, w \in Own(map) : Place(map, u) = Place(map, w) => u = w
           /\ \A C \in Combinations(map) : \A u \in TuplesOf(ParamsOf(map, C)) :
                  u \in Own(map) /\ Place(map, u) = PhysicalIndex(map, C, u)
           /\ \A C, D \in Combinations(map) : C # D =>
                  TuplesOf(ParamsOf(map, C)) \cap TuplesOf(ParamsOf(map, D)) = {}
           /\ IsFiniteSet(Own(map))
           /\ \A C \in Combinations(map) : TuplesOf(ParamsOf(map, C)) \in SUBSET Own(map)
<1>1. \A u \in Own(map) : Place(map, u) \in 0 .. TotalNumTuples(map) - 1
  BY OwnFacts, PlacesDistinct DEF Place
<1>2. \A u, w \in Own(map) : Place(map, u) = Place(map, w) => u = w
  BY OwnFacts, PlacesDistinct DEF Place
<1>3. \A C \in Combinations(map) : \A u \in TuplesOf(ParamsOf(map, C)) :
          u \in Own(map) /\ Place(map, u) = PhysicalIndex(map, C, u)
          /\ CombinationOf(map, DOMAIN u) = C /\ u \in Tuples
  BY OwnTuple DEF Place
<1>4. \A C, D \in Combinations(map) : C # D =>
          TuplesOf(ParamsOf(map, C)) \cap TuplesOf(ParamsOf(map, D)) = {}
  BY <1>3
<1>5. IsFiniteSet(Own(map))
  <2>1. Own(map) \in SUBSET Tuples
    BY <1>3 DEF Own
  <2>2. QED
    BY <2>1, TuplesFinite, FS_Subset
<1>6. \A C \in Combinations(map) : TuplesOf(ParamsOf(map, C)) \in SUBSET Own(map)
  BY DEF Own
<1>7. QED
  BY <1>1, <1>2, <1>3, <1>4, <1>5, <1>6

\* What does not depend on the bits of a map.
LEMMA SameLayout ==
    ASSUME NEW map, NEW other,
           other.params = map.params, other.strength = map.strength, other.E = map.E
    PROVE  /\ IsMap(map) => IsMap(other)
           /\ Combinations(other) = Combinations(map)
           /\ \A C : /\ ParamsOf(other, C) = ParamsOf(map, C)
                     /\ Rank(other, C) = Rank(map, C)
           /\ Own(other) = Own(map)
           /\ \A u : Place(other, u) = Place(map, u)
           /\ TotalNumTuples(other) = TotalNumTuples(map)
<1>1. IsMap(map) => IsMap(other)
  BY DEF IsMap
<1>2. LastPosition(other) = LastPosition(map) /\ NumEarlier(other) = NumEarlier(map)
      /\ \A q : Param(other, q) = Param(map, q)
  BY DEF LastPosition, NumEarlier, Param
<1>3. Earlier(other) = Earlier(map)
  BY <1>2 DEF Earlier
<1>4. Combinations(other) = Combinations(map)
  BY <1>2, <1>3 DEF Combinations
<1>5. \A C : ParamsOf(other, C) = ParamsOf(map, C)
  BY <1>2 DEF ParamsOf
<1>6. \A C : Rank(other, C) = Rank(map, C)
  <2>1. \A C, q, l : RankTerm(other, C, q, l) = RankTerm(map, C, q, l)
    BY <1>2 DEF RankTerm, Top
  <2>2. QED
    BY <2>1 DEF Rank
<1>7. Own(other) = Own(map)
  BY <1>4, <1>5 DEF Own
<1>8. TuplesPerValue(other) = TuplesPerValue(map) /\ LastDomain(other) = LastDomain(map)
  BY <1>2 DEF TuplesPerValue, LastDomain
<1>9. \A u : Place(other, u) = Place(map, u)
  <2>1. \A S : CombinationOf(other, S) = CombinationOf(map, S)
    BY <1>2, <1>3 DEF CombinationOf
  <2>2. \A C : Base(other, C) = Base(map, C)
    BY DEF Base
  <2>3. \A C, u : PhysicalIndex(other, C, u) = PhysicalIndex(map, C, u)
    BY <1>2, <1>8, <2>2 DEF PhysicalIndex
  <2>4. QED
    BY <2>1, <2>3 DEF Place
<1>10. QED
  BY <1>1, <1>4, <1>5, <1>6, <1>7, <1>8, <1>9 DEF TotalNumTuples

\* The bits and counters after the tuples K were covered and the tuples V marked valid.
IsMarkedMore(other, map, Mk, K, V) ==
    /\ IsMapRecord(other)
    /\ other.params = map.params /\ other.strength = map.strength /\ other.E = map.E
    /\ other.covered = map.covered \cup {Place(map, u) : u \in K}
    /\ other.valid = map.valid \cup {Place(map, u) : u \in V}
    /\ \A C \in Combinations(map) :
           other.numCovered[Rank(map, C)] = map.numCovered[Rank(map, C)]
               + Cardinality((K \ Mk) \cap TuplesOf(ParamsOf(map, C)))
    /\ other.newly = map.newly + Cardinality(K \ Mk)

\* A map that marks and counts more tuples says so of them.
LEMMA MarkMore ==
    ASSUME NEW map, NEW Mk, NEW Vd, Reflects(map, Mk, Vd),
           NEW K \in SUBSET Own(map), NEW V \in SUBSET Own(map),
           NEW other, IsMarkedMore(other, map, Mk, K, V)
    PROVE  Reflects(other, Mk \cup K, Vd \cup V)
<1>1. IsMap(map) /\ Mk \in SUBSET Own(map)
  BY DEF Reflects
<1>2. /\ IsMap(other) /\ Combinations(other) = Combinations(map)
      /\ \A C : /\ ParamsOf(other, C) = ParamsOf(map, C)
                /\ Rank(other, C) = Rank(map, C)
      /\ Own(other) = Own(map)
      /\ \A u : Place(other, u) = Place(map, u)
      /\ TotalNumTuples(other) = TotalNumTuples(map)
  BY <1>1, SameLayout DEF IsMarkedMore
<1>3. /\ \A u \in Own(map) : Place(map, u) \in 0 .. TotalNumTuples(map) - 1
      /\ \A u, w \in Own(map) : Place(map, u) = Place(map, w) => u = w
      /\ IsFiniteSet(Own(map))
  BY <1>1, PlaceFacts
<1>4. \A T : Cardinality((Mk \cup K) \cap T) = Cardinality(Mk \cap T) + Cardinality((K \ Mk) \cap T)
  <2>1. TAKE T
  <2> DEFINE A == Mk \cap T
             B == (K \ Mk) \cap T
  <2>2. A \in SUBSET Own(map) /\ B \in SUBSET Own(map) /\ A \cap B = {}
        /\ (Mk \cup K) \cap T = A \cup B
    BY <1>1
  <2> HIDE DEF A, B
  <2>3. IsFiniteSet(A) /\ IsFiniteSet(B)
    BY <1>3, <2>2, FS_Subset
  <2>4. Cardinality(A) \in Nat /\ Cardinality(B) \in Nat
    BY <2>3, FS_CardinalityType
  <2>5. Cardinality(A \cup B) = Cardinality(A) + Cardinality(B)
    <3>1. Cardinality(A \cup B) = Cardinality(A) + Cardinality(B) - Cardinality(A \cap B)
      BY <2>3, FS_Union, Zenon
    <3>2. Cardinality(A \cap B) = 0
      BY <2>2, FS_EmptySet
    <3>3. QED
      BY <2>4, <3>1, <3>2
  <2>6. QED
    BY <2>2, <2>5 DEF A, B
<1>5. other.covered = {Place(other, u) : u \in Mk \cup K}
  BY <1>2 DEF Reflects, IsMarkedMore
<1>6. other.valid \in SUBSET (0 .. TotalNumTuples(other) - 1)
  BY <1>2, <1>3 DEF Reflects, IsMarkedMore
<1>7. \A u \in Own(map) \ (Mk \cup K) : Place(map, u) \in other.valid <=> u \in Vd \cup V
  <2>1. TAKE u \in Own(map) \ (Mk \cup K)
  <2>2. Place(map, u) \in {Place(map, w) : w \in V} <=> u \in V
    BY <1>3
  <2>3. Place(map, u) \in map.valid <=> u \in Vd
    BY DEF Reflects
  <2>4. QED
    BY <2>2, <2>3 DEF IsMarkedMore
<1>8. \A C \in Combinations(map) : other.numCovered[Rank(map, C)]
          = Cardinality((Mk \cup K) \cap TuplesOf(ParamsOf(map, C)))
  <2>1. TAKE C \in Combinations(map)
  <2>2. other.numCovered[Rank(map, C)] = map.numCovered[Rank(map, C)]
               + Cardinality((K \ Mk) \cap TuplesOf(ParamsOf(map, C)))
    BY DEF IsMarkedMore
  <2>3. map.numCovered[Rank(map, C)] = Cardinality(Mk \cap TuplesOf(ParamsOf(map, C)))
    BY DEF Reflects
  <2>4. QED
    BY <1>4, <2>2, <2>3
<1>9. other.newly = Cardinality(Mk \cup K)
  <2>1. Cardinality(Mk \cup K) = Cardinality(Mk) + Cardinality(K \ Mk)
    <3>1. /\ (Mk \cup K) \cap Own(map) = Mk \cup K /\ Mk \cap Own(map) = Mk
          /\ (K \ Mk) \cap Own(map) = K \ Mk
      BY <1>1
    <3>2. QED
      BY <1>4, <3>1
  <2>2. QED
    BY <2>1 DEF Reflects, IsMarkedMore
<1>10. IsMapRecord(other) /\ Mk \cup K \in SUBSET Own(other)
  BY <1>1, <1>2 DEF IsMarkedMore
<1>11. QED
  BY <1>2, <1>5, <1>6, <1>7, <1>8, <1>9, <1>10 DEF Reflects

-------------------------------------------------------------------------------
(* The operations on one combination *)

\* The tuples of a combination that the tests cover.
CoveredIn(map, C, testSet) ==
    {[p \in ParamsOf(map, C) |-> t[p]] :
        t \in {t \in testSet : \A p \in ParamsOf(map, C) : t[p] # DontCare}}

\* The counters after the tuples K of one combination were covered.
CountedTo(counts, map, C, K, Mk) ==
    counts = [map.numCovered EXCEPT ![Rank(map, C)] = @ + Cardinality(K \ Mk)]

\* Then the counters of the combinations say how many tuples of each are new.
LEMMA CountOne ==
    ASSUME NEW map, NEW Mk, NEW Vd, Reflects(map, Mk, Vd),
           NEW C \in Combinations(map), NEW K \in SUBSET TuplesOf(ParamsOf(map, C)),
           NEW counts, CountedTo(counts, map, C, K, Mk)
    PROVE  /\ counts \in [0 .. Cardinality(Combinations(map)) - 1 -> Nat]
           /\ \A D \in Combinations(map) :
                  counts[Rank(map, D)] = map.numCovered[Rank(map, D)]
                      + Cardinality((K \ Mk) \cap TuplesOf(ParamsOf(map, D)))
           /\ Cardinality(K \ Mk) \in Nat
           /\ K \in SUBSET Own(map)
<1> DEFINE n == Cardinality(K \ Mk)
<1>0. counts = [map.numCovered EXCEPT ![Rank(map, C)] = @ + n]
  BY DEF CountedTo
<1>1. IsMap(map) /\ map.numCovered \in [0 .. Cardinality(Combinations(map)) - 1 -> Nat]
  BY DEF Reflects, IsMapRecord
<1>2. /\ IsFiniteSet(Own(map))
      /\ TuplesOf(ParamsOf(map, C)) \in SUBSET Own(map)
      /\ \A D \in Combinations(map) : D # C =>
             TuplesOf(ParamsOf(map, C)) \cap TuplesOf(ParamsOf(map, D)) = {}
  BY <1>1, PlaceFacts
<1>3. K \ Mk \in SUBSET Own(map)
  BY <1>2
<1>4. IsFiniteSet(K \ Mk)
  BY <1>2, <1>3, FS_Subset
<1>5. n \in Nat
  BY <1>4, FS_CardinalityType
<1>6. \A D \in Combinations(map) :
          /\ Rank(map, D) \in 0 .. Cardinality(Combinations(map)) - 1
          /\ Rank(map, D) = Rank(map, C) => D = C
  BY <1>1, RankIsPlace
<1>7. counts \in [0 .. Cardinality(Combinations(map)) - 1 -> Nat]
  <2> DEFINE I == 0 .. Cardinality(Combinations(map)) - 1
  <2>1. map.numCovered \in [I -> Nat] /\ Rank(map, C) \in I
    BY <1>1, <1>6
  <2> HIDE DEF I
  <2>2. map.numCovered[Rank(map, C)] + n \in Nat
    BY <1>5, <2>1
  <2>3. counts \in [I -> Nat]
    BY <1>0, <2>1, <2>2
  <2>4. QED
    BY <2>3 DEF I
<1>8. ASSUME NEW D \in Combinations(map)
      PROVE  counts[Rank(map, D)] = map.numCovered[Rank(map, D)]
                      + Cardinality((K \ Mk) \cap TuplesOf(ParamsOf(map, D)))
  <2>1. map.numCovered[Rank(map, D)] \in Nat
    BY <1>1, <1>6
  <2>2. CASE D = C
    <3>1. (K \ Mk) \cap TuplesOf(ParamsOf(map, D)) = K \ Mk
      BY <2>2
    <3>2. counts[Rank(map, D)] = map.numCovered[Rank(map, D)] + n
      BY <1>0, <1>1, <1>6, <2>2
    <3>3. QED
      BY <3>1, <3>2
  <2>3. CASE D # C
    <3>1. (K \ Mk) \cap TuplesOf(ParamsOf(map, D)) = {}
      BY <1>2, <2>3
    <3>2. Cardinality((K \ Mk) \cap TuplesOf(ParamsOf(map, D))) = 0
      BY <3>1, FS_EmptySet
    <3>3. counts[Rank(map, D)] = map.numCovered[Rank(map, D)]
      BY <1>0, <1>1, <1>6, <2>3
    <3>4. QED
      BY <2>1, <3>2, <3>3
  <2>4. QED
    BY <2>2, <2>3
<1>9. QED
  BY <1>2, <1>5, <1>7, <1>8

\* A tuple is covered in the map if it is one of those marked.
LEMMA CoveredIff ==
    ASSUME NEW map, NEW Mk, NEW Vd, Reflects(map, Mk, Vd), NEW u \in Own(map)
    PROVE  Place(map, u) \in map.covered <=> u \in Mk
<1>1. IsMap(map) /\ Mk \in SUBSET Own(map) /\ map.covered = {Place(map, w) : w \in Mk}
  BY DEF Reflects
<1>2. \A w \in Own(map) : Place(map, u) = Place(map, w) => u = w
  BY <1>1, PlaceFacts
<1>3. QED
  BY <1>1, <1>2

\* cover_tuple_of for a set of tests: the tuples they cover are covered and valid, and
\* the others are left alone (coverage_map.hpp:85-115).
THEOREM CoverTuplesReflects ==
    ASSUME NEW map, NEW Mk, NEW Vd, Reflects(map, Mk, Vd),
           NEW C \in Combinations(map), NEW testSet \in SUBSET PartialTests
    PROVE  LET K == CoveredIn(map, C, testSet)
               other == CoverTuplesOf(map, C, testSet)
           IN /\ Reflects(other, Mk \cup K, Vd \cup K)
              /\ K \in SUBSET TuplesOf(ParamsOf(map, C))
              /\ other.params = map.params /\ other.strength = map.strength /\ other.E = map.E
<1> DEFINE K == CoveredIn(map, C, testSet)
           other == CoverTuplesOf(map, C, testSet)
           new == {u \in K : ~ IsCovered(map, C, u)}
           N == 0 .. Cardinality(Combinations(map)) - 1
<1>1. IsMap(map) /\ IsMapRecord(map) /\ Mk \in SUBSET Own(map)
      /\ map.covered = {Place(map, w) : w \in Mk}
  BY DEF Reflects
<1>2. K \in SUBSET TuplesOf(ParamsOf(map, C))
  <2>1. SUFFICES ASSUME NEW t \in testSet, \A p \in ParamsOf(map, C) : t[p] # DontCare
                 PROVE  [p \in ParamsOf(map, C) |-> t[p]] \in TuplesOf(ParamsOf(map, C))
    BY DEF CoveredIn
  <2>2. \A p \in ParamsOf(map, C) : p \in Params
    BY <1>1, CombinationFacts
  <2>3. \A p \in ParamsOf(map, C) : t[p] \in Dom(p) /\ t[p] \in AllValues
    BY <2>1, <2>2 DEF PartialTests, AllValues
  <2>4. QED
    BY <2>3 DEF TuplesOf
<1>3. \A u \in K : u \in Own(map) /\ Place(map, u) = PhysicalIndex(map, C, u)
  BY <1>1, <1>2, PlaceFacts
<1>4. \A u \in K : IsCovered(map, C, u) <=> u \in Mk
  BY <1>3, CoveredIff DEF IsCovered
<1>5. new = K \ Mk
  BY <1>4
<1>6. other = [map EXCEPT !.valid = @ \cup {PhysicalIndex(map, C, u) : u \in K},
                          !.covered = @ \cup {PhysicalIndex(map, C, u) : u \in new},
                          !.numCovered[Rank(map, C)] = @ + Cardinality(new),
                          !.newly = @ + Cardinality(new)]
  BY DEF CoverTuplesOf, CoveredIn
<1> DEFINE n == Cardinality(K \ Mk)
           counts == [map.numCovered EXCEPT ![Rank(map, C)] = @ + n]
<1>7. /\ counts \in [N -> Nat]
      /\ \A D \in Combinations(map) :
             counts[Rank(map, D)] = map.numCovered[Rank(map, D)]
                 + Cardinality((K \ Mk) \cap TuplesOf(ParamsOf(map, D)))
      /\ n \in Nat /\ K \in SUBSET Own(map)
  <2>1. CountedTo(counts, map, C, K, Mk) /\ n = Cardinality(K \ Mk)
    BY DEF CountedTo
  <2> HIDE DEF K, n, counts
  <2>2. /\ counts \in [0 .. Cardinality(Combinations(map)) - 1 -> Nat]
        /\ \A D \in Combinations(map) :
             counts[Rank(map, D)] = map.numCovered[Rank(map, D)]
                 + Cardinality((K \ Mk) \cap TuplesOf(ParamsOf(map, D)))
        /\ Cardinality(K \ Mk) \in Nat /\ K \in SUBSET Own(map)
    BY <1>2, <2>1, CountOne, ZenonT(30)
  <2>3. QED
    BY <2>1, <2>2
<1>8. {PhysicalIndex(map, C, u) : u \in K} = {Place(map, u) : u \in K}
      /\ {PhysicalIndex(map, C, u) : u \in new} = {Place(map, u) : u \in K \ Mk}
  BY <1>3, <1>5
<1>9. map.covered \cup {Place(map, u) : u \in K \ Mk} = map.covered \cup {Place(map, u) : u \in K}
  BY <1>1
<1>10. /\ {Place(map, u) : u \in K} \in SUBSET Nat
       /\ map.covered \cup {Place(map, u) : u \in K} \in SUBSET Nat
       /\ map.valid \cup {Place(map, u) : u \in K} \in SUBSET Nat
  <2>1. \A u \in Own(map) : Place(map, u) \in Nat
    <3>1. \A u \in Own(map) : Place(map, u) \in 0 .. TotalNumTuples(map) - 1
      BY <1>1, PlaceFacts
    <3>2. QED
      BY <3>1
  <2>2. map.covered \in SUBSET Nat /\ map.valid \in SUBSET Nat
    BY <1>1 DEF IsMapRecord
  <2>3. QED
    BY <1>3, <2>1, <2>2
<1>11. map \in [params : Seq(Params), strength : Nat, E : {TupleCounts(map.params, map.strength)},
                covered : SUBSET Nat, valid : SUBSET Nat, numCovered : [N -> Nat], newly : Nat]
  BY <1>1 DEF IsMapRecord
<1> DEFINE cov == map.covered \cup {Place(map, u) : u \in K}
           val == map.valid \cup {Place(map, u) : u \in K}
<1>12. other = [map EXCEPT !.valid = val, !.covered = cov, !.numCovered = counts,
                           !.newly = @ + n]
  BY <1>5, <1>6, <1>8, <1>9
<1> HIDE DEF cov, val, counts, n, N, other, K, new
<1>13. /\ other.params = map.params /\ other.strength = map.strength /\ other.E = map.E
       /\ other.covered = cov /\ other.valid = val /\ other.numCovered = counts
       /\ other.newly = map.newly + n /\ map.newly + n \in Nat
  BY <1>7, <1>11, <1>12
<1>14. other \in [params : Seq(Params), strength : Nat, E : {TupleCounts(map.params, map.strength)},
                  covered : SUBSET Nat, valid : SUBSET Nat, numCovered : [N -> Nat], newly : Nat]
  <2>1. cov \in SUBSET Nat /\ val \in SUBSET Nat
    BY <1>10 DEF cov, val
  <2>2. QED
    BY <1>7, <1>11, <1>12, <1>13, <2>1
<1>15. IsMapRecord(other)
  <2>1. Combinations(other) = Combinations(map)
    BY <1>13, SameLayout
  <2>2. QED
    BY <1>13, <1>14, <2>1 DEF IsMapRecord, N
<1>16. IsMarkedMore(other, map, Mk, K, K)
  BY <1>7, <1>13, <1>15 DEF IsMarkedMore, cov, val, n
<1>17. Reflects(other, Mk \cup K, Vd \cup K)
  BY <1>7, <1>16, MarkMore
<1>18. QED
  BY <1>2, <1>13, <1>17 DEF other, K

\* A map with other bits and counters.
Updated(map, cov, val, counts, n) ==
    [map EXCEPT !.covered = cov, !.valid = val, !.numCovered = counts, !.newly = n]

\* Its fields are these, and it is a record of the same kind.
LEMMA UpdatedFields ==
    ASSUME NEW map, NEW Mk, NEW Vd, Reflects(map, Mk, Vd),
           NEW cov \in SUBSET Nat, NEW val \in SUBSET Nat,
           NEW counts \in [0 .. Cardinality(Combinations(map)) - 1 -> Nat], NEW n \in Nat
    PROVE  LET other == Updated(map, cov, val, counts, n)
           IN /\ IsMapRecord(other)
              /\ other.params = map.params /\ other.strength = map.strength /\ other.E = map.E
              /\ other.covered = cov /\ other.valid = val /\ other.numCovered = counts
              /\ other.newly = n
<1> DEFINE other == Updated(map, cov, val, counts, n)
           N == 0 .. Cardinality(Combinations(map)) - 1
<1>1. map \in [params : Seq(Params), strength : Nat, E : {TupleCounts(map.params, map.strength)},
               covered : SUBSET Nat, valid : SUBSET Nat, numCovered : [N -> Nat], newly : Nat]
  BY DEF Reflects, IsMapRecord
<1>2. counts \in [N -> Nat]
  OBVIOUS
<1>3. other = [map EXCEPT !.covered = cov, !.valid = val, !.numCovered = counts, !.newly = n]
  BY DEF Updated
<1> HIDE DEF other, N
<1>4. /\ other.params = map.params /\ other.strength = map.strength /\ other.E = map.E
      /\ other.covered = cov /\ other.valid = val /\ other.numCovered = counts
      /\ other.newly = n
  BY <1>1, <1>3
<1>5. other \in [params : Seq(Params), strength : Nat, E : {TupleCounts(map.params, map.strength)},
                 covered : SUBSET Nat, valid : SUBSET Nat, numCovered : [N -> Nat], newly : Nat]
  BY <1>1, <1>2, <1>3, <1>4
<1>6. Combinations(other) = Combinations(map)
  BY <1>4, SameLayout
<1>7. IsMapRecord(other)
  BY <1>4, <1>5, <1>6 DEF IsMapRecord, N
<1>8. QED
  BY <1>4, <1>7 DEF other

\* test_and_set_covered: one more tuple is covered, and only that (coverage_map.hpp:70-77).
THEOREM SetCoveredReflects ==
    ASSUME NEW map, NEW Mk, NEW Vd, Reflects(map, Mk, Vd),
           NEW C \in Combinations(map), NEW u \in TuplesOf(ParamsOf(map, C)), u \notin Mk
    PROVE  LET other == SetCovered(map, C, u)
           IN /\ Reflects(other, Mk \cup {u}, Vd)
              /\ other.params = map.params /\ other.strength = map.strength /\ other.E = map.E
<1> DEFINE other == SetCovered(map, C, u)
           K == {u}
           cov == map.covered \cup {Place(map, u)}
           val == map.valid
           counts == [map.numCovered EXCEPT ![Rank(map, C)] = @ + Cardinality(K \ Mk)]
           n == map.newly + 1
<1>1. IsMap(map) /\ IsMapRecord(map)
  BY DEF Reflects
<1>2. u \in Own(map) /\ Place(map, u) = PhysicalIndex(map, C, u)
  BY <1>1, PlaceFacts
<1>3. K \ Mk = K /\ Cardinality(K) = 1
  BY FS_Singleton
<1>4. /\ counts \in [0 .. Cardinality(Combinations(map)) - 1 -> Nat]
      /\ \A D \in Combinations(map) :
           counts[Rank(map, D)] = map.numCovered[Rank(map, D)]
                 + Cardinality((K \ Mk) \cap TuplesOf(ParamsOf(map, D)))
      /\ Cardinality(K \ Mk) \in Nat /\ K \in SUBSET Own(map)
  <2>1. CountedTo(counts, map, C, K, Mk) /\ K \in SUBSET TuplesOf(ParamsOf(map, C))
    BY DEF CountedTo
  <2> HIDE DEF K, counts
  <2>2. QED
    BY <2>1, CountOne, ZenonT(30)
<1>5. cov \in SUBSET Nat /\ val \in SUBSET Nat /\ n \in Nat
  <2>1. Place(map, u) \in 0 .. TotalNumTuples(map) - 1
    BY <1>1, <1>2, PlaceFacts
  <2>2. Place(map, u) \in Nat
    BY <2>1
  <2>3. map.covered \in SUBSET Nat /\ map.valid \in SUBSET Nat /\ map.newly \in Nat
    BY <1>1 DEF IsMapRecord
  <2>4. QED
    BY <2>2, <2>3
<1>6. other = Updated(map, cov, val, counts, n)
  <2> DEFINE N == 0 .. Cardinality(Combinations(map)) - 1
  <2>1. map \in [params : Seq(Params), strength : Nat,
                 E : {TupleCounts(map.params, map.strength)},
                 covered : SUBSET Nat, valid : SUBSET Nat, numCovered : [N -> Nat], newly : Nat]
    BY <1>1 DEF IsMapRecord
  <2>2. other = [map EXCEPT !.covered = @ \cup {Place(map, u)},
                            !.numCovered[Rank(map, C)] = @ + 1,
                            !.newly = @ + 1]
    BY <1>2 DEF SetCovered
  <2>3. counts = [map.numCovered EXCEPT ![Rank(map, C)] = @ + 1]
    BY <1>3
  <2> HIDE DEF counts, N
  <2>4. other = [map EXCEPT !.covered = cov, !.numCovered = counts, !.newly = n]
    BY <2>1, <2>2, <2>3
  <2> HIDE DEF other, cov, n
  <2>5. QED
    BY <2>1, <2>4 DEF Updated
<1> HIDE DEF cov, val, counts, n, other, K
<1>7. /\ IsMapRecord(other)
      /\ other.params = map.params /\ other.strength = map.strength /\ other.E = map.E
      /\ other.covered = cov /\ other.valid = val /\ other.numCovered = counts
      /\ other.newly = n
  BY <1>4, <1>5, <1>6, UpdatedFields
<1>8. IsMarkedMore(other, map, Mk, K, {})
  <2>1. cov = map.covered \cup {Place(map, w) : w \in K} /\ n = map.newly + Cardinality(K \ Mk)
    BY <1>3 DEF cov, n, K
  <2>2. val = map.valid \cup {Place(map, w) : w \in {}}
    BY DEF val
  <2>3. QED
    BY <1>4, <1>7, <2>1, <2>2 DEF IsMarkedMore
<1>9. Reflects(other, Mk \cup K, Vd \cup {})
  BY <1>4, <1>8, MarkMore
<1>10. Vd \cup {} = Vd
  OBVIOUS
<1>11. QED
  BY <1>7, <1>9, <1>10 DEF other, K

\* All tuples of a combination are covered when its counter says so.
LEMMA AllCoveredIff ==
    ASSUME NEW map, NEW Mk, NEW Vd, Reflects(map, Mk, Vd), NEW C \in Combinations(map),
           AllCovered(map, C)
    PROVE  TuplesOf(ParamsOf(map, C)) \in SUBSET Mk
<1> DEFINE T == TuplesOf(ParamsOf(map, C))
<1>1. IsFiniteSet(T)
  <2>1. IsFiniteSet(Own(map)) /\ T \in SUBSET Own(map)
    BY PlaceFacts DEF Reflects
  <2>2. QED
    BY <2>1, FS_Subset
<1>2. Cardinality(Mk \cap T) = Cardinality(T)
  BY DEF Reflects, AllCovered, ComboSize
<1>3. Mk \cap T = T
  <2>1. Mk \cap T \in SUBSET T
    OBVIOUS
  <2> HIDE DEF T
  <2>2. QED
    BY <1>1, <1>2, <2>1, FS_Subset
<1>4. QED
  BY <1>3

\* A new map: nothing is covered, nothing valid (coverage_map.cpp:38-151).
THEOREM NewMapReflects ==
    ASSUME NEW params \in Seq(Params), Len(params) \in 1 .. NumUsed,
           \A i, j \in 1 .. Len(params) : i < j => params[i] < params[j],
           NEW t \in 1 .. Len(params)
    PROVE  LET map == NewCoverageMap(params, t)
           IN /\ Reflects(map, {}, {})
              /\ map.params = params /\ map.strength = t /\ map.E = TupleCounts(params, t)
<1> DEFINE E == TupleCounts(params, t)
           bare == [params |-> params, strength |-> t, E |-> E]
           N == 0 .. Cardinality(Combinations(bare)) - 1
           counts == [k \in N |-> 0]
           map == [params |-> params, strength |-> t, E |-> E, covered |-> {}, valid |-> {},
                   numCovered |-> counts, newly |-> 0]
<1>1. NewCoverageMap(params, t) = map
  BY DEF NewCoverageMap
<1>2. map.params = params /\ map.strength = t /\ map.E = E
      /\ bare.params = params /\ bare.strength = t /\ bare.E = E
  OBVIOUS
<1>3. t \in Nat /\ Len(params) \in Nat
  BY UsedFacts
<1>4. IsMap(map)
  BY <1>2 DEF IsMap
<1>5. Combinations(map) = Combinations(bare)
  <2> HIDE DEF map, bare
  <2>1. QED
    BY <1>2, SameLayout
<1>6. IsMapRecord(map)
  <2>1. counts \in [N -> Nat]
    OBVIOUS
  <2>2. map \in [params : Seq(Params), strength : Nat, E : {E},
                 covered : SUBSET Nat, valid : SUBSET Nat, numCovered : [N -> Nat], newly : Nat]
    <3> HIDE DEF counts, N, E
    <3>1. QED
      BY <1>3, <2>1
  <2> HIDE DEF map, bare
  <2>3. QED
    BY <1>2, <1>5, <2>2 DEF IsMapRecord
<1>7. \A C \in Combinations(map) : map.numCovered[Rank(map, C)] = 0
  <2>1. map.numCovered = counts
    OBVIOUS
  <2>2. \A C \in Combinations(map) : Rank(map, C) \in N
    <3>1. \A C \in Combinations(map) : Rank(map, C) \in 0 .. Cardinality(Combinations(map)) - 1
      <4> HIDE DEF map
      <4>1. QED
        BY <1>4, RankIsPlace
    <3> HIDE DEF map
    <3>2. QED
      BY <1>5, <3>1
  <2> HIDE DEF map, N
  <2>3. QED
    BY <2>1, <2>2
<1>8. Cardinality({}) = 0 /\ \A T : {} \cap T = {}
  BY FS_EmptySet
<1>9. map.covered = {} /\ map.valid = {} /\ map.newly = 0
  OBVIOUS
<1>10. Reflects(map, {}, {})
  <2> HIDE DEF map
  <2>1. map.covered = {Place(map, u) : u \in {}}
    BY <1>9
  <2>2. QED
    BY <1>4, <1>6, <1>7, <1>8, <1>9, <2>1 DEF Reflects
<1>11. QED
  BY <1>1, <1>2, <1>10

-------------------------------------------------------------------------------
(* The operations on rows *)

\* The place of the first bit of a word of a row, for a value of the last parameter.
WordPlace(map, test, rw, v) ==
    Row(map, test, rw[1]).base + v * TuplesPerValue(map) + rw[2]

WordBitsOf(map, test, rw) == TestWord(map, test, Row(map, test, rw[1]), rw[2])

NewBits(map, test, rw, v) ==
    WordBitsOf(map, test, rw) \ LoadBits(map.covered, WordPlace(map, test, rw, v))

\* The bits of a word that are new are those of tuples that are not yet covered.
LEMMA NewBitIff ==
    ASSUME NEW map, NEW Mk, NEW Vd, Reflects(map, Mk, Vd), NumEarlier(map) >= 1,
           NEW test \in PartialTests, NEW v \in LastDomain(map), NEW C \in Reached(map, test)
    PROVE  LET rw == WordOf(map, test, C)
               b == BitOf(map, test, C)
               u == TupleAt(map, test, v, C)
           IN /\ rw \in RowWords(map, test) /\ b \in WordBitsOf(map, test, rw)
              /\ WordPlace(map, test, rw, v) + b = Place(map, u)
              /\ b \in NewBits(map, test, rw, v) <=> u \notin Mk
<1> DEFINE rw == WordOf(map, test, C)
           b == BitOf(map, test, C)
           u == TupleAt(map, test, v, C)
           at == WordPlace(map, test, rw, v)
<1>1. IsMap(map) /\ map.covered \in SUBSET Nat
  BY DEF Reflects, IsMapRecord
<1>2. rw \in RowWords(map, test) /\ b \in WordBitsOf(map, test, rw)
  BY <1>1, BitOfCombination DEF WordBitsOf
<1>3. at \in Nat /\ WordBitsOf(map, test, rw) \in SUBSET (0 .. WordBits - 1)
  <2> HIDE DEF rw
  <2>1. QED
    BY <1>1, <1>2, RowBaseType DEF WordPlace, WordBitsOf
<1>4. at + b = Place(map, u)
  <2>1. at + b = PhysicalIndex(map, C, u)
    BY <1>1, PlaceOfBit DEF WordPlace
  <2>2. CombinationOf(map, DOMAIN u) = C
    BY <1>1, HitTuple
  <2>3. QED
    BY <2>1, <2>2 DEF Place
<1>5. u \in Own(map)
  BY <1>1, HitTuple
<1> HIDE DEF rw, b, u, at
<1>6. b \in LoadBits(map.covered, at) <=> at + b \in map.covered
  BY <1>1, <1>2, <1>3, LoadBitsExact
<1>7. at + b \in map.covered <=> u \in Mk
  BY <1>4, <1>5, CoveredIff
<1>8. b \in NewBits(map, test, rw, v) <=> u \notin Mk
  BY <1>2, <1>6, <1>7 DEF NewBits, at
<1>9. QED
  BY <1>2, <1>4, <1>8 DEF rw, b, u, at

\* A map of strength 1 has the values of its only parameter.
LEMMA StrengthOne ==
    ASSUME NEW map, IsMap(map), map.strength = 1, NEW test \in PartialTests,
           NEW v \in LastDomain(map)
    PROVE  /\ Combinations(map) = {{}} /\ Reached(map, test) = {{}}
           /\ Rank(map, {}) = 0
           /\ Place(map, TupleAt(map, test, v, {})) = v
           /\ Cardinality(Combinations(map)) = 1
<1>1. NumEarlier(map) = 0 /\ LastPosition(map) \in Nat
  BY MapFacts DEF NumEarlier
<1>2. Combinations(map) = {{}}
  <2>1. \A C \in SUBSET Earlier(map) : Cardinality(C) = 0 <=> C = {}
    <3>1. TAKE C \in SUBSET Earlier(map)
    <3>2. C \in SUBSET (0 .. LastPosition(map) - 1)
      BY MapFacts
    <3>3. IsFiniteSet(C)
      <4> DEFINE m == LastPosition(map)
      <4>1. m \in Nat /\ C \in SUBSET (0 .. m - 1)
        BY <1>1, <3>2
      <4> HIDE DEF m
      <4>2. QED
        BY <4>1, PositionsFinite
    <3>4. QED
      BY <3>3, FS_EmptySet
  <2>2. Combinations(map) = {C \in SUBSET Earlier(map) : Cardinality(C) = 0}
    BY <1>1 DEF Combinations, kSubset
  <2>3. QED
    BY <2>1, <2>2
<1>3. Reached(map, test) = {{}}
  BY <1>2 DEF Reached
<1>4. Rank(map, {}) = 0
  BY FS_EmptySet, SumByFirst DEF Rank, SumFunction
<1>5. Place(map, TupleAt(map, test, v, {})) = v
  <2> DEFINE u == TupleAt(map, test, v, {})
  <2>1. /\ u \in TuplesOf(ParamsOf(map, {})) /\ CombinationOf(map, DOMAIN u) = {}
        /\ u[LastParam(map)] = v
    BY <1>3, HitTuple
  <2> HIDE DEF u
  <2>2. PhysicalIndex(map, {}, u) = u[LastParam(map)] * TuplesPerValue(map)
                                         + Index(map.E, ValuesAt(map, {}, u), {})
        /\ u[LastParam(map)] \in Nat
    BY <1>2, <2>1, PlaceOfTuple
  <2>3. Index(map.E, ValuesAt(map, {}, u), {}) = 0
    BY IndexOfNothing
  <2>4. TuplesPerValue(map) = 1
    <3>1. \A j \in 0 .. LastPosition(map) : map.E[0][j] = 1
      BY Layout DEF IsTable
    <3>2. QED
      BY <1>1, <3>1 DEF TuplesPerValue
  <2>5. PhysicalIndex(map, {}, u) = v
    BY <2>1, <2>2, <2>3, <2>4
  <2>6. Place(map, u) = v
    BY <2>1, <2>5 DEF Place
  <2>7. QED
    BY <2>6 DEF u
<1>6. Cardinality(Combinations(map)) = 1
  BY <1>2, FS_Singleton
<1>7. QED
  BY <1>2, <1>3, <1>4, <1>5, <1>6

\* The tuples of a test are as many as their combinations.
LEMMA HitCount ==
    ASSUME NEW map, IsMap(map), NEW test \in PartialTests, NEW v \in LastDomain(map),
           NEW S \in SUBSET Reached(map, test)
    PROVE  Cardinality({TupleAt(map, test, v, C) : C \in S}) = Cardinality(S)
<1> DEFINE f == [C \in S |-> TupleAt(map, test, v, C)]
<1>1. IsFiniteSet(S)
  <2>1. S \in SUBSET Combinations(map)
    BY DEF Reached
  <2>2. QED
    BY <2>1, RowsFinite, FS_Subset
<1>2. \A C, D \in S : f[C] = f[D] => C = D
  <2>1. \A C \in S : CombinationOf(map, DOMAIN f[C]) = C
    BY HitTuple
  <2> HIDE DEF f
  <2>2. QED
    BY <2>1
<1>3. DOMAIN f = S /\ {f[C] : C \in S} = {TupleAt(map, test, v, C) : C \in S}
  OBVIOUS
<1> HIDE DEF f
<1>4. Cardinality({f[C] : C \in S}) = Cardinality(S)
  BY <1>1, <1>2, <1>3, SameCount
<1>5. QED
  BY <1>3, <1>4

\* add_gains: a gain is the number of tuples that would be covered newly
\* (coverage_map.cpp:212-249).
THEOREM GainReflects ==
    ASSUME NEW map, NEW Mk, NEW Vd, Reflects(map, Mk, Vd),
           NEW test \in PartialTests, NEW v \in LastDomain(map)
    PROVE  AddedGain(map, test, v) = Cardinality(Hit(map, test, v) \ Mk)
<1>1. IsMap(map) /\ map.strength = NumEarlier(map) + 1 /\ NumEarlier(map) \in Nat
  <2>1. IsMap(map)
    BY DEF Reflects
  <2>2. NumEarlier(map) \in 0 .. LastPosition(map) /\ map.strength = NumEarlier(map) + 1
    BY <2>1, MapFacts
  <2>3. QED
    BY <2>1, <2>2
<1>2. CASE map.strength = 1
  <2> DEFINE u == TupleAt(map, test, v, {})
  <2>1. Reached(map, test) = {{}} /\ Place(map, u) = v
    BY <1>1, <1>2, StrengthOne
  <2>2. Hit(map, test, v) = {u}
    BY <2>1 DEF Hit
  <2>3. u \in Own(map)
    BY <1>1, <2>1, HitTuple
  <2> HIDE DEF u
  <2>4. v \in map.covered <=> u \in Mk
    BY <2>1, <2>3, CoveredIff
  <2>5. Cardinality({u}) = 1 /\ Cardinality({}) = 0
    BY FS_Singleton, FS_EmptySet
  <2>6. Hit(map, test, v) \ Mk = IF u \in Mk THEN {} ELSE {u}
    BY <2>2
  <2>7. QED
    BY <1>2, <2>4, <2>5, <2>6 DEF AddedGain
<1>3. CASE map.strength # 1
  <2> DEFINE W == RowWords(map, test)
             sel == [rw \in W |-> NewBits(map, test, rw, v)]
             n == [rw \in W |-> Cardinality(NewBits(map, test, rw, v))]
             S == {C \in Reached(map, test) : BitOf(map, test, C) \in sel[WordOf(map, test, C)]}
  <2>1. NumEarlier(map) >= 1
    BY <1>1, <1>3
  <2>2. AddedGain(map, test, v) = SumFunctionOnSet(n, W)
    <3>1. AddedGain(map, test, v) = SumFunction(n)
      BY <1>3 DEF AddedGain, NewBits, WordBitsOf, WordPlace
    <3>2. QED
      BY <3>1 DEF SumFunction
  <2>3. Selects(map, test, sel, n)
    BY DEF Selects, NewBits, WordBitsOf
  <2>4. SumFunctionOnSet(n, W) = Cardinality(S)
    <3> HIDE DEF n, sel
    <3>1. QED
      BY <1>1, <2>1, <2>3, WordsCount
  <2>5. S = {C \in Reached(map, test) : TupleAt(map, test, v, C) \notin Mk}
    BY <2>1, NewBitIff
  <2> HIDE DEF S
  <2>6. S \in SUBSET Reached(map, test)
    BY <2>5
  <2>7. Hit(map, test, v) \ Mk = {TupleAt(map, test, v, C) : C \in S}
    BY <2>5 DEF Hit
  <2>8. QED
    BY <1>1, <2>2, <2>4, <2>6, <2>7, HitCount
<1>4. QED
  BY <1>2, <1>3

\* What a word of a row adds to an array of bits.
LEMMA WordAdded ==
    ASSUME NEW map, NEW Mk, NEW Vd, Reflects(map, Mk, Vd), NumEarlier(map) >= 1,
           NEW test \in PartialTests, NEW v \in LastDomain(map),
           NEW rw \in RowWords(map, test), NEW sel \in SUBSET WordBitsOf(map, test, rw),
           NEW bits \in SUBSET Nat, NEW x
    PROVE  x \in OrBits(bits, WordPlace(map, test, rw, v), sel) <=>
               \/ x \in bits
               \/ \E C \in Reached(map, test) :
                     /\ WordOf(map, test, C) = rw /\ BitOf(map, test, C) \in sel
                     /\ x = Place(map, TupleAt(map, test, v, C))
<1> DEFINE at == WordPlace(map, test, rw, v)
<1>1. IsMap(map)
  BY DEF Reflects
<1>2. at \in Nat /\ WordBitsOf(map, test, rw) \in SUBSET (0 .. WordBits - 1)
  BY <1>1, RowBaseType DEF WordPlace, WordBitsOf
<1> HIDE DEF at
<1>3. OrBits(bits, at, sel) = bits \cup {at + b : b \in sel}
  <2>1. sel \in SUBSET (0 .. WordBits - 1)
    BY <1>2
  <2>2. QED
    BY <1>2, <2>1, OrBitsExact
<1>4. \A C \in Reached(map, test) : WordOf(map, test, C) = rw =>
          at + BitOf(map, test, C) = Place(map, TupleAt(map, test, v, C))
  BY NewBitIff DEF at
<1>5. \A b \in sel : \E C \in Reached(map, test) :
          WordOf(map, test, C) = rw /\ BitOf(map, test, C) = b
  <2>1. TAKE b \in sel
  <2>2. b \in TestWord(map, test, Row(map, test, rw[1]), rw[2])
    BY DEF WordBitsOf
  <2>3. QED
    BY <1>1, <2>2, CombinationOfBit
<1>6. ASSUME NEW b \in sel, x = at + b
      PROVE  \E C \in Reached(map, test) :
                 /\ WordOf(map, test, C) = rw /\ BitOf(map, test, C) \in sel
                 /\ x = Place(map, TupleAt(map, test, v, C))
  <2>1. PICK C \in Reached(map, test) :
            WordOf(map, test, C) = rw /\ BitOf(map, test, C) = b
    BY <1>5
  <2>2. QED
    BY <1>4, <1>6, <2>1
<1>7. ASSUME NEW C \in Reached(map, test),
             WordOf(map, test, C) = rw /\ BitOf(map, test, C) \in sel,
             x = Place(map, TupleAt(map, test, v, C))
      PROVE  \E b \in sel : x = at + b
  BY <1>4, <1>7
<1>8. QED
  BY <1>3, <1>6, <1>7 DEF at

\* The bits set by cover are those of the tuples that the test has.
SetBits(map, test, c) ==
    map.covered \cup UNION {OrBits(map.covered, WordPlace(map, test, rw, c),
                                   NewBits(map, test, rw, c)) : rw \in RowWords(map, test)}

\* They are the places of those tuples.
LEMMA CoverBits ==
    ASSUME NEW map, NEW Mk, NEW Vd, Reflects(map, Mk, Vd), NumEarlier(map) >= 1,
           NEW test \in PartialTests, NEW c \in LastDomain(map)
    PROVE  SetBits(map, test, c) = map.covered \cup {Place(map, u) : u \in Hit(map, test, c)}
<1> DEFINE W == RowWords(map, test)
           at(rw) == WordPlace(map, test, rw, c)
           new(rw) == NewBits(map, test, rw, c)
           or == [rw \in W |-> OrBits(map.covered, at(rw), new(rw))]
           cov == map.covered \cup UNION {or[rw] : rw \in W}
           goal == map.covered \cup {Place(map, u) : u \in Hit(map, test, c)}
<1>1. map.covered \in SUBSET Nat /\ map.covered = {Place(map, u) : u \in Mk}
  BY DEF Reflects, IsMapRecord
<1>2. \A rw \in W : new(rw) \in SUBSET WordBitsOf(map, test, rw)
  BY DEF NewBits
<1>3. \A rw \in W : \A x : x \in or[rw] <=>
               \/ x \in map.covered
               \/ \E C \in Reached(map, test) :
                     /\ WordOf(map, test, C) = rw /\ BitOf(map, test, C) \in new(rw)
                     /\ x = Place(map, TupleAt(map, test, c, C))
  <2>1. TAKE rw \in W
  <2>2. TAKE x
  <2>3. or[rw] = OrBits(map.covered, WordPlace(map, test, rw, c), new(rw))
    OBVIOUS
  <2>4. new(rw) \in SUBSET WordBitsOf(map, test, rw)
    BY <1>2
  <2> HIDE DEF or, new
  <2>5. QED
    BY <1>1, <2>3, <2>4, WordAdded, SMTT(30)
<1>4. \A C \in Reached(map, test) :
          /\ WordOf(map, test, C) \in W
          /\ BitOf(map, test, C) \in new(WordOf(map, test, C))
                 <=> TupleAt(map, test, c, C) \notin Mk
  BY NewBitIff
<1> HIDE DEF W, or, new
<1>5. \A x : x \in cov => x \in goal
  <2>1. SUFFICES ASSUME NEW x, x \in cov, x \notin map.covered PROVE x \in goal
    OBVIOUS
  <2>2. PICK rw \in W : x \in or[rw]
    BY <2>1
  <2>3. PICK C \in Reached(map, test) : x = Place(map, TupleAt(map, test, c, C))
    BY <1>3, <2>1, <2>2
  <2>4. TupleAt(map, test, c, C) \in Hit(map, test, c)
    BY DEF Hit
  <2>5. QED
    BY <2>3, <2>4
<1>6. \A x : x \in goal => x \in cov
  <2>1. SUFFICES ASSUME NEW u \in Hit(map, test, c), Place(map, u) \notin map.covered
                 PROVE  Place(map, u) \in cov
    OBVIOUS
  <2>2. PICK C \in Reached(map, test) : u = TupleAt(map, test, c, C)
    BY DEF Hit
  <2>3. u \notin Mk
    BY <1>1, <2>1
  <2>4. /\ WordOf(map, test, C) \in W
        /\ BitOf(map, test, C) \in new(WordOf(map, test, C))
    BY <1>4, <2>2, <2>3
  <2>5. Place(map, u) \in or[WordOf(map, test, C)]
    BY <1>3, <2>2, <2>4
  <2>6. QED
    BY <2>4, <2>5
<1>7. cov = goal
  <2> HIDE DEF cov, goal
  <2>1. QED
    BY <1>5, <1>6
<1>8. {or[rw] : rw \in W} =
          {OrBits(map.covered, WordPlace(map, test, rw, c), NewBits(map, test, rw, c)) :
              rw \in RowWords(map, test)}
  BY DEF or, W, new
<1>9. QED
  BY <1>7, <1>8 DEF SetBits

\* What a word of a row adds to the valid bits.
LEMMA ValidAdded ==
    ASSUME NEW map, NEW Mk, NEW Vd, Reflects(map, Mk, Vd), NumEarlier(map) >= 1,
           NEW test \in PartialTests, NEW v \in LastDomain(map),
           NEW rw \in RowWords(map, test), NEW x
    PROVE  x \in OrBits(map.valid, WordPlace(map, test, rw, v), WordBitsOf(map, test, rw)) <=>
               \/ x \in map.valid
               \/ \E C \in Reached(map, test) :
                     /\ WordOf(map, test, C) = rw
                     /\ BitOf(map, test, C) \in WordBitsOf(map, test, rw)
                     /\ x = Place(map, TupleAt(map, test, v, C))
<1>1. map.valid \in SUBSET Nat
  BY DEF Reflects, IsMapRecord
<1>2. PICK sel : sel = WordBitsOf(map, test, rw)
  OBVIOUS
<1>3. sel \in SUBSET WordBitsOf(map, test, rw)
  BY <1>2
<1>4. x \in OrBits(map.valid, WordPlace(map, test, rw, v), sel) <=>
               \/ x \in map.valid
               \/ \E C \in Reached(map, test) :
                     /\ WordOf(map, test, C) = rw /\ BitOf(map, test, C) \in sel
                     /\ x = Place(map, TupleAt(map, test, v, C))
  BY <1>1, <1>3, WordAdded
<1>5. QED
  BY <1>2, <1>4

\* The bits marked valid by cover are those of the tuples that the test would have.
SetValid(map, test, vals) ==
    map.valid \cup UNION {OrBits(map.valid, WordPlace(map, test, rw, v),
                                 WordBitsOf(map, test, rw)) :
                              rw \in RowWords(map, test), v \in vals}

\* They are the places of those tuples.
LEMMA CoverValid ==
    ASSUME NEW map, NEW Mk, NEW Vd, Reflects(map, Mk, Vd), NumEarlier(map) >= 1,
           NEW test \in PartialTests, NEW vals \in SUBSET LastDomain(map)
    PROVE  SetValid(map, test, vals) =
               map.valid \cup {Place(map, u) : u \in UNION {Hit(map, test, v) : v \in vals}}
<1> DEFINE W == RowWords(map, test)
           or(rw, v) == OrBits(map.valid, WordPlace(map, test, rw, v), WordBitsOf(map, test, rw))
           val == map.valid \cup UNION {or(rw, v) : rw \in W, v \in vals}
           hits == UNION {Hit(map, test, v) : v \in vals}
           goal == map.valid \cup {Place(map, u) : u \in hits}
<1>1. map.valid \in SUBSET Nat
  BY DEF Reflects, IsMapRecord
<1>3. \A rw \in W, v \in vals : \A x : x \in or(rw, v) <=>
               \/ x \in map.valid
               \/ \E C \in Reached(map, test) :
                     /\ WordOf(map, test, C) = rw
                     /\ BitOf(map, test, C) \in WordBitsOf(map, test, rw)
                     /\ x = Place(map, TupleAt(map, test, v, C))
  <2>1. TAKE rw \in W, v \in vals
  <2>2. TAKE x
  <2>3. v \in LastDomain(map)
    OBVIOUS
  <2>4. QED
    BY <2>3, ValidAdded
<1>4. \A C \in Reached(map, test) : \A v \in vals :
          /\ WordOf(map, test, C) \in W
          /\ BitOf(map, test, C) \in WordBitsOf(map, test, WordOf(map, test, C))
  BY NewBitIff
<1> HIDE DEF W, or
<1>5. \A x : x \in val => x \in goal
  <2>1. SUFFICES ASSUME NEW x, x \in val, x \notin map.valid PROVE x \in goal
    OBVIOUS
  <2>2. PICK rw \in W, v \in vals : x \in or(rw, v)
    BY <2>1
  <2>3. PICK C \in Reached(map, test) : x = Place(map, TupleAt(map, test, v, C))
    BY <1>3, <2>1, <2>2
  <2>4. TupleAt(map, test, v, C) \in hits
    BY <2>2 DEF Hit
  <2>5. QED
    BY <2>3, <2>4
<1>6. \A x : x \in goal => x \in val
  <2>1. SUFFICES ASSUME NEW u \in hits
                 PROVE  Place(map, u) \in val
    OBVIOUS
  <2>2. PICK v \in vals : u \in Hit(map, test, v)
    OBVIOUS
  <2>3. PICK C \in Reached(map, test) : u = TupleAt(map, test, v, C)
    BY <2>2 DEF Hit
  <2>4. Place(map, u) \in or(WordOf(map, test, C), v) /\ WordOf(map, test, C) \in W
    BY <1>3, <1>4, <2>2, <2>3
  <2>5. QED
    BY <2>2, <2>4
<1>7. val = goal
  <2> HIDE DEF val, goal
  <2>1. QED
    BY <1>5, <1>6
<1>8. QED
  BY <1>7 DEF or, W, SetValid

\* The newly covered tuples of a test that are counted to index k.
CountedNew(map, test, c, k) ==
    SumFunction([rw \in RowWords(map, test) |->
        Cardinality({b \in NewBits(map, test, rw, c) :
            Row(map, test, rw[1]).rank - SlotPosition(map, rw[2] + b) = k})])

\* The counters are raised by the tuples of their combinations that are newly covered.
LEMMA CoverCounts ==
    ASSUME NEW map, NEW Mk, NEW Vd, Reflects(map, Mk, Vd), NumEarlier(map) >= 1,
           NEW test \in PartialTests, NEW c \in LastDomain(map)
    PROVE  /\ \A k : CountedNew(map, test, c, k) \in Nat
           /\ \A D \in Combinations(map) : CountedNew(map, test, c, Rank(map, D))
                  = Cardinality((Hit(map, test, c) \ Mk) \cap TuplesOf(ParamsOf(map, D)))
<1> DEFINE W == RowWords(map, test)
           word(C) == WordOf(map, test, C)
           bit(C) == BitOf(map, test, C)
           tuple(C) == TupleAt(map, test, c, C)
           at(rw, b) == Row(map, test, rw[1]).rank - SlotPosition(map, rw[2] + b)
           chosen(k) == {C \in Reached(map, test) : tuple(C) \notin Mk /\ Rank(map, C) = k}
<1>1. IsMap(map)
  BY DEF Reflects
<1>2. ASSUME NEW k
      PROVE  CountedNew(map, test, c, k) = Cardinality(chosen(k)) /\ IsFiniteSet(chosen(k))
  <2> DEFINE sel == [rw \in W |-> {b \in NewBits(map, test, rw, c) : at(rw, b) = k}]
             n == [rw \in W |-> Cardinality(sel[rw])]
             S == {C \in Reached(map, test) : BitOf(map, test, C) \in sel[WordOf(map, test, C)]}
  <2>1. CountedNew(map, test, c, k) = SumFunctionOnSet(n, W)
    <3>1. n = [rw \in W |-> Cardinality({b \in NewBits(map, test, rw, c) : at(rw, b) = k})]
      OBVIOUS
    <3>2. CountedNew(map, test, c, k) = SumFunction(n)
      BY <3>1 DEF CountedNew
    <3>3. QED
      BY <3>2 DEF SumFunction
  <2>2. Selects(map, test, sel, n)
    BY DEF Selects, NewBits, WordBitsOf
  <2>3. SumFunctionOnSet(n, W) = Cardinality(S) /\ IsFiniteSet(S)
    <3> HIDE DEF n, sel, chosen, at, bit, word, tuple
    <3>1. QED
      BY <1>1, <2>2, WordsCount
  <2>4. ASSUME NEW C \in Reached(map, test)
        PROVE  bit(C) \in sel[word(C)] <=> tuple(C) \notin Mk /\ Rank(map, C) = k
    <3>1. word(C) \in W /\ (bit(C) \in NewBits(map, test, word(C), c) <=> tuple(C) \notin Mk)
      BY NewBitIff
    <3>2. at(word(C), bit(C)) = Rank(map, C)
      BY <1>1, PlaceOfBit
    <3>3. bit(C) \in sel[word(C)] <=>
              bit(C) \in NewBits(map, test, word(C), c) /\ at(word(C), bit(C)) = k
      BY <3>1
    <3> HIDE DEF bit, word, tuple, at, sel
    <3>4. QED
      BY <3>1, <3>2, <3>3
  <2>5. S = chosen(k)
    <3> HIDE DEF tuple, sel
    <3>1. QED
      BY <2>4
  <2>6. QED
    BY <2>1, <2>3, <2>5
<1>3. \A k : CountedNew(map, test, c, k) \in Nat
  BY <1>2, FS_CardinalityType
<1>4. ASSUME NEW D \in Combinations(map)
      PROVE  Cardinality(chosen(Rank(map, D)))
                 = Cardinality((Hit(map, test, c) \ Mk) \cap TuplesOf(ParamsOf(map, D)))
  <2>1. \A C \in Reached(map, test) : Rank(map, C) = Rank(map, D) <=> C = D
    <3>1. \A C \in Reached(map, test) : C \in Combinations(map)
      BY DEF Reached
    <3>2. QED
      BY <1>1, <3>1, RankIsPlace
  <2>2. \A C \in Reached(map, test) : tuple(C) \in TuplesOf(ParamsOf(map, D)) <=> C = D
    <3>1. TAKE C \in Reached(map, test)
    <3>2. tuple(C) \in TuplesOf(ParamsOf(map, C)) /\ C \in Combinations(map)
      BY <1>1, HitTuple DEF Reached
    <3>3. C # D => TuplesOf(ParamsOf(map, C)) \cap TuplesOf(ParamsOf(map, D)) = {}
      BY <1>1, <3>2, PlaceFacts
    <3>4. QED
      BY <3>2, <3>3
  <2> DEFINE S == chosen(Rank(map, D))
  <2>3. (Hit(map, test, c) \ Mk) \cap TuplesOf(ParamsOf(map, D)) = {tuple(C) : C \in S}
    <3>1. Hit(map, test, c) = {tuple(C) : C \in Reached(map, test)}
      BY DEF Hit
    <3>2. \A C \in Reached(map, test) :
              C \in S <=> tuple(C) \notin Mk /\ tuple(C) \in TuplesOf(ParamsOf(map, D))
      BY <2>1, <2>2
    <3>3. \A C \in S : C \in Reached(map, test)
      OBVIOUS
    <3> HIDE DEF S, tuple
    <3>4. QED
      BY <3>1, <3>2, <3>3
  <2>4. S \in SUBSET Reached(map, test)
    OBVIOUS
  <2> HIDE DEF S
  <2>5. Cardinality({TupleAt(map, test, c, C) : C \in S}) = Cardinality(S)
    BY <1>1, <2>4, HitCount
  <2>6. QED
    BY <2>3, <2>5 DEF S
<1>5. QED
  BY <1>2, <1>3, <1>4

\* What is marked valid does not matter for covered tuples.
LEMMA ReflectsUpTo ==
    ASSUME NEW map, NEW Mk, NEW Vd, Reflects(map, Mk, Vd),
           NEW Wd, \A u \in Own(map) \ Mk : u \in Vd <=> u \in Wd
    PROVE  Reflects(map, Mk, Wd)
BY DEF Reflects

\* A map where the tuples K were covered and the tuples V marked valid.
IsUpdate(other, map, Mk, K, V) ==
    \E counts \in [0 .. Cardinality(Combinations(map)) - 1 -> Nat] :
        /\ \A D \in Combinations(map) : counts[Rank(map, D)] = map.numCovered[Rank(map, D)]
                      + Cardinality((K \ Mk) \cap TuplesOf(ParamsOf(map, D)))
        /\ other = Updated(map, map.covered \cup {Place(map, u) : u \in K},
                           map.valid \cup {Place(map, u) : u \in V}, counts,
                           map.newly + Cardinality(K \ Mk))

\* A map updated so says what it said before, and that K is covered and V valid.
LEMMA UpdateReflects ==
    ASSUME NEW map, NEW Mk, NEW Vd, Reflects(map, Mk, Vd),
           NEW K \in SUBSET Own(map), NEW V \in SUBSET Own(map),
           NEW other, IsUpdate(other, map, Mk, K, V)
    PROVE  /\ Reflects(other, Mk \cup K, Vd \cup V)
           /\ other.params = map.params /\ other.strength = map.strength /\ other.E = map.E
<1> DEFINE cov == map.covered \cup {Place(map, u) : u \in K}
           val == map.valid \cup {Place(map, u) : u \in V}
           n == map.newly + Cardinality(K \ Mk)
           N == 0 .. Cardinality(Combinations(map)) - 1
<1>1. IsMap(map) /\ map.covered \in SUBSET Nat /\ map.valid \in SUBSET Nat /\ map.newly \in Nat
  BY DEF Reflects, IsMapRecord
<1>2. \A u \in Own(map) : Place(map, u) \in Nat
  <2>1. \A u \in Own(map) : Place(map, u) \in 0 .. TotalNumTuples(map) - 1
    BY <1>1, PlaceFacts
  <2>2. QED
    BY <2>1
<1>3. cov \in SUBSET Nat /\ val \in SUBSET Nat
  BY <1>1, <1>2
<1>4. n \in Nat
  <2>1. IsFiniteSet(Own(map)) /\ K \ Mk \in SUBSET Own(map)
    BY <1>1, PlaceFacts
  <2>2. IsFiniteSet(K \ Mk)
    BY <2>1, FS_Subset
  <2>3. QED
    BY <1>1, <2>2, FS_CardinalityType
<1>5. PICK counts \in [N -> Nat] :
        /\ \A D \in Combinations(map) : counts[Rank(map, D)] = map.numCovered[Rank(map, D)]
                      + Cardinality((K \ Mk) \cap TuplesOf(ParamsOf(map, D)))
        /\ other = Updated(map, cov, val, counts, n)
  BY DEF IsUpdate
<1> HIDE DEF cov, val, n
<1>6. /\ IsMapRecord(other)
      /\ other.params = map.params /\ other.strength = map.strength /\ other.E = map.E
      /\ other.covered = cov /\ other.valid = val /\ other.numCovered = counts
      /\ other.newly = n
  BY <1>3, <1>4, <1>5, UpdatedFields
<1>7. IsMarkedMore(other, map, Mk, K, V)
  BY <1>5, <1>6 DEF IsMarkedMore, cov, val, n
<1>8. QED
  BY <1>6, <1>7, MarkMore

\* cover: the tuples the test has are covered, those it would have with another valid value
\* are valid, whatever strength the map has (coverage_map.cpp:251-310).
THEOREM CoverReflects ==
    ASSUME NEW map, NEW Mk, NEW Vd, Reflects(map, Mk, Vd), NEW test \in PartialTests,
           NEW vals \in SUBSET LastDomain(map), NEW c \in vals
    PROVE  LET other == Cover(map, test, c, vals)
           IN /\ Reflects(other, Mk \cup Hit(map, test, c),
                          Vd \cup UNION {Hit(map, test, v) : v \in vals})
              /\ other.params = map.params /\ other.strength = map.strength /\ other.E = map.E
<1> DEFINE other == Cover(map, test, c, vals)
           K == Hit(map, test, c)
           all == UNION {Hit(map, test, v) : v \in vals}
           N == 0 .. Cardinality(Combinations(map)) - 1
           cov == map.covered \cup {Place(map, u) : u \in K}
           n == map.newly + Cardinality(K \ Mk)
<1>1. IsMap(map) /\ IsMapRecord(map) /\ c \in LastDomain(map)
  BY DEF Reflects
<1>2. map.strength = NumEarlier(map) + 1 /\ NumEarlier(map) \in Nat
  <2>1. NumEarlier(map) \in 0 .. LastPosition(map) /\ map.strength = NumEarlier(map) + 1
    BY <1>1, MapFacts
  <2>2. QED
    BY <2>1
<1>3. \A v \in vals : Hit(map, test, v) \in SUBSET Own(map)
  <2>1. \A v \in vals : \A C \in Reached(map, test) : TupleAt(map, test, v, C) \in Own(map)
    BY <1>1, HitTuple
  <2>2. QED
    BY <2>1 DEF Hit
<1>4. K \in SUBSET Own(map) /\ all \in SUBSET Own(map)
  BY <1>3
<1>6. /\ map \in [params : Seq(Params), strength : Nat,
                  E : {TupleCounts(map.params, map.strength)},
                  covered : SUBSET Nat, valid : SUBSET Nat, numCovered : [N -> Nat], newly : Nat]
      /\ map.covered \in SUBSET Nat /\ map.valid \in SUBSET Nat
      /\ map.numCovered \in [N -> Nat] /\ map.newly \in Nat
  BY <1>1 DEF IsMapRecord
<1>9. AddedGain(map, test, c) = Cardinality(K \ Mk)
  BY <1>1, GainReflects
<1>11. CASE map.strength = 1
  <2> DEFINE counts == [map.numCovered EXCEPT ![0] = @ + Cardinality(K \ Mk)]
             g == IF c \in map.covered THEN 0 ELSE 1
             D == {}
  <2>1. /\ Combinations(map) = {{}} /\ Reached(map, test) = {{}} /\ Rank(map, {}) = 0
        /\ Cardinality(Combinations(map)) = 1
        /\ \A v \in vals : Place(map, TupleAt(map, test, v, {})) = v
    BY <1>1, <1>11, StrengthOne
  <2>2. \A v \in vals : Hit(map, test, v) = {TupleAt(map, test, v, {})}
    BY <2>1 DEF Hit
  <2>3. {Place(map, u) : u \in all} = vals /\ {Place(map, u) : u \in K} = {c}
    <3>1. all = {TupleAt(map, test, v, {}) : v \in vals}
      BY <2>2
    <3>2. QED
      BY <2>1, <2>2, <3>1
  <2>4. g = Cardinality(K \ Mk)
    BY <1>9, <1>11 DEF AddedGain
  <2>5. CountedTo(counts, map, {}, K, Mk)
    BY <2>1 DEF CountedTo
  <2>6. K \in SUBSET TuplesOf(ParamsOf(map, {}))
    <3>1. TupleAt(map, test, c, {}) \in TuplesOf(ParamsOf(map, {}))
      BY <1>1, <2>1, HitTuple
    <3>2. QED
      BY <2>2, <3>1
  <2>7. /\ counts \in [0 .. Cardinality(Combinations(map)) - 1 -> Nat]
        /\ \A F \in Combinations(map) :
             counts[Rank(map, F)] = map.numCovered[Rank(map, F)]
                 + Cardinality((K \ Mk) \cap TuplesOf(ParamsOf(map, F)))
        /\ Cardinality(K \ Mk) \in Nat /\ K \in SUBSET Own(map)
    <3>1. D \in Combinations(map) /\ K \in SUBSET TuplesOf(ParamsOf(map, D))
          /\ CountedTo(counts, map, D, K, Mk)
      BY <2>1, <2>5, <2>6
    <3> HIDE DEF K, counts, D
    <3>2. QED
      BY <3>1, CountOne, ZenonT(30)
  <2>8. other = Updated(map, cov, map.valid \cup {Place(map, u) : u \in all}, counts, n)
    <3> DEFINE val == map.valid \cup vals
    <3>1. other = [map EXCEPT !.covered = @ \cup {c}, !.valid = @ \cup vals,
                              !.numCovered[0] = @ + g, !.newly = @ + g]
      BY <1>11 DEF Cover
    <3>2. cov = map.covered \cup {c} /\ n = map.newly + g
          /\ counts = [map.numCovered EXCEPT ![0] = @ + g]
          /\ map.valid \cup {Place(map, u) : u \in all} = val
      BY <2>3, <2>4
    <3> HIDE DEF other, cov, n, counts, g, all, K
    <3>3. other = Updated(map, cov, val, counts, n)
      BY <1>6, <3>1, <3>2 DEF Updated
    <3>4. QED
      BY <3>2, <3>3
  <2> HIDE DEF other, counts, g, all, K
  <2>9. IsUpdate(other, map, Mk, K, all)
    BY <2>7, <2>8 DEF IsUpdate
  <2>10. Reflects(other, Mk \cup K, Vd \cup all)
        /\ other.params = map.params /\ other.strength = map.strength /\ other.E = map.E
    BY <1>4, <2>9, UpdateReflects
  <2>11. QED
    BY <2>10 DEF other, K, all
<1>12. CASE map.strength # 1
  <2> DEFINE W == RowWords(map, test)
             rest == vals \ {c}
             V == UNION {Hit(map, test, v) : v \in rest}
             counts == [k \in N |-> map.numCovered[k] + CountedNew(map, test, c, k)]
             val == map.valid \cup {Place(map, u) : u \in V}
  <2>1. NumEarlier(map) >= 1
    BY <1>2, <1>12
  <2>2. /\ \A k : CountedNew(map, test, c, k) \in Nat
        /\ \A D \in Combinations(map) : CountedNew(map, test, c, Rank(map, D))
               = Cardinality((K \ Mk) \cap TuplesOf(ParamsOf(map, D)))
    BY <1>1, <2>1, CoverCounts
  <2>3. counts \in [N -> Nat]
    <3> HIDE DEF N
    <3>1. \A k \in N : map.numCovered[k] + CountedNew(map, test, c, k) \in Nat
      BY <1>6, <2>2
    <3>2. QED
      BY <3>1
  <2>4. \A D \in Combinations(map) : counts[Rank(map, D)] = map.numCovered[Rank(map, D)]
                      + Cardinality((K \ Mk) \cap TuplesOf(ParamsOf(map, D)))
    <3>1. \A D \in Combinations(map) : Rank(map, D) \in N
      BY <1>1, RankIsPlace
    <3> HIDE DEF N, K
    <3>2. QED
      BY <2>2, <3>1
  <2>5. V \in SUBSET all /\ all \in SUBSET (K \cup V)
    OBVIOUS
  <2>6. cov = SetBits(map, test, c)
    BY <1>1, <2>1, CoverBits
  <2>7. val = SetValid(map, test, rest)
    <3>1. rest \in SUBSET LastDomain(map)
      OBVIOUS
    <3> HIDE DEF rest
    <3>2. QED
      BY <1>1, <2>1, <3>1, CoverValid
  <2>8. n = map.newly + SumFunction([rw \in W |-> Cardinality(NewBits(map, test, rw, c))])
    BY <1>9, <1>12 DEF AddedGain, NewBits, WordBitsOf, WordPlace
  <2>9. DOMAIN map.numCovered = N
    BY <1>6
  <2>10. other = Updated(map, cov, val, counts, n)
    <3> DEFINE row(rw) == Row(map, test, rw[1])
               at(rw, v) == row(rw).base + v * TuplesPerValue(map) + rw[2]
               bits(rw) == TestWord(map, test, row(rw), rw[2])
               new == [rw \in W |-> bits(rw) \ LoadBits(map.covered, at(rw, c))]
               combo(rw, b) == row(rw).rank - SlotPosition(map, rw[2] + b)
               numNew == SumFunction([rw \in W |-> Cardinality(new[rw])])
    <3>1. other = [map EXCEPT
                !.covered = @ \cup UNION {OrBits(@, at(rw, c), new[rw]) : rw \in W},
                !.valid = @ \cup UNION {OrBits(@, at(rw, v), bits(rw)) : rw \in W, v \in rest},
                !.numCovered = [k \in DOMAIN @ |-> @[k] +
                    SumFunction([rw \in W |-> Cardinality({b \in new[rw] : combo(rw, b) = k})])],
                !.newly = @ + numNew]
      BY <1>12 DEF Cover
    <3>2. \A rw \in W : new[rw] = NewBits(map, test, rw, c)
      BY DEF NewBits, WordBitsOf, WordPlace
    <3>3. cov = map.covered \cup UNION {OrBits(map.covered, at(rw, c), new[rw]) : rw \in W}
      <4>1. \A rw \in W : OrBits(map.covered, at(rw, c), new[rw])
                = OrBits(map.covered, WordPlace(map, test, rw, c), NewBits(map, test, rw, c))
        BY <3>2 DEF WordPlace
      <4> HIDE DEF cov, at, new
      <4>2. {OrBits(map.covered, at(rw, c), new[rw]) : rw \in W} =
              {OrBits(map.covered, WordPlace(map, test, rw, c), NewBits(map, test, rw, c)) :
                  rw \in W}
        BY <4>1
      <4>3. QED
        BY <2>6, <4>2 DEF SetBits
    <3>4. val = map.valid \cup
              UNION {OrBits(map.valid, at(rw, v), bits(rw)) : rw \in W, v \in rest}
      BY <2>7 DEF WordPlace, WordBitsOf, SetValid
    <3>5. counts = [k \in DOMAIN map.numCovered |-> map.numCovered[k] +
              SumFunction([rw \in W |-> Cardinality({b \in new[rw] : combo(rw, b) = k})])]
      BY <2>9, <3>2 DEF CountedNew
    <3>6. n = map.newly + numNew
      BY <2>8, <3>2
    <3> HIDE DEF other, cov, val, counts, n, at, new, bits, combo, numNew, row, W, rest
    <3>7. other = [map EXCEPT !.covered = cov, !.valid = val, !.numCovered = counts, !.newly = n]
      BY <1>6, <3>1, <3>3, <3>4, <3>5, <3>6
    <3>8. QED
      BY <3>7 DEF Updated
  <2> HIDE DEF other, counts, all, K, V
  <2>11. IsUpdate(other, map, Mk, K, V)
    BY <2>3, <2>4, <2>10 DEF IsUpdate
  <2>12. V \in SUBSET Own(map)
    BY <1>4, <2>5
  <2>13. Reflects(other, Mk \cup K, Vd \cup V)
        /\ other.params = map.params /\ other.strength = map.strength /\ other.E = map.E
    <3> HIDE DEF cov, val, n, N, W, rest
    <3>1. K \in SUBSET Own(map)
      BY <1>4
    <3>2. QED
      BY <2>11, <2>12, <3>1, UpdateReflects
  <2> DEFINE A == Mk \cup K
             B == Vd \cup V
             F == Vd \cup all
  <2>14. Reflects(other, A, B) /\ \A u \in Own(other) \ A : u \in B <=> u \in F
    BY <2>5, <2>13
  <2> HIDE DEF A, B, F
  <2>15. Reflects(other, A, F)
    BY <2>14, ReflectsUpTo
  <2>16. QED
    BY <2>13, <2>15 DEF A, F, other, K, all
<1>13. QED
  BY <1>11, <1>12

-------------------------------------------------------------------------------
(* The map measured from the seeded tests *)

\* What the map is after the combinations s were measured, when those of its subsets are g.
MeasuredFrom(first, testSet, g, s) ==
    IF s = {} THEN first ELSE CoverTuplesOf(g[s \ {FirstOf(s)}], FirstOf(s), testSet)

\* g is the measured map for every subset of T.
IsMeasuredUpTo(first, testSet, g, T) ==
    g = [s \in SUBSET T |-> MeasuredFrom(first, testSet, g, s)]

\* There is no more than one result of measuring.
LEMMA MeasuredUnique ==
    ASSUME NEW first, NEW testSet, NEW T, IsFiniteSet(T), NEW U, NEW g, NEW h,
           IsMeasuredUpTo(first, testSet, g, T), IsMeasuredUpTo(first, testSet, h, U)
    PROVE  \A s \in SUBSET (T \cap U) : g[s] = h[s]
<1> DEFINE B == {s \in SUBSET (T \cap U) : g[s] # h[s]}
<1> SUFFICES ASSUME B # {} PROVE FALSE
  OBVIOUS
<1>1. PICK s \in B : \A w \in B : w \subseteq s => w = s
  <2>1. B \subseteq SUBSET T
    OBVIOUS
  <2> HIDE DEF B
  <2>2. QED
    BY <2>1, MinimalSet DEF HasMinimal
<1>2. s \in SUBSET T /\ s \in SUBSET U /\ g[s] # h[s]
  OBVIOUS
<1>3. g[s] = MeasuredFrom(first, testSet, g, s) /\ h[s] = MeasuredFrom(first, testSet, h, s)
  BY <1>2 DEF IsMeasuredUpTo
<1>4. CASE s = {}
  BY <1>2, <1>3, <1>4 DEF MeasuredFrom
<1>5. CASE s # {}
  <2> DEFINE w == s \ {FirstOf(s)}
  <2>1. FirstOf(s) \in s
    BY <1>5 DEF FirstOf
  <2>2. w \in SUBSET (T \cap U) /\ w # s /\ w \subseteq s
    BY <1>2, <2>1
  <2>3. g[w] = h[w]
    BY <1>1, <2>2
  <2>4. QED
    BY <1>2, <1>3, <1>5, <2>3 DEF MeasuredFrom
<1>6. QED
  BY <1>4, <1>5

\* There is a result of measuring.
LEMMA MeasuredExists ==
    ASSUME NEW first, NEW testSet, NEW S, IsFiniteSet(S)
    PROVE  \A T \in SUBSET S : \E g : IsMeasuredUpTo(first, testSet, g, T)
<1> DEFINE B == {T \in SUBSET S : ~ \E g : IsMeasuredUpTo(first, testSet, g, T)}
           h == [T \in SUBSET S |-> CHOOSE g : IsMeasuredUpTo(first, testSet, g, T)]
<1> SUFFICES ASSUME B # {} PROVE FALSE
  OBVIOUS
<1>1. PICK T \in B : \A U \in B : U \subseteq T => U = T
  <2>1. B \subseteq SUBSET S
    OBVIOUS
  <2> HIDE DEF B
  <2>2. QED
    BY <2>1, MinimalSet DEF HasMinimal
<1>2. \A U \in SUBSET T : U # T => IsMeasuredUpTo(first, testSet, h[U], U)
  <2>1. TAKE U \in SUBSET T
  <2>2. HAVE U # T
  <2>3. U \in SUBSET S /\ \E g : IsMeasuredUpTo(first, testSet, g, U)
    BY <1>1, <2>2
  <2>4. QED
    BY <2>3
<1> DEFINE w(s) == s \ {FirstOf(s)}
           g == [s \in SUBSET T |->
                    IF s = {} THEN first ELSE CoverTuplesOf(h[w(s)][w(s)], FirstOf(s), testSet)]
<1>3. ASSUME NEW s \in SUBSET T, s # {}
      PROVE  w(s) \in SUBSET T /\ w(s) # T /\ w(s) # s
  BY <1>3 DEF FirstOf
<1> HIDE DEF h
<1>4. ASSUME NEW s \in SUBSET T, s # T
      PROVE  g[s] = h[s][s]
  <2>1. IsMeasuredUpTo(first, testSet, h[s], s)
    BY <1>2, <1>4
  <2>2. h[s][s] = MeasuredFrom(first, testSet, h[s], s)
    BY <2>1 DEF IsMeasuredUpTo
  <2>3. CASE s = {}
    BY <2>2, <2>3 DEF MeasuredFrom
  <2>4. CASE s # {}
    <3>1. w(s) \in SUBSET T /\ w(s) # T
      BY <1>3, <2>4
    <3>2. IsMeasuredUpTo(first, testSet, h[w(s)], w(s))
      BY <1>2, <3>1
    <3>3. IsFiniteSet(s) /\ w(s) \in SUBSET (s \cap w(s))
      <4>1. s \in SUBSET S
        BY <1>1
      <4>2. QED
        BY <4>1, FS_Subset
    <3>4. PICK W : W = w(s)
      OBVIOUS
    <3>5. IsMeasuredUpTo(first, testSet, h[W], W) /\ W \in SUBSET (s \cap W)
      BY <3>2, <3>3, <3>4
    <3>6. \A z \in SUBSET (s \cap W) : h[s][z] = h[W][z]
      <4>1. PICK x, y : x = h[s] /\ y = h[W]
        OBVIOUS
      <4>2. IsFiniteSet(s) /\ IsMeasuredUpTo(first, testSet, x, s)
            /\ IsMeasuredUpTo(first, testSet, y, W)
        BY <2>1, <3>3, <3>5, <4>1
      <4> HIDE DEF g, w, B
      <4>3. \A z \in SUBSET (s \cap W) : x[z] = y[z]
        BY <4>2, MeasuredUnique
      <4>4. QED
        BY <4>1, <4>3
    <3>7. QED
      BY <2>2, <2>4, <3>4, <3>5, <3>6 DEF MeasuredFrom
  <2>5. QED
    BY <2>3, <2>4
<1>5. ASSUME NEW s \in SUBSET T
      PROVE  g[s] = MeasuredFrom(first, testSet, g, s)
  <2>1. CASE s = {}
    BY <2>1 DEF MeasuredFrom
  <2>2. CASE s # {}
    <3>1. g[w(s)] = h[w(s)][w(s)]
      BY <1>3, <1>4, <2>2
    <3>2. QED
      BY <2>2, <3>1 DEF MeasuredFrom
  <2>3. QED
    BY <2>1, <2>2
<1>6. IsMeasuredUpTo(first, testSet, g, T)
  BY <1>5 DEF IsMeasuredUpTo
<1>7. QED
  BY <1>1, <1>6

\* The tuples of some combinations that the tests cover.
CoveredInAny(map, S, testSet) == UNION {CoveredIn(map, C, testSet) : C \in S}

\* Measuring a new map marks what the tests cover of every combination.
LEMMA MeasuredReflects ==
    ASSUME NEW first, Reflects(first, {}, {}), NEW testSet \in SUBSET PartialTests,
           NEW g, IsMeasuredUpTo(first, testSet, g, Combinations(first)),
           NEW S \in SUBSET Combinations(first)
    PROVE  LET K == CoveredInAny(first, S, testSet)
           IN /\ Reflects(g[S], K, K)
              /\ g[S].params = first.params /\ g[S].strength = first.strength
              /\ g[S].E = first.E
<1> DEFINE T == Combinations(first)
           K(s) == CoveredInAny(first, s, testSet)
           Good(s) == /\ Reflects(g[s], K(s), K(s))
                      /\ g[s].params = first.params /\ g[s].strength = first.strength
                      /\ g[s].E = first.E
           B == {s \in SUBSET T : ~ Good(s)}
<1>0. SUFFICES ASSUME B # {} PROVE FALSE
  OBVIOUS
<1>1. PICK s \in B : \A w \in B : w \subseteq s => w = s
  <2>1. B \subseteq SUBSET T /\ IsFiniteSet(T)
    BY RowsFinite DEF Reflects
  <2> HIDE DEF B, T
  <2>2. QED
    BY <1>0, <2>1, MinimalSet DEF HasMinimal
<1>2. s \in SUBSET T /\ ~ Good(s)
  BY <1>1
<1>3. g[s] = MeasuredFrom(first, testSet, g, s)
  BY <1>2 DEF IsMeasuredUpTo
<1>4. CASE s = {}
  <2>1. g[s] = first /\ K(s) = {}
    BY <1>3, <1>4 DEF MeasuredFrom, CoveredInAny
  <2>2. QED
    BY <1>2, <2>1
<1>5. CASE s # {}
  <2> DEFINE C == FirstOf(s)
             w == s \ {C}
  <2>1. C \in s
    BY <1>5 DEF FirstOf
  <2>2. w \in SUBSET T /\ w # s /\ w \subseteq s /\ C \in T
    BY <1>2, <2>1
  <2>3. Good(w)
    <3> HIDE DEF Good
    <3>1. QED
      BY <1>1, <2>2
  <2>4. g[s] = CoverTuplesOf(g[w], C, testSet)
    BY <1>3, <1>5 DEF MeasuredFrom
  <2>5. PICK M : M = g[w]
    OBVIOUS
  <2>6. PICK k : k = K(w)
    OBVIOUS
  <2>7. Reflects(M, k, k) /\ M.params = first.params /\ M.strength = first.strength
        /\ M.E = first.E
    BY <2>3, <2>5, <2>6
  <2>8. /\ Combinations(M) = Combinations(first)
        /\ ParamsOf(M, C) = ParamsOf(first, C)
    BY <2>7, SameLayout
  <2>9. CoveredIn(M, C, testSet) = CoveredIn(first, C, testSet)
    BY <2>8 DEF CoveredIn
  <2>10. PICK c : c = C
    OBVIOUS
  <2>11. c \in Combinations(M)
    BY <2>2, <2>8, <2>10
  <2>12. PICK other : other = CoverTuplesOf(M, c, testSet)
    OBVIOUS
  <2>13. PICK new : new = CoveredIn(M, c, testSet)
    OBVIOUS
  <2>14. /\ Reflects(other, k \cup new, k \cup new)
         /\ other.params = M.params /\ other.strength = M.strength /\ other.E = M.E
    <3> HIDE DEF K, T, w, C, B, Good
    <3>1. /\ Reflects(CoverTuplesOf(M, c, testSet), k \cup CoveredIn(M, c, testSet),
                      k \cup CoveredIn(M, c, testSet))
          /\ CoveredIn(M, c, testSet) \in SUBSET TuplesOf(ParamsOf(M, c))
          /\ CoverTuplesOf(M, c, testSet).params = M.params
          /\ CoverTuplesOf(M, c, testSet).strength = M.strength
          /\ CoverTuplesOf(M, c, testSet).E = M.E
      <4>1. Reflects(M, k, k) /\ c \in Combinations(M) /\ testSet \in SUBSET PartialTests
        BY <2>7, <2>11
      <4>2. QED
        BY ONLY <4>1, CoverTuplesReflects, ZenonT(60)
    <3>2. QED
      BY <2>12, <2>13, <3>1
  <2>15. K(s) = k \cup new
    <3>1. s = w \cup {C}
      BY <2>1
    <3> HIDE DEF w, C
    <3>2. K(s) = K(w) \cup CoveredIn(first, C, testSet)
      BY <3>1 DEF CoveredInAny
    <3>3. QED
      BY <2>6, <2>9, <2>10, <2>13, <3>2
  <2>16. Good(s)
    BY <2>4, <2>5, <2>7, <2>10, <2>12, <2>14, <2>15
  <2>17. QED
    BY <1>2, <2>16
<1>6. QED
  BY <1>4, <1>5

\* A new map after all its combinations were measured (ipog_measure_testset).
Measured(first, testSet) ==
    FoldSet(LAMBDA C, map : CoverTuplesOf(map, C, testSet), first, Combinations(first))

\* Of a new map then exactly the tuples that the seeded tests cover are marked, whatever
\* order the combinations were taken in (ipog_measure_testset.cpp:60-82).
THEOREM MeasuredMapReflects ==
    ASSUME NEW first, Reflects(first, {}, {}), NEW testSet \in SUBSET PartialTests
    PROVE  LET map == Measured(first, testSet)
               K == CoveredInAny(first, Combinations(first), testSet)
           IN /\ Reflects(map, K, K)
              /\ map.params = first.params /\ map.strength = first.strength
              /\ map.E = first.E
<1> DEFINE T == Combinations(first)
           g == CHOOSE g : IsMeasuredUpTo(first, testSet, g, T)
<1>1. Measured(first, testSet) = g[T]
  BY DEF Measured, FoldSet, MapThenFoldSet, IsMeasuredUpTo, MeasuredFrom, FirstOf
<1>2. IsFiniteSet(T)
  BY RowsFinite DEF Reflects
<1>3. IsMeasuredUpTo(first, testSet, g, T)
  <2>1. \E h : IsMeasuredUpTo(first, testSet, h, T)
    <3> HIDE DEF T
    <3>1. QED
      BY <1>2, MeasuredExists
  <2>2. QED
    BY <2>1
<1> HIDE DEF g
<1>4. PICK h : h = g
  OBVIOUS
<1>5. Reflects(first, {}, {}) /\ testSet \in SUBSET PartialTests
      /\ IsMeasuredUpTo(first, testSet, h, Combinations(first))
      /\ Combinations(first) \in SUBSET Combinations(first)
  BY <1>3, <1>4
<1>6. /\ Reflects(h[Combinations(first)],
                  CoveredInAny(first, Combinations(first), testSet),
                  CoveredInAny(first, Combinations(first), testSet))
      /\ h[Combinations(first)].params = first.params
      /\ h[Combinations(first)].strength = first.strength
      /\ h[Combinations(first)].E = first.E
  BY ONLY <1>5, MeasuredReflects, ZenonT(60)
<1>7. QED
  BY <1>1, <1>4, <1>6

-------------------------------------------------------------------------------
(* The maps of the current parameter *)

\* map is made for the current parameter of relation r.
IsMapOf(map, r) ==
    /\ IsMap(map)
    /\ map.params = SubSeq(Relations[r].params, 1, idx[r] + 1)
    /\ map.strength = CurrentStrength(r)

\* The parameters a relation has until the current one are those of a map.
LEMMA RelationOfMap ==
    ASSUME IInv, cur <= NumUsed, NEW r \in Participants
    PROVE  /\ r \in Rels /\ r \in live /\ idx[r] \in Nat /\ idx[r] + 1 \in 1 .. RelLen(r)
           /\ Relations[r].params[idx[r] + 1] = cur
           /\ CurrentStrength(r) \in 1 .. idx[r] + 1
           /\ LET list == SubSeq(Relations[r].params, 1, idx[r] + 1)
              IN /\ list \in Seq(Params) /\ Len(list) = idx[r] + 1
                 /\ \A i \in 1 .. idx[r] + 1 : list[i] = Relations[r].params[i]
                 /\ \A i, j \in 1 .. Len(list) : i < j => list[i] < list[j]
                 /\ Len(list) \in 1 .. NumUsed
<1> DEFINE n == idx[r] + 1
           all == Relations[r].params
           list == SubSeq(all, 1, n)
<1>1. /\ r \in live /\ all[n] = cur /\ live \subseteq Rels /\ idx \in [Rels -> Nat]
      /\ idx[r] < RelLen(r)
  BY DEF Participants, IInv, TypeOK, CursorInv
<1>2. /\ r \in Rels /\ idx[r] \in Nat /\ RelLen(r) \in Nat
      /\ \A i \in 1 .. RelLen(r) : all[i] \in Params /\ all[i] \in 1 .. NumUsed
      /\ NumUsed \in Nat
  BY <1>1, UsedFacts
<1>3. n \in Nat /\ n \in 1 .. RelLen(r) /\ RelLen(r) = Len(all)
  BY <1>1, <1>2 DEF RelLen
<1>4. all \in Seq(Params)
  <2> DEFINE R == [params : Seq(Params), strength : Nat \ {0}]
  <2>1. Relations \in Seq(R) /\ r \in DOMAIN Relations
    BY <1>2, ModelAssumption DEF Rels
  <2> HIDE DEF R
  <2>2. Relations[r] \in R
    BY <2>1
  <2>3. QED
    BY <2>2 DEF R
<1>5. CurrentStrength(r) \in 1 .. n
  <2>1. Relations[r].strength \in Nat \ {0}
    BY <1>2, StrengthPositive
  <2>2. QED
    BY <1>2, <2>1 DEF CurrentStrength
<1> HIDE DEF all, n
<1>6. list \in Seq(Params) /\ Len(list) = n /\ \A i \in 1 .. n : list[i] = all[i]
  BY <1>3, <1>4
<1> HIDE DEF list
<1>7. ASSUME NEW i \in 1 .. n, NEW j \in 1 .. n
      PROVE  /\ i < j => list[i] < list[j]
             /\ list[i] \in Nat /\ list[i] >= 1 /\ list[i] <= NumUsed
  <2>1. i \in 1 .. RelLen(r) /\ j \in 1 .. RelLen(r)
    BY <1>2, <1>3
  <2>2. i < j => all[i] < all[j]
    BY <1>2, <2>1, Ascending DEF all
  <2>3. all[i] \in 1 .. NumUsed
    BY <1>2, <2>1 DEF all
  <2>4. QED
    BY <1>2, <1>6, <2>2, <2>3
<1>8. n <= NumUsed
  <2> DEFINE T == {i \in 0 .. n : i = 0 \/ i <= list[i]}
  <2>1. 0 \in T /\ T \in SUBSET (0 .. n)
    BY <1>3
  <2>2. ASSUME NEW i \in 0 .. n, i # 0, i - 1 \in T
        PROVE  i \in T
    <3>1. i \in 1 .. n /\ list[i] \in Nat /\ list[i] >= 1
      BY <1>7, <2>2
    <3>2. CASE i = 1
      BY <3>1, <3>2
    <3>3. CASE i # 1
      <4>1. i - 1 \in 1 .. n /\ i - 1 < i
        BY <1>3, <3>1, <3>3
      <4>2. i - 1 <= list[i - 1] /\ list[i - 1] < list[i] /\ list[i - 1] \in Nat
        BY <1>7, <2>2, <3>1, <4>1
      <4>3. QED
        BY <3>1, <4>2
    <3>4. QED
      BY <3>2, <3>3
  <2>3. \A i \in 0 .. n : i # 0 /\ i - 1 \in T => i \in T
    BY <2>2
  <2> HIDE DEF T
  <2>4. T = 0 .. n
    BY <1>3, <2>1, <2>3, Induction
  <2>5. n <= list[n] /\ list[n] \in Nat /\ list[n] <= NumUsed
    BY <1>3, <1>7, <2>4 DEF T
  <2>6. QED
    BY <1>2, <1>3, <2>5
<1>9. Len(list) \in 1 .. NumUsed
  BY <1>2, <1>3, <1>6, <1>8
<1>10. \A i, j \in 1 .. Len(list) : i < j => list[i] < list[j]
  BY <1>6, <1>7
<1>11. all[n] = cur /\ n \in 1 .. RelLen(r) /\ CurrentStrength(r) \in 1 .. n
  BY <1>1, <1>3, <1>5
<1>12. QED
  BY <1>1, <1>2, <1>6, <1>9, <1>10, <1>11 DEF list, n, all

\* The combinations of a map have the parameters that the model of the job gives the
\* map of the relation, and so the map has the same tuples.
LEMMA CombosOfMap ==
    ASSUME IInv, cur <= NumUsed, NEW r \in Participants, NEW map, IsMapOf(map, r)
    PROVE  /\ LastParam(map) = cur
           /\ LastDomain(map) = Dom(cur)
           /\ \A C \in Combinations(map) : ParamsOf(map, C) \in MapCombos(r)
           /\ \A S \in MapCombos(r) : /\ CombinationOf(map, S) \in Combinations(map)
                                      /\ ParamsOf(map, CombinationOf(map, S)) = S
           /\ \A u : u \in Own(map) <=> <<r, u>> \in MapTuples
<1> DEFINE n == idx[r]
           t == CurrentStrength(r)
           first == FirstParams(r, n)
           earlier == Earlier(map)
<1>1. /\ r \in Rels /\ n \in Nat /\ Relations[r].params[n + 1] = cur
      /\ Len(map.params) = n + 1
      /\ \A i \in 1 .. n + 1 : map.params[i] = Relations[r].params[i]
  BY RelationOfMap DEF IsMapOf
<1>2. IsMap(map) /\ map.strength = t
  BY DEF IsMapOf
<1>3. LastPosition(map) = n /\ earlier = 0 .. n - 1 /\ NumEarlier(map) = t - 1
  BY <1>1, <1>2 DEF LastPosition, Earlier, NumEarlier
<1>4. \A q \in 0 .. n : Param(map, q) = Relations[r].params[q + 1]
  <2>1. \A q \in 0 .. n : q + 1 \in 1 .. n + 1
    BY <1>1
  <2>2. QED
    BY <1>1, <2>1 DEF Param
<1>5. LastParam(map) = cur
  BY <1>1, <1>3, <1>4 DEF LastParam
<1>6. LastDomain(map) = Dom(cur)
  BY <1>5 DEF LastDomain, LastParam
<1>7. first = {Param(map, q) : q \in earlier}
  <2>1. ASSUME NEW i \in 1 .. n
        PROVE  \E q \in earlier : Param(map, q) = Relations[r].params[i]
    <3>1. i - 1 \in earlier /\ i - 1 \in 0 .. n /\ i - 1 + 1 = i
      BY <1>1, <1>3
    <3>2. Param(map, i - 1) = Relations[r].params[i]
      BY <1>4, <3>1
    <3>3. QED
      BY <3>1, <3>2
  <2>2. ASSUME NEW q \in earlier
        PROVE  \E i \in 1 .. n : Param(map, q) = Relations[r].params[i]
    <3>1. q + 1 \in 1 .. n /\ q \in 0 .. n
      BY <1>1, <1>3
    <3>2. QED
      BY <1>4, <3>1
  <2>3. QED
    BY <2>1, <2>2 DEF FirstParams
<1>8. \A p, q \in earlier : Param(map, p) = Param(map, q) => p = q
  BY <1>2, <1>3, MapFacts
<1>9. \A q \in earlier : Param(map, q) # cur
  <2>1. \A p, q \in 0 .. n : Param(map, p) = Param(map, q) => p = q
    BY <1>2, <1>3, MapFacts
  <2>2. QED
    BY <1>1, <1>3, <1>4, <2>1
<1>10. IsFiniteSet(earlier)
  BY <1>1, <1>3, FS_Interval
<1>11. ASSUME NEW C \in SUBSET earlier
       PROVE  LET S == {Param(map, q) : q \in C}
              IN /\ Cardinality(S) = Cardinality(C)
                 /\ ParamsOf(map, C) = S \cup {cur}
                 /\ S \in SUBSET first
  <2> DEFINE f == [q \in C |-> Param(map, q)]
  <2>1. IsFiniteSet(C)
    BY <1>10, FS_Subset
  <2>2. \A p, q \in C : f[p] = f[q] => p = q
    BY <1>8
  <2>3. {f[q] : q \in C} = {Param(map, q) : q \in C} /\ DOMAIN f = C
    OBVIOUS
  <2> HIDE DEF f
  <2>4. Cardinality({f[q] : q \in C}) = Cardinality(C)
    BY <2>1, <2>2, <2>3, SameCount
  <2>5. ParamsOf(map, C) = {Param(map, q) : q \in C} \cup {cur}
    BY <1>5 DEF ParamsOf, LastParam
  <2>6. {Param(map, q) : q \in C} \in SUBSET first
    BY <1>7
  <2>7. QED
    BY <2>3, <2>4, <2>5, <2>6
<1>12. ASSUME NEW C \in Combinations(map)
       PROVE  ParamsOf(map, C) \in MapCombos(r)
  <2>1. C \in SUBSET earlier /\ Cardinality(C) = t - 1
    BY <1>3 DEF Combinations, kSubset
  <2> HIDE DEF first, earlier, t
  <2>2. {Param(map, q) : q \in C} \in kSubset(t - 1, first)
    BY <1>11, <2>1 DEF kSubset
  <2>3. QED
    BY <1>11, <2>1, <2>2 DEF MapCombos, t, first
<1>13. ASSUME NEW S \in MapCombos(r)
       PROVE  /\ CombinationOf(map, S) \in Combinations(map)
              /\ ParamsOf(map, CombinationOf(map, S)) = S
  <2>1. PICK R \in kSubset(t - 1, first) : S = R \cup {cur}
    BY DEF MapCombos
  <2>2. R \in SUBSET first /\ Cardinality(R) = t - 1
    BY DEF kSubset
  <2> DEFINE C == CombinationOf(map, S)
  <2>3. C \in SUBSET earlier
    BY DEF CombinationOf
  <2> HIDE DEF first, earlier
  <2>4. {Param(map, q) : q \in C} = R
    BY <1>7, <1>9, <2>1, <2>2 DEF CombinationOf, earlier
  <2> HIDE DEF C
  <2>5. Cardinality(C) = t - 1 /\ ParamsOf(map, C) = S
    BY <1>11, <2>1, <2>2, <2>3, <2>4
  <2>6. C \in Combinations(map)
    BY <1>3, <2>3, <2>5 DEF Combinations, kSubset, earlier
  <2>7. QED
    BY <2>5, <2>6 DEF C
<1>14. ASSUME NEW u
       PROVE  u \in Own(map) <=> <<r, u>> \in MapTuples
  <2>1. u \in Own(map) <=> \E S \in MapCombos(r) : u \in TuplesOf(S)
    BY <1>12, <1>13 DEF Own
  <2>2. <<r, u>> \in MapTuples <=> \E S \in MapCombos(r) : u \in TuplesOf(S)
    <3>1. ASSUME <<r, u>> \in MapTuples
          PROVE  \E S \in MapCombos(r) : u \in TuplesOf(S)
      <4>1. PICK q \in Participants :
                <<r, u>> \in {<<q, w>> : w \in UNION {TuplesOf(S) : S \in MapCombos(q)}}
        BY <3>1 DEF MapTuples
      <4>2. q = r /\ u \in UNION {TuplesOf(S) : S \in MapCombos(q)}
        BY <4>1
      <4>3. QED
        BY <4>2
    <3>2. ASSUME NEW S \in MapCombos(r), u \in TuplesOf(S)
          PROVE  <<r, u>> \in MapTuples
      <4>1. u \in UNION {TuplesOf(T) : T \in MapCombos(r)}
        BY <3>2
      <4>2. QED
        BY <4>1 DEF MapTuples
    <3>3. QED
      BY <3>1, <3>2
  <2>3. QED
    BY <2>1, <2>2
<1>15. QED
  BY <1>5, <1>6, <1>12, <1>13, <1>14

\* A test reaches, with a value, the tuples of a map that it then covers.
LEMMA HitCovers ==
    ASSUME IInv, cur <= NumUsed, NEW r \in Participants, NEW map, IsMapOf(map, r),
           NEW test \in PartialTests, NEW v \in Dom(cur)
    PROVE  /\ Hit(map, test, v) \in SUBSET Own(map)
           /\ \A u \in Own(map) :
                  u \in Hit(map, test, v) <=> Covers(Assign(test, cur, v), u)
<1>1. /\ IsMap(map) /\ LastParam(map) = cur /\ v \in LastDomain(map)
  BY CombosOfMap DEF IsMapOf
<1>2. DOMAIN test = Params
  BY TestFacts
<1>3. ASSUME NEW u \in Hit(map, test, v)
      PROVE  u \in Own(map) /\ Covers(Assign(test, cur, v), u)
  <2>1. PICK C \in Reached(map, test) : u = TupleAt(map, test, v, C)
    BY DEF Hit
  <2>2. C \in Combinations(map)
    BY DEF Reached
  <2>3. u \in Own(map)
    BY <1>1, <2>1, HitTuple
  <2>4. DOMAIN u = ParamsOf(map, C)
        /\ \A p \in DOMAIN u : u[p] = IF p = cur THEN v ELSE test[p]
    BY <1>1, <2>1 DEF TupleAt
  <2>5. DOMAIN u \in SUBSET Params
    BY <1>1, <2>2, <2>4, CombinationFacts
  <2>6. QED
    BY <1>2, <2>3, <2>4, <2>5 DEF Covers, Assign
<1>4. ASSUME NEW u \in Own(map), Covers(Assign(test, cur, v), u)
      PROVE  u \in Hit(map, test, v)
  <2>1. PICK C \in Combinations(map) : u \in TuplesOf(ParamsOf(map, C))
    BY DEF Own
  <2>2. /\ DOMAIN u = ParamsOf(map, C)
        /\ \A q \in C : u[Param(map, q)] \in Dom(Param(map, q))
        /\ C \in SUBSET Earlier(map) /\ C \in SUBSET (0 .. LastPosition(map) - 1)
        /\ ParamsOf(map, C) \in SUBSET Params
        /\ \A q \in C : Param(map, q) \in ParamsOf(map, C)
    BY <1>1, <2>1, OwnTuple, CombinationFacts
  <2>3. \A p \in DOMAIN u : u[p] = IF p = cur THEN v ELSE test[p]
    BY <1>2, <1>4, <2>2 DEF Covers, Assign
  <2>4. \A q \in C : Param(map, q) # cur
    <3>1. /\ \A p, q \in 0 .. LastPosition(map) : Param(map, p) = Param(map, q) => p = q
          /\ LastPosition(map) \in Nat
      BY <1>1, MapFacts
    <3>2. \A q \in C : q \in 0 .. LastPosition(map) /\ q # LastPosition(map)
      BY <2>2, <3>1
    <3>3. LastPosition(map) \in 0 .. LastPosition(map)
      BY <3>1
    <3>4. QED
      BY <1>1, <3>1, <3>2, <3>3 DEF LastParam
  <2>5. \A q \in C : test[Param(map, q)] # DontCare
    <3>1. ASSUME NEW q \in C
          PROVE  test[Param(map, q)] # DontCare
      <4>1. test[Param(map, q)] = u[Param(map, q)] /\ u[Param(map, q)] \in Dom(Param(map, q))
            /\ Param(map, q) \in Params
        BY <2>2, <2>3, <2>4
      <4>2. QED
        BY <4>1, DomFacts
    <3>2. QED
      BY <3>1
  <2>6. C \in Reached(map, test)
    BY <2>2, <2>5 DEF Reached, Assigned
  <2>7. u = TupleAt(map, test, v, C)
    <3>1. u = [p \in DOMAIN u |-> u[p]]
      BY <2>1 DEF TuplesOf
    <3>2. QED
      BY <1>1, <2>2, <2>3, <3>1 DEF TupleAt
  <2>8. QED
    BY <2>6, <2>7 DEF Hit
<1>5. QED
  BY <1>3, <1>4

\* The tuples that tests cover of a combination.
LEMMA CoveredInCovers ==
    ASSUME NEW map, IsMap(map), NEW C \in Combinations(map),
           NEW testSet \in SUBSET PartialTests
    PROVE  \A u : u \in CoveredIn(map, C, testSet) <=>
               u \in TuplesOf(ParamsOf(map, C)) /\ \E t \in testSet : Covers(t, u)
<1> DEFINE S == ParamsOf(map, C)
<1>1. S \in SUBSET Params
  BY CombinationFacts
<1> HIDE DEF S
<1>2. ASSUME NEW u \in CoveredIn(map, C, testSet)
      PROVE  u \in TuplesOf(S) /\ \E t \in testSet : Covers(t, u)
  <2>1. PICK t \in testSet : /\ \A p \in S : t[p] # DontCare
                             /\ u = [p \in S |-> t[p]]
    BY DEF CoveredIn, S
  <2>2. \A p \in S : t[p] \in Dom(p) /\ t[p] \in AllValues
    <3>1. t \in PartialTests
      OBVIOUS
    <3>2. QED
      BY <1>1, <2>1, <3>1, TestFacts DEF PartialTests, AllValues
  <2>3. u \in TuplesOf(S)
    BY <2>1, <2>2 DEF TuplesOf
  <2>4. Covers(t, u)
    BY <2>1 DEF Covers
  <2>5. QED
    BY <2>3, <2>4
<1>3. ASSUME NEW u \in TuplesOf(S), NEW t \in testSet, Covers(t, u)
      PROVE  u \in CoveredIn(map, C, testSet)
  <2>1. DOMAIN u = S /\ u = [p \in S |-> u[p]] /\ \A p \in S : u[p] \in Dom(p)
    BY DEF TuplesOf
  <2>2. \A p \in S : t[p] = u[p] /\ t[p] # DontCare
    <3>1. ASSUME NEW p \in S
          PROVE  t[p] = u[p] /\ t[p] # DontCare
      <4>1. t[p] = u[p] /\ u[p] \in Dom(p) /\ p \in Params
        BY <1>1, <1>3, <2>1 DEF Covers
      <4>2. QED
        BY <4>1, DomFacts
    <3>2. QED
      BY <3>1
  <2>3. u = [p \in S |-> t[p]]
    BY <2>1, <2>2
  <2>4. QED
    BY <2>2, <2>3 DEF CoveredIn, S
<1>4. QED
  BY <1>2, <1>3 DEF S

-------------------------------------------------------------------------------
(* The maps stand for the marks *)

\* The map of r says what the pairs U not marked covered and V marked valid say.
Stands(map, r, U, V) ==
    /\ IsMapOf(map, r)
    /\ Reflects(map, {u \in Own(map) : <<r, u>> \notin U}, {u \in Own(map) : <<r, u>> \in V})

\* The pairs U2 and V2 are U and V after the tuples K of r were covered and L marked valid.
\* Of the tuples marked covered it does not matter which are marked valid.
Changed(map, r, U, V, K, L, U2, V2) ==
    \A u \in Own(map) :
        /\ <<r, u>> \notin U2 <=> <<r, u>> \notin U \/ u \in K
        /\ <<r, u>> \in U2 => (<<r, u>> \in V2 <=> <<r, u>> \in V \/ u \in L)

\* A map on which the tuples K were marked covered and L valid stands for the pairs after.
LEMMA StandsAfter ==
    ASSUME NEW map, NEW r, NEW U, NEW V, Stands(map, r, U, V),
           NEW K, NEW L, NEW U2, NEW V2, Changed(map, r, U, V, K, L, U2, V2),
           NEW other,
           Reflects(other, {u \in Own(map) : <<r, u>> \notin U} \cup K,
                           {u \in Own(map) : <<r, u>> \in V} \cup L),
           other.params = map.params, other.strength = map.strength, other.E = map.E
    PROVE  Stands(other, r, U2, V2)
<1> DEFINE Mk == {u \in Own(map) : <<r, u>> \notin U}
           Vd == {u \in Own(map) : <<r, u>> \in V}
           A == {u \in Own(other) : <<r, u>> \notin U2}
           B == {u \in Own(other) : <<r, u>> \in V2}
<1>1. IsMap(map) /\ map.params = SubSeq(Relations[r].params, 1, idx[r] + 1)
      /\ map.strength = CurrentStrength(r)
  BY DEF Stands, IsMapOf
<1>2. IsMap(other) /\ Own(other) = Own(map)
  BY <1>1, SameLayout
<1>3. IsMapOf(other, r)
  BY <1>1, <1>2 DEF IsMapOf
<1>4. K \in SUBSET Own(map)
  <2>1. Mk \cup K \in SUBSET Own(other)
    BY DEF Reflects
  <2>2. QED
    BY <1>2, <2>1
<1>5. \A u \in Own(map) : u \in A <=> u \in Mk \cup K
  BY <1>2 DEF Changed
<1>6. A = Mk \cup K
  <2>1. A \in SUBSET Own(map) /\ Mk \in SUBSET Own(map)
    BY <1>2
  <2> HIDE DEF A, Mk
  <2>2. QED
    BY <1>4, <1>5, <2>1
<1>7. \A u \in Own(other) \ A : u \in Vd \cup L <=> u \in B
  BY <1>2 DEF Changed
<1>8. Reflects(other, A, Vd \cup L)
  BY <1>6
<1> HIDE DEF A, B, Vd
<1>9. PICK W : W = Vd \cup L
  OBVIOUS
<1>10. Reflects(other, A, W) /\ \A u \in Own(other) \ A : u \in W <=> u \in B
  BY <1>7, <1>8, <1>9
<1>11. Reflects(other, A, B)
  BY <1>10, ReflectsUpTo
<1>12. QED
  BY <1>3, <1>11 DEF Stands, A, B

\* cover, with the values valid for a test, does to a map what the step of the job does to
\* the pairs.
LEMMA StandsCovered ==
    ASSUME IInv, cur <= NumUsed, NEW r \in Participants, NEW map, NEW U, NEW V,
           Stands(map, r, U, V), NEW test \in PartialTests,
           NEW vals \in SUBSET Dom(cur), NEW c \in vals, NEW U2, NEW V2,
           \A u \in Own(map) :
               /\ <<r, u>> \notin U2 <=> <<r, u>> \notin U \/ Covers(Assign(test, cur, c), u)
               /\ <<r, u>> \in U2 => (<<r, u>> \in V2 <=>
                      <<r, u>> \in V \/ \E v \in vals : Covers(Assign(test, cur, v), u))
    PROVE  Stands(Cover(map, test, c, vals), r, U2, V2)
<1> DEFINE Mk == {u \in Own(map) : <<r, u>> \notin U}
           Vd == {u \in Own(map) : <<r, u>> \in V}
           K == Hit(map, test, c)
           L == UNION {Hit(map, test, v) : v \in vals}
           other == Cover(map, test, c, vals)
<1>1. IsMapOf(map, r) /\ Reflects(map, Mk, Vd)
  BY DEF Stands
<1>2. LastDomain(map) = Dom(cur)
  BY <1>1, CombosOfMap
<1>3. \A v \in vals : \A u \in Own(map) :
          u \in Hit(map, test, v) <=> Covers(Assign(test, cur, v), u)
  BY <1>1, HitCovers
<1>4. Changed(map, r, U, V, K, L, U2, V2)
  <2>1. \A u \in Own(map) :
            /\ u \in K <=> Covers(Assign(test, cur, c), u)
            /\ u \in L <=> \E v \in vals : Covers(Assign(test, cur, v), u)
    BY <1>3
  <2> HIDE DEF K, L
  <2>2. QED
    BY <2>1 DEF Changed
<1>5. PICK M, W, S : M = Mk /\ W = Vd /\ S = vals
  OBVIOUS
<1>6. Reflects(map, M, W) /\ test \in PartialTests /\ S \in SUBSET LastDomain(map) /\ c \in S
  BY <1>1, <1>2, <1>5
<1>7. /\ Reflects(Cover(map, test, c, S), M \cup Hit(map, test, c),
                  W \cup UNION {Hit(map, test, v) : v \in S})
      /\ Cover(map, test, c, S).params = map.params
      /\ Cover(map, test, c, S).strength = map.strength
      /\ Cover(map, test, c, S).E = map.E
  BY ONLY <1>6, CoverReflects, SMTT(30)
<1>8. /\ Reflects(other, Mk \cup K, Vd \cup L)
      /\ other.params = map.params /\ other.strength = map.strength /\ other.E = map.E
  BY <1>5, <1>7
<1> HIDE DEF K, L, other
<1>9. QED
  BY <1>4, <1>8, StandsAfter DEF other

\* So does cover_tuple_of, with a set of tests.
LEMMA StandsCoveredBy ==
    ASSUME NEW r, NEW map, NEW U, NEW V, Stands(map, r, U, V),
           NEW C \in Combinations(map), NEW testSet \in SUBSET PartialTests, NEW U2, NEW V2,
           \A u \in Own(map) :
               LET covered == /\ u \in TuplesOf(ParamsOf(map, C))
                              /\ \E t \in testSet : Covers(t, u)
               IN /\ <<r, u>> \notin U2 <=> <<r, u>> \notin U \/ covered
                  /\ <<r, u>> \in U2 => (<<r, u>> \in V2 <=> <<r, u>> \in V \/ covered)
    PROVE  Stands(CoverTuplesOf(map, C, testSet), r, U2, V2)
<1> DEFINE Mk == {u \in Own(map) : <<r, u>> \notin U}
           Vd == {u \in Own(map) : <<r, u>> \in V}
           K == CoveredIn(map, C, testSet)
           other == CoverTuplesOf(map, C, testSet)
<1>1. IsMap(map) /\ Reflects(map, Mk, Vd)
  BY DEF Stands, IsMapOf
<1>2. \A u : u \in K <=> u \in TuplesOf(ParamsOf(map, C)) /\ \E t \in testSet : Covers(t, u)
  BY <1>1, CoveredInCovers
<1>3. Changed(map, r, U, V, K, K, U2, V2)
  <2> HIDE DEF K
  <2>1. QED
    BY <1>2 DEF Changed
<1>4. PICK M, W, S : M = Mk /\ W = Vd /\ S = testSet
  OBVIOUS
<1>5. Reflects(map, M, W) /\ C \in Combinations(map) /\ S \in SUBSET PartialTests
  BY <1>1, <1>4
<1>6. /\ Reflects(CoverTuplesOf(map, C, S), M \cup CoveredIn(map, C, S),
                  W \cup CoveredIn(map, C, S))
      /\ CoveredIn(map, C, S) \in SUBSET TuplesOf(ParamsOf(map, C))
      /\ CoverTuplesOf(map, C, S).params = map.params
      /\ CoverTuplesOf(map, C, S).strength = map.strength
      /\ CoverTuplesOf(map, C, S).E = map.E
  BY ONLY <1>5, CoverTuplesReflects, ZenonT(60)
<1>7. /\ Reflects(other, Mk \cup K, Vd \cup K)
      /\ other.params = map.params /\ other.strength = map.strength /\ other.E = map.E
  BY <1>4, <1>6
<1> HIDE DEF K, other
<1>8. QED
  BY <1>3, <1>7, StandsAfter DEF other

\* And test_and_set_covered, with the tuple that was visited.
LEMMA StandsVisited ==
    ASSUME NEW r, NEW map, NEW U, NEW V, Stands(map, r, U, V),
           NEW C \in Combinations(map), NEW u \in TuplesOf(ParamsOf(map, C)), <<r, u>> \in U
    PROVE  Stands(SetCovered(map, C, u), r, U \ {<<r, u>>}, V)
<1> DEFINE Mk == {w \in Own(map) : <<r, w>> \notin U}
           Vd == {w \in Own(map) : <<r, w>> \in V}
           other == SetCovered(map, C, u)
           U2 == U \ {<<r, u>>}
<1>1. IsMap(map) /\ Reflects(map, Mk, Vd)
  BY DEF Stands, IsMapOf
<1>2. Changed(map, r, U, V, {u}, {}, U2, V)
  BY DEF Changed
<1>3. PICK M, W : M = Mk /\ W = Vd
  OBVIOUS
<1>4. Reflects(map, M, W) /\ u \notin M
  BY <1>1, <1>3
<1>5. /\ Reflects(SetCovered(map, C, u), M \cup {u}, W)
      /\ SetCovered(map, C, u).params = map.params
      /\ SetCovered(map, C, u).strength = map.strength
      /\ SetCovered(map, C, u).E = map.E
  BY <1>4, SetCoveredReflects, ZenonT(30)
<1>6. /\ Reflects(other, Mk \cup {u}, Vd \cup {})
      /\ other.params = map.params /\ other.strength = map.strength /\ other.E = map.E
  BY <1>3, <1>5
<1> HIDE DEF other, U2
<1>7. QED
  BY <1>2, <1>6, StandsAfter DEF other, U2

\* A map stands for the pairs still if no pair of its relation changes.
LEMMA StandsSame ==
    ASSUME NEW map, NEW r, NEW U, NEW V, Stands(map, r, U, V), NEW U2, NEW V2,
           \A u \in Own(map) : /\ <<r, u>> \in U2 <=> <<r, u>> \in U
                               /\ <<r, u>> \in V2 <=> <<r, u>> \in V
    PROVE  Stands(map, r, U2, V2)
<1>1. /\ {u \in Own(map) : <<r, u>> \notin U2} = {u \in Own(map) : <<r, u>> \notin U}
      /\ {u \in Own(map) : <<r, u>> \in V2} = {u \in Own(map) : <<r, u>> \in V}
  OBVIOUS
<1>2. QED
  BY <1>1 DEF Stands

\* A new map, with the seeded tests measured, stands for the pairs the tests do not cover.
LEMMA StandsMeasured ==
    ASSUME IInv, cur <= NumUsed, NEW r \in Participants, NEW testSet \in SUBSET PartialTests,
           NEW U2, NEW V2,
           \A u : <<r, u>> \in MapTuples =>
               /\ <<r, u>> \notin U2 <=> \E t \in testSet : Covers(t, u)
               /\ <<r, u>> \in U2 => <<r, u>> \notin V2
    PROVE  Stands(Measured(NewCoverageMap(SubSeq(Relations[r].params, 1, idx[r] + 1),
                                          CurrentStrength(r)), testSet), r, U2, V2)
<1> DEFINE list == SubSeq(Relations[r].params, 1, idx[r] + 1)
           t == CurrentStrength(r)
           new == NewCoverageMap(list, t)
           K == CoveredInAny(new, Combinations(new), testSet)
           U == {<<r, u>> : u \in Own(new)}
           other == Measured(new, testSet)
<1>1. /\ list \in Seq(Params) /\ Len(list) \in 1 .. NumUsed
      /\ \A i, j \in 1 .. Len(list) : i < j => list[i] < list[j]
      /\ t \in 1 .. Len(list)
  BY RelationOfMap
<1>2. Reflects(new, {}, {}) /\ new.params = list /\ new.strength = t
  <2> HIDE DEF list, t
  <2>1. QED
    BY <1>1, NewMapReflects
<1>3. IsMapOf(new, r) /\ IsMap(new)
  BY <1>2 DEF IsMapOf, Reflects
<1> HIDE DEF new, list, t
<1>4. \A u : u \in Own(new) <=> <<r, u>> \in MapTuples
  BY <1>3, CombosOfMap
<1>5. {u \in Own(new) : <<r, u>> \notin U} = {} /\ {u \in Own(new) : <<r, u>> \in {}} = {}
  OBVIOUS
<1>6. Stands(new, r, U, {})
  BY <1>2, <1>3, <1>5 DEF Stands
<1>7. \A u \in Own(new) : u \in K <=> \E s \in testSet : Covers(s, u)
  <2>1. \A C \in Combinations(new) : \A u : u \in CoveredIn(new, C, testSet) <=>
            u \in TuplesOf(ParamsOf(new, C)) /\ \E s \in testSet : Covers(s, u)
    BY <1>3, CoveredInCovers
  <2>2. \A u \in Own(new) : \E C \in Combinations(new) : u \in TuplesOf(ParamsOf(new, C))
    BY DEF Own
  <2>3. QED
    BY <2>1, <2>2 DEF CoveredInAny
<1>8. Changed(new, r, U, {}, K, K, U2, V2)
  <2>1. \A u \in Own(new) : <<r, u>> \in U
    OBVIOUS
  <2>2. \A u \in Own(new) : /\ <<r, u>> \notin U2 <=> u \in K
                            /\ <<r, u>> \in U2 => <<r, u>> \notin V2
    BY <1>4, <1>7
  <2> HIDE DEF K, U
  <2>3. QED
    BY <2>1, <2>2 DEF Changed
<1>9. PICK S : S = testSet /\ S \in SUBSET PartialTests
  OBVIOUS
<1>10. /\ Reflects(Measured(new, S), CoveredInAny(new, Combinations(new), S),
                   CoveredInAny(new, Combinations(new), S))
       /\ Measured(new, S).params = new.params /\ Measured(new, S).strength = new.strength
       /\ Measured(new, S).E = new.E
  BY ONLY <1>2, <1>9, MeasuredMapReflects, ZenonT(60)
<1>11. /\ Reflects(other, {u \in Own(new) : <<r, u>> \notin U} \cup K,
                          {u \in Own(new) : <<r, u>> \in {}} \cup K)
       /\ other.params = new.params /\ other.strength = new.strength /\ other.E = new.E
  BY <1>5, <1>9, <1>10
<1> HIDE DEF other, K, U
<1>12. Stands(other, r, U2, V2)
  BY <1>6, <1>8, <1>11, StandsAfter
<1>13. QED
  BY <1>12 DEF other, new, list, t

-------------------------------------------------------------------------------
(* The job and its maps *)

\* A step with the maps is a step of the job.
LEMMA StepWithMaps ==
    ASSUME [MapsNext]_mapsVars
    PROVE  [Next]_vars
<1>1. CASE MapsNext
  BY <1>1 DEF MapsNext, CreateMaps, CoverByTest, CoverByModifiedTests, VisitTuple,
              DropMaps, LeaveMaps, Next, Worker, Horizontal, Vertical
<1>2. CASE UNCHANGED mapsVars
  BY <1>2 DEF mapsVars
<1> QED
  BY <1>1, <1>2

\* The job with its coverage maps does nothing that the job of Ipog does not
\* do: what is proved of Spec is true of it (citcpp_ipog.cpp:101-260).
THEOREM MapsFollowJob == MapsSpec => Init /\ [][Next]_vars
<1>1. MapsInit => Init
  BY DEF MapsInit
<1> QED
  BY <1>1, StepWithMaps, PTL DEF MapsSpec

-------------------------------------------------------------------------------
(* The inductive invariant of the job with its maps *)

\* The relations that the vertical extension has and will turn to have a map, and the
\* combinations it has left are of the map.
CombosInv ==
    pc \in VerticalPcs =>
        /\ vx.pending \subseteq Participants
        /\ pc \in RelationPcs =>
               vx.rel \in Participants /\ vx.combos \subseteq MapCombos(vx.rel)

\* There is a map for every relation at the current parameter, and it stands for the
\* pairs of the relation.
StandInv ==
    pc \in HorizontalPcs \cup VerticalPcs =>
        /\ DOMAIN maps = Participants
        /\ \A r \in Participants : Stands(maps[r], r, uncovered, valid)

BInv == CInv /\ CombosInv /\ StandInv

\* The vertical extension only turns to combinations of the maps there are.
LEMMA CombosStep == IInv /\ CombosInv /\ [Next]_vars => CombosInv'
<1> SUFFICES ASSUME IInv, CombosInv, [Next]_vars, pc' \in VerticalPcs
             PROVE  CombosInv'
  BY DEF CombosInv
<1>1. pc \in Pcs /\ vx \in VerticalLocals
  BY DEF IInv, TypeOK
<1>2. pc \in VerticalPcs \/ FinishHorizontal
  BY <1>1, PcStep
<1>3. pc \in HorizontalPcs \cup VerticalPcs
  BY <1>2 DEF FinishHorizontal, HorizontalPcs
<1>4. Participants' = Participants /\ UNCHANGED loopVars
  BY <1>3, MapsKept
<1>5. \A r : MapCombos(r)' = MapCombos(r)
  BY <1>4 DEF loopVars, MapCombos, CurrentStrength, FirstParams
<1>6. CASE FinishHorizontal
  BY <1>4, <1>6 DEF FinishHorizontal, NoVertical, VerticalPcs, RelationPcs, CombosInv
<1>7. CASE StartRelation
  <2>1. PICK r \in vx.pending :
            vx' = [vx EXCEPT !.pending = @ \ {r}, !.rel = r, !.combos = MapCombos(r),
                             !.checked = 0, !.newly = 0]
    BY <1>7 DEF StartRelation
  <2>2. vx'.pending = vx.pending \ {r} /\ vx'.rel = r /\ vx'.combos = MapCombos(r)
    BY <1>1, <2>1 DEF VerticalLocals
  <2>3. vx.pending \subseteq Participants
    BY <1>7 DEF StartRelation, CombosInv, VerticalPcs
  <2>4. MapCombos(vx.rel)' = MapCombos(r)
    BY <1>4, <2>2 DEF loopVars, MapCombos, CurrentStrength, FirstParams
  <2>5. QED
    BY <1>4, <2>2, <2>3, <2>4 DEF CombosInv
<1>8. ASSUME pc \in VerticalPcs, vx'.pending = vx.pending,
             \/ pc' \notin RelationPcs
             \/ pc \in RelationPcs /\ vx'.rel = vx.rel /\ vx'.combos \subseteq vx.combos
      PROVE  CombosInv'
  <2>1. vx.pending \subseteq Participants
    BY <1>8 DEF CombosInv
  <2>2. CASE pc' \notin RelationPcs
    BY <1>4, <1>8, <2>1, <2>2 DEF CombosInv
  <2>3. CASE pc \in RelationPcs /\ vx'.rel = vx.rel /\ vx'.combos \subseteq vx.combos
    <3>1. vx.rel \in Participants /\ vx.combos \subseteq MapCombos(vx.rel)
      BY <1>8, <2>3 DEF CombosInv
    <3>2. MapCombos(vx.rel)' = MapCombos(vx.rel)
      BY <1>4, <2>3 DEF loopVars, MapCombos, CurrentStrength, FirstParams
    <3>3. QED
      BY <1>4, <1>8, <2>1, <2>3, <3>1, <3>2 DEF CombosInv
  <2>4. QED
    BY <1>8, <2>2, <2>3
<1>9. CASE NextCombo
  <2>1. vx'.pending = vx.pending /\ vx'.rel = vx.rel /\ vx'.combos \subseteq vx.combos
    BY <1>9, ComboStep
  <2>2. pc \in RelationPcs /\ pc \in VerticalPcs
    BY <1>9 DEF NextCombo, RelationPcs, VerticalPcs
  <2>3. QED
    BY <1>8, <2>1, <2>2
<1>10. CASE RejectTuple \/ InjectIntoMatchingTest \/ InjectIntoDontCareTest \/ AddTest
  <2>1. vx'.pending = vx.pending /\ vx'.rel = vx.rel /\ vx'.combos = vx.combos
    BY <1>10, CheckedStep
  <2>2. pc \in RelationPcs /\ pc \in VerticalPcs
    BY <1>10 DEF RejectTuple, InjectIntoMatchingTest, InjectIntoDontCareTest, AddTest,
                 RelationPcs, VerticalPcs
  <2>3. QED
    BY <1>8, <2>1, <2>2
<1>11. CASE EndCombo
  <2>1. vx' = vx /\ pc \in RelationPcs /\ pc \in VerticalPcs
    BY <1>11 DEF EndCombo, RelationPcs, VerticalPcs
  <2>2. QED
    BY <1>8, <2>1
<1>12. CASE EndRelation
  <2>1. \E n, m, k : vx' = [vx EXCEPT !.total = n, !.totalFull = m, !.newlyFull = k]
    BY <1>12, Zenon DEF EndRelation
  <2>2. vx'.pending = vx.pending
    BY <1>1, <2>1, ComboLocals
  <2>3. pc \in VerticalPcs /\ pc' \notin RelationPcs
    BY <1>12 DEF EndRelation, RelationPcs, VerticalPcs
  <2>4. QED
    BY <1>8, <2>2, <2>3
<1>13. CASE UNCHANGED <<pc, vx, uncovered>>
  BY <1>8, <1>13
<1>14. QED
  <2>1. \/ FinishHorizontal \/ StartRelation \/ NextCombo \/ RejectTuple
        \/ InjectIntoMatchingTest \/ InjectIntoDontCareTest \/ AddTest
        \/ EndCombo \/ EndRelation \/ UNCHANGED <<pc, vx, uncovered>>
    BY StepCases, Zenon
    DEF vars, mapVars, Abort, EnterConstruction, EraseInvalidSeed, CountCombinations,
        CreatePrefixTest, PrefixDone, CountPrefixParameter, LeaveLoop, SingleValuedParameter,
        BeginParameter, SelectSeededValue, SelectBestValue, SelectNoValue, Pick, CommitValue,
        CommitNoValue, AfterCommit, FinishVertical, AdvanceRelations, ReplaceDontCareValues,
        Publish, VerticalPcs, RelationPcs
  <2>2. QED
    BY <1>6, <1>7, <1>9, <1>10, <1>11, <1>12, <1>13, <2>1

\* What a step has to leave.
LEMMA StandsNext ==
    ASSUME idx' = idx, Participants' = Participants, DOMAIN maps' = Participants,
           \A r \in Participants : Stands(maps'[r], r, uncovered', valid')
    PROVE  StandInv'
BY DEF StandInv, Stands, IsMapOf, CurrentStrength

\* The maps of a parameter are created.
LEMMA CreateStep ==
    ASSUME CInv, CreateMaps
    PROVE  StandInv'
<1>1. /\ BeginParameter /\ maps' = [r \in Participants |-> MeasuredMap(r)]
  BY DEF CreateMaps
<1>2. /\ IInv /\ tests \in Seq(PartialTests) /\ numSeeds \in Nat /\ numSeeds <= Len(tests)
      /\ cur <= NumUsed
  BY <1>1 DEF CInv, IInv, TypeOK, TestSeqs, IndicesInv, BeginParameter
<1>3. idx' = idx /\ Participants' = Participants
  <2>1. [Next]_vars
    BY <1>1 DEF Next, Worker
  <2>2. QED
    BY <1>1, <2>1, MapsKept DEF loopVars
<1> DEFINE T == TestsOf(1 .. numSeeds)
           seeded == CoveredBy(MapTuples, 1 .. numSeeds)
<1>4. uncovered' = MapTuples \ seeded /\ valid' = seeded
  BY <1>1 DEF BeginParameter
<1>5. T \in SUBSET PartialTests
  <2>1. \A i \in 1 .. numSeeds : tests[i] \in PartialTests
    BY <1>2
  <2>2. QED
    BY <2>1 DEF TestsOf
<1>6. ASSUME NEW r \in Participants, NEW u, <<r, u>> \in MapTuples
      PROVE  /\ <<r, u>> \notin uncovered' <=> \E t \in T : Covers(t, u)
             /\ <<r, u>> \in uncovered' => <<r, u>> \notin valid'
  <2>1. <<r, u>> \in seeded <=> \E i \in 1 .. numSeeds : Covers(tests[i], u)
    BY <1>6 DEF CoveredBy
  <2>2. <<r, u>> \in seeded <=> \E t \in T : Covers(t, u)
    BY <2>1 DEF TestsOf
  <2>3. QED
    BY <1>4, <1>6, <2>2
<1>7. ASSUME NEW r \in Participants
      PROVE  Stands(maps'[r], r, uncovered', valid')
  <2> DEFINE new == NewCoverageMap(SubSeq(Relations[r].params, 1, idx[r] + 1),
                                   CurrentStrength(r))
  <2>1. maps'[r] = Measured(new, T)
    BY <1>1 DEF MeasuredMap, Measured
  <2>2. \A u : <<r, u>> \in MapTuples =>
            /\ <<r, u>> \notin uncovered' <=> \E t \in T : Covers(t, u)
            /\ <<r, u>> \in uncovered' => <<r, u>> \notin valid'
    BY <1>6
  <2> HIDE DEF T
  <2>3. Stands(Measured(new, T), r, uncovered', valid')
    BY <1>2, <1>5, <2>2, StandsMeasured
  <2>4. QED
    BY <2>1, <2>3
<1>8. DOMAIN maps' = Participants
  BY <1>1
<1>9. QED
  BY <1>3, <1>7, <1>8, StandsNext

\* The value that gets committed is one of those valid for the test.
LEMMA CommittedIsValid ==
    ASSUME CInv, pc = "commit", hx.selected # -1
    PROVE  /\ hx.ti \in DOMAIN tests /\ tests[hx.ti] \in PartialTests
           /\ cur \in Params /\ cur <= NumUsed
           /\ hx.validValues[hx.ti] \in SUBSET Dom(cur)
           /\ hx.selected \in hx.validValues[hx.ti]
           /\ Assign(tests[hx.ti], cur, hx.selected) \in PartialTests
<1> DEFINE i == hx.ti
           v == hx.selected
<1>1. /\ IInv /\ tests \in Seq(PartialTests) /\ i \in DOMAIN tests
      /\ v \in Dom(cur) /\ Extendable(allowed, Assign(tests[i], cur, v))
      /\ tests[i][cur] \in {DontCare, v}
      /\ \A j \in i .. Len(tests) : hx.validValues[j] = ValidValues(tests[j], cur)
  BY DEF CInv, IInv, TypeOK, TestSeqs, HorizontalInv, SelectedInv
<1>2. i \in i .. Len(tests) /\ tests[i] \in PartialTests
  BY <1>1
<1>3. cur <= NumUsed /\ cur \in Params
  BY <1>1, MapTuplesNow DEF IInv, CursorInv, BodyPcs, HorizontalPcs
<1>4. hx.validValues[i] = ValidValues(tests[i], cur)
  BY <1>1, <1>2
<1>5. v \in ValidValues(tests[i], cur) /\ ValidValues(tests[i], cur) \in SUBSET Dom(cur)
  BY <1>1, <1>2, <1>3, ValidValuesType DEF ValidValues
<1>6. Assign(tests[i], cur, v) \in PartialTests
  BY <1>1, <1>2, <1>3, TestTypes
<1>7. QED
  BY <1>1, <1>2, <1>3, <1>4, <1>5, <1>6

\* A test gets its value.
LEMMA CoverStep ==
    ASSUME CInv, StandInv, CoverByTest
    PROVE  StandInv'
<1> DEFINE i == hx.ti
           c == hx.selected
           t == Assign(tests[i], cur, c)
           vals == hx.validValues[i]
<1>1. /\ CommitValue /\ pc = "commit" /\ c # -1
      /\ maps' = [r \in DOMAIN maps |-> Cover(maps[r], tests'[i], tests'[i][cur], vals)]
  BY DEF CoverByTest, CommitValue
<1>2. /\ IInv /\ i \in DOMAIN tests /\ tests[i] \in PartialTests /\ cur \in Params
      /\ cur <= NumUsed /\ vals \in SUBSET Dom(cur) /\ c \in vals /\ t \in PartialTests
  BY <1>1, CommittedIsValid DEF CInv
<1>3. idx' = idx /\ Participants' = Participants
  <2>1. [Next]_vars
    BY <1>1 DEF Next, Worker, Horizontal
  <2>2. QED
    BY <1>1, <2>1, MapsKept DEF loopVars, HorizontalPcs
<1>4. /\ tests' = [tests EXCEPT ![i] = t]
      /\ uncovered' = uncovered \ {ru \in uncovered : Covers(t, ru[2])}
      /\ valid' = valid \cup {ru \in MapTuples : \E v \in vals \ {c} :
                                  Covers(Assign(t, cur, v), ru[2])}
  BY <1>1, Zenon DEF CommitValue
<1>5. tests'[i] = t /\ t[cur] = c /\ Assign(t, cur, c) = t
  <2>1. tests'[i] = t
    BY <1>2, <1>4
  <2>2. tests[i] \in [Params -> AllValues \cup {DontCare}]
    BY <1>2, TestFacts
  <2>3. t[cur] = c /\ Assign(t, cur, c) = t
    BY <1>2, <2>2 DEF Assign
  <2>4. QED
    BY <2>1, <2>3
<1>6. DOMAIN maps = Participants /\ \A r \in Participants : Stands(maps[r], r, uncovered, valid)
  BY <1>1 DEF StandInv, HorizontalPcs
<1> HIDE DEF i, c, t, vals
<1>7. ASSUME NEW r \in Participants
      PROVE  Stands(maps'[r], r, uncovered', valid')
  <2>1. Stands(maps[r], r, uncovered, valid) /\ IsMapOf(maps[r], r)
    BY <1>6 DEF Stands
  <2>2. \A u \in Own(maps[r]) : <<r, u>> \in MapTuples
    BY <1>2, <2>1, CombosOfMap
  <2>3. ASSUME NEW u \in Own(maps[r])
        PROVE  /\ <<r, u>> \notin uncovered' <=>
                      <<r, u>> \notin uncovered \/ Covers(Assign(t, cur, c), u)
               /\ <<r, u>> \in uncovered' => (<<r, u>> \in valid' <=>
                      <<r, u>> \in valid \/ \E v \in vals : Covers(Assign(t, cur, v), u))
    <3>1. <<r, u>> \in uncovered' <=> <<r, u>> \in uncovered /\ ~ Covers(t, u)
      BY <1>4
    <3>2. <<r, u>> \in valid' <=>
              <<r, u>> \in valid \/ \E v \in vals \ {c} : Covers(Assign(t, cur, v), u)
      BY <1>4, <2>2, <2>3
    <3>3. QED
      BY <1>5, <3>1, <3>2
  <2>4. PICK map : map = maps[r]
    OBVIOUS
  <2>5. Stands(Cover(map, t, c, vals), r, uncovered', valid')
    BY <1>2, <2>1, <2>3, <2>4, StandsCovered
  <2>6. QED
    BY <1>1, <1>5, <1>6, <2>4, <2>5
<1>8. DOMAIN maps' = Participants
  BY <1>1, <1>6
<1>9. QED
  BY <1>3, <1>7, <1>8, StandsNext

\* The tests that were modified since a parameter began may cover tuples of a combination.
LEMMA ComboMarksStep ==
    ASSUME CInv, CombosInv, StandInv, CoverByModifiedTests
    PROVE  StandInv'
<1> DEFINE q == vx.rel
           M == TestsOf(vx.modified)
           C == CombinationOf(maps[q], vx'.combo)
           S == vx'.combo
<1>1. /\ NextCombo /\ pc = "combo" /\ pc \in VerticalPcs /\ pc \in RelationPcs
      /\ pc \in BodyPcs /\ pc \notin {"init", "filter"}
      /\ maps' = [maps EXCEPT ![q] = IF AllCovered(@, C) THEN @
                                     ELSE CoverTuplesOf(@, C, M)]
  BY Zenon DEF CoverByModifiedTests, NextCombo, VerticalPcs, RelationPcs, BodyPcs
<1>2. /\ IInv /\ tests \in Seq(PartialTests) /\ cur <= NumUsed
      /\ vx \in VerticalLocals /\ vx.modified \subseteq DOMAIN tests
      /\ uncovered \subseteq MapTuples
  BY <1>1 DEF CInv, IInv, TypeOK, TestSeqs, IndicesInv, CursorInv, MapsInv
<1>3. idx' = idx /\ Participants' = Participants
  <2>1. [Next]_vars
    BY <1>1 DEF Next, Worker, Vertical
  <2>2. QED
    BY <1>1, <2>1, MapsKept DEF loopVars
<1>4. /\ S \in vx.combos
      /\ uncovered' = uncovered \ CoveredBy(UncoveredOf(S), vx.modified)
      /\ valid' = IF UncoveredOf(S) = {} THEN valid
                  ELSE valid \cup {ru \in CoveredBy(MapTuples, vx.modified) :
                                      ru[1] = q /\ DOMAIN ru[2] = S}
  <2>1. PICK R \in vx.combos :
            LET newly == CoveredBy(UncoveredOf(R), vx.modified)
                n == Cardinality(newly)
            IN /\ uncovered' = uncovered \ newly
               /\ valid' = IF UncoveredOf(R) = {} THEN valid
                           ELSE valid \cup {ru \in CoveredBy(MapTuples, vx.modified) :
                                               ru[1] = q /\ DOMAIN ru[2] = R}
               /\ vx' = [vx EXCEPT !.combos = @ \ {R}, !.combo = R,
                                   !.checked = @ + n, !.newly = @ + n]
    BY <1>1, Zenon DEF NextCombo
  <2>2. vx'.combo = R
    BY <1>2, <2>1 DEF VerticalLocals
  <2>3. QED
    BY <2>1, <2>2
<1>5. M \in SUBSET PartialTests
  <2>1. \A i \in vx.modified : tests[i] \in PartialTests
    BY <1>2
  <2>2. QED
    BY <2>1 DEF TestsOf
<1>6. /\ DOMAIN maps = Participants
      /\ \A r \in Participants : Stands(maps[r], r, uncovered, valid)
  BY <1>1 DEF StandInv
<1>7. q \in Participants /\ S \in MapCombos(q)
  BY <1>1, <1>4 DEF CombosInv
<1>8. IsMapOf(maps[q], q) /\ IsMap(maps[q])
  BY <1>6, <1>7 DEF Stands, IsMapOf
<1>9. /\ C \in Combinations(maps[q]) /\ ParamsOf(maps[q], C) = S
      /\ \A u : u \in Own(maps[q]) <=> <<q, u>> \in MapTuples
  <2>1. PICK map : map = maps[q]
    OBVIOUS
  <2>2. IsMapOf(map, q)
    BY <1>8, <2>1
  <2>3. /\ CombinationOf(map, S) \in Combinations(map)
        /\ ParamsOf(map, CombinationOf(map, S)) = S
        /\ \A u : u \in Own(map) <=> <<q, u>> \in MapTuples
    BY <1>2, <1>7, <2>2, CombosOfMap
  <2>4. QED
    BY <2>1, <2>3
<1>10. \A u \in Own(maps[q]) : u \in TuplesOf(S) <=> DOMAIN u = S
  <2>1. ASSUME NEW u \in Own(maps[q]), DOMAIN u = S
        PROVE  u \in TuplesOf(S)
    <3>1. PICK D \in Combinations(maps[q]) : u \in TuplesOf(ParamsOf(maps[q], D))
      BY DEF Own
    <3>2. DOMAIN u = ParamsOf(maps[q], D)
      BY <3>1 DEF TuplesOf
    <3>3. QED
      BY <2>1, <3>1, <3>2
  <2>2. \A u \in TuplesOf(S) : DOMAIN u = S
    BY DEF TuplesOf
  <2>3. QED
    BY <2>1, <2>2
<1>11. \A u : (\E i \in vx.modified : Covers(tests[i], u)) <=> \E t \in M : Covers(t, u)
  BY DEF TestsOf
<1> HIDE DEF M, S, C, q
<1>12. ASSUME NEW r, NEW u
       PROVE  /\ <<r, u>> \in uncovered' <=>
                     /\ <<r, u>> \in uncovered
                     /\ ~(r = q /\ DOMAIN u = S /\ \E t \in M : Covers(t, u))
              /\ r # q => (<<r, u>> \in valid' <=> <<r, u>> \in valid)
              /\ r = q /\ <<r, u>> \in MapTuples /\ <<r, u>> \in uncovered' =>
                     (<<r, u>> \in valid' <=>
                         \/ <<r, u>> \in valid
                         \/ DOMAIN u = S /\ \E t \in M : Covers(t, u))
  <2>1. \A R : <<r, u>> \in UncoveredOf(R) <=> <<r, u>> \in uncovered /\ r = q /\ DOMAIN u = R
    BY DEF UncoveredOf, q
  <2>2. \A T : <<r, u>> \in CoveredBy(T, vx.modified) <=>
            <<r, u>> \in T /\ \E t \in M : Covers(t, u)
    BY <1>11 DEF CoveredBy
  <2>3. <<r, u>> \in uncovered' <=>
                     /\ <<r, u>> \in uncovered
                     /\ ~(r = q /\ DOMAIN u = S /\ \E t \in M : Covers(t, u))
    BY <1>4, <2>1, <2>2
  <2>4. r # q => (<<r, u>> \in valid' <=> <<r, u>> \in valid)
    BY <1>4
  <2>5. ASSUME r = q, <<r, u>> \in MapTuples, <<r, u>> \in uncovered'
        PROVE  <<r, u>> \in valid' <=> \/ <<r, u>> \in valid
                                       \/ DOMAIN u = S /\ \E t \in M : Covers(t, u)
    <3>1. CASE UncoveredOf(S) = {}
      <4>1. DOMAIN u # S
        BY <2>1, <2>3, <2>5, <3>1
      <4>2. QED
        BY <1>4, <3>1, <4>1
    <3>2. CASE UncoveredOf(S) # {}
      BY <1>4, <2>2, <2>5, <3>2
    <3>3. QED
      BY <3>1, <3>2
  <2>6. QED
    BY <2>3, <2>4, <2>5
<1>13. ASSUME NEW r \in Participants, r # q
       PROVE  Stands(maps'[r], r, uncovered', valid')
  <2>1. Stands(maps[r], r, uncovered, valid)
    BY <1>6
  <2>2. \A u : /\ <<r, u>> \in uncovered' <=> <<r, u>> \in uncovered
               /\ <<r, u>> \in valid' <=> <<r, u>> \in valid
    BY <1>12, <1>13
  <2>3. Stands(maps[r], r, uncovered', valid')
    BY <2>1, <2>2, StandsSame
  <2>4. maps'[r] = maps[r]
    BY <1>1, <1>6, <1>13
  <2>5. QED
    BY <2>3, <2>4
<1>14. Stands(maps'[q], q, uncovered', valid')
  <2>1. PICK map : map = maps[q]
    OBVIOUS
  <2>2. /\ Stands(map, q, uncovered, valid) /\ C \in Combinations(map)
        /\ ParamsOf(map, C) = S
    BY <1>6, <1>7, <1>9, <2>1
  <2>3. \A u \in Own(map) : <<q, u>> \in MapTuples /\ (u \in TuplesOf(S) <=> DOMAIN u = S)
    BY <1>9, <1>10, <2>1
  <2>4. CASE AllCovered(map, C)
    <3>1. maps'[q] = map
      BY <1>1, <1>6, <1>7, <2>1, <2>4 DEF C, S, q
    <3>2. \A u \in TuplesOf(S) : <<q, u>> \notin uncovered
      <4>1. PICK Mk, Vd : Reflects(map, Mk, Vd) /\ Mk = {u \in Own(map) : <<q, u>> \notin uncovered}
        BY <2>2 DEF Stands
      <4>2. TuplesOf(S) \in SUBSET Mk
        BY <2>2, <2>4, <4>1, AllCoveredIff
      <4>3. QED
        BY <4>1, <4>2
    <3>3. UncoveredOf(S) = {}
      <4>1. ASSUME NEW ru \in UncoveredOf(S)
            PROVE  FALSE
        <5>1. ru \in uncovered /\ ru[1] = q /\ DOMAIN ru[2] = S
          BY DEF UncoveredOf, q
        <5>2. ru \in Rels \X Tuples
          BY <1>2, <5>1 DEF IInv, TypeOK
        <5>3. ru = <<q, ru[2]>>
          BY <5>1, <5>2
        <5>4. ru[2] \in Own(map) /\ ru[2] \in TuplesOf(S)
          BY <1>2, <1>9, <2>1, <2>3, <5>1, <5>3
        <5>5. QED
          BY <3>2, <5>1, <5>3, <5>4
      <4>2. QED
        BY <4>1
    <3>4. uncovered' = uncovered /\ valid' = valid
      BY <1>4, <3>3 DEF CoveredBy
    <3>5. QED
      BY <2>2, <3>1, <3>4
  <2>5. CASE ~AllCovered(map, C)
    <3>1. maps'[q] = CoverTuplesOf(map, C, M)
      BY <1>1, <1>6, <1>7, <2>1, <2>5 DEF C, S, q, M
    <3>2. \A u \in Own(map) :
              LET covered == u \in TuplesOf(ParamsOf(map, C)) /\ \E t \in M : Covers(t, u)
              IN /\ <<q, u>> \notin uncovered' <=> <<q, u>> \notin uncovered \/ covered
                 /\ <<q, u>> \in uncovered' =>
                        (<<q, u>> \in valid' <=> <<q, u>> \in valid \/ covered)
      BY <1>12, <2>2, <2>3
    <3>3. Stands(CoverTuplesOf(map, C, M), q, uncovered', valid')
      BY <1>5, <2>2, <3>2, StandsCoveredBy
    <3>4. QED
      BY <3>1, <3>3
  <2>6. QED
    BY <2>4, <2>5
<1>15. DOMAIN maps' = Participants
  BY <1>1, <1>6
<1>16. QED
  BY <1>3, <1>13, <1>14, <1>15, StandsNext

\* A tuple is visited.
LEMMA VisitMarksStep ==
    ASSUME CInv, CombosInv, StandInv, VisitTuple
    PROVE  StandInv'
<1> DEFINE q == vx.rel
<1>1. /\ RejectTuple \/ InjectIntoMatchingTest \/ InjectIntoDontCareTest \/ AddTest
      /\ pc = "tuple" /\ pc \in VerticalPcs /\ pc \in RelationPcs /\ pc \in BodyPcs
  BY DEF VisitTuple, RejectTuple, InjectIntoMatchingTest, InjectIntoDontCareTest, AddTest,
         VerticalPcs, RelationPcs, BodyPcs
<1>2. IInv /\ cur <= NumUsed /\ uncovered \subseteq MapTuples
  BY <1>1 DEF CInv, IInv, CursorInv, MapsInv
<1>3. idx' = idx /\ Participants' = Participants
  <2>1. [Next]_vars
    BY <1>1 DEF Next, Worker, Vertical
  <2>2. QED
    BY <1>1, <2>1, MapsKept DEF loopVars
<1>4. PICK u \in Tuples : /\ <<q, u>> \in uncovered /\ DOMAIN u = vx.combo
                          /\ uncovered' = uncovered \ {<<q, u>>}
  BY <1>1, <1>2, CheckedStep
<1>5. valid' = valid
  BY <1>1 DEF RejectTuple, InjectIntoMatchingTest, InjectIntoDontCareTest, AddTest
<1>6. maps' = [maps EXCEPT ![q] = SetCovered(@, CombinationOf(@, vx.combo), u)]
  <2>1. PICK ru \in uncovered \ uncovered' :
            maps' = [maps EXCEPT ![q] = SetCovered(@, CombinationOf(@, vx.combo), ru[2])]
    BY Zenon DEF VisitTuple
  <2>2. ru = <<q, u>>
    BY <1>4, <2>1
  <2>3. QED
    BY <2>1, <2>2
<1>7. /\ DOMAIN maps = Participants
      /\ \A r \in Participants : Stands(maps[r], r, uncovered, valid)
      /\ q \in Participants
  BY <1>1 DEF StandInv, CombosInv
<1> HIDE DEF q
<1>8. ASSUME NEW r \in Participants, r # q
      PROVE  Stands(maps'[r], r, uncovered', valid')
  <2>1. Stands(maps[r], r, uncovered, valid)
    BY <1>7
  <2>2. \A w : /\ <<r, w>> \in uncovered' <=> <<r, w>> \in uncovered
               /\ <<r, w>> \in valid' <=> <<r, w>> \in valid
    BY <1>4, <1>5, <1>8
  <2>3. Stands(maps[r], r, uncovered', valid')
    BY <2>1, <2>2, StandsSame
  <2>4. maps'[r] = maps[r]
    BY <1>6, <1>7, <1>8
  <2>5. QED
    BY <2>3, <2>4
<1>9. Stands(maps'[q], q, uncovered', valid')
  <2>1. PICK map : map = maps[q]
    OBVIOUS
  <2>2. Stands(map, q, uncovered, valid) /\ IsMapOf(map, q) /\ IsMap(map)
    BY <1>7, <2>1 DEF Stands, IsMapOf
  <2>3. u \in Own(map)
    BY <1>2, <1>4, <1>7, <2>2, CombosOfMap
  <2>4. /\ CombinationOf(map, vx.combo) \in Combinations(map)
        /\ u \in TuplesOf(ParamsOf(map, CombinationOf(map, vx.combo)))
    BY <1>4, <2>2, <2>3, OwnFacts
  <2>5. Stands(SetCovered(map, CombinationOf(map, vx.combo), u), q, uncovered \ {<<q, u>>}, valid)
    BY <1>4, <2>2, <2>4, StandsVisited
  <2>6. maps'[q] = SetCovered(map, CombinationOf(map, vx.combo), u)
    BY <1>6, <1>7, <2>1
  <2>7. QED
    BY <1>4, <1>5, <2>5, <2>6
<1>10. DOMAIN maps' = Participants
  BY <1>6, <1>7
<1>11. QED
  BY <1>3, <1>8, <1>9, <1>10, StandsNext

\* Steps that leave the maps leave the pairs as well.
LEMMA LeaveStep ==
    ASSUME CInv, StandInv, LeaveMaps \/ UNCHANGED mapsVars
    PROVE  StandInv'
<1>1. SUFFICES ASSUME pc' \in HorizontalPcs \cup VerticalPcs
               PROVE  StandInv'
  BY DEF StandInv
<1>2. maps' = maps /\ [Next]_vars
  BY DEF LeaveMaps, mapsVars, Next, Worker, Horizontal, Vertical
<1>3. IInv /\ pc \in Pcs
  BY DEF CInv, IInv, TypeOK
<1>4. ~BeginParameter
  <2>1. ASSUME BeginParameter
        PROVE  FALSE
    <3>1. pc = "param" /\ pc' \in {"horizontalDone", "select"} /\ cur <= NumUsed /\ ~aborted
          /\ NumValues[cur] > 1
      BY <2>1 DEF BeginParameter
    <3>2. QED
      BY <3>1, Zenon
      DEF LeaveMaps, mapsVars, vars, EnterConstruction, EraseInvalidSeed, CountCombinations,
          CreatePrefixTest, PrefixDone, CountPrefixParameter, LeaveLoop,
          SingleValuedParameter, SelectSeededValue, SelectBestValue, SelectNoValue,
          CommitNoValue, FinishHorizontal, StartRelation, EndCombo, EndRelation,
          FinishVertical, ReplaceDontCareValues, Publish, Abort, Terminated, LoopEnds
  <2>2. QED
    BY <2>1
<1>5. pc \in HorizontalPcs \cup VerticalPcs
  BY <1>1, <1>2, <1>3, <1>4, PcStep
<1>6. /\ uncovered' = uncovered /\ valid' = valid
      /\ idx' = idx /\ Participants' = Participants
  <2>1. idx' = idx /\ Participants' = Participants
    BY <1>2, <1>5, MapsKept DEF loopVars
  <2>2. uncovered' = uncovered /\ valid' = valid
    BY <1>4, <1>5, Zenon
    DEF LeaveMaps, mapsVars, vars, mapVars, EnterConstruction, EraseInvalidSeed,
        CountCombinations, CreatePrefixTest, PrefixDone, CountPrefixParameter, LeaveLoop,
        SingleValuedParameter, SelectSeededValue, SelectBestValue, SelectNoValue,
        CommitNoValue, FinishHorizontal, StartRelation, EndCombo, EndRelation,
        FinishVertical, ReplaceDontCareValues, Publish, Abort, Terminated
  <2>3. QED
    BY <2>1, <2>2
<1>7. /\ DOMAIN maps = Participants
      /\ \A r \in Participants : Stands(maps[r], r, uncovered, valid)
  BY <1>5 DEF StandInv
<1>8. QED
  BY <1>2, <1>6, <1>7, StandsNext

\* Every step leaves maps that stand for the pairs after it.
LEMMA StandStep == CInv /\ CombosInv /\ StandInv /\ [MapsNext]_mapsVars => StandInv'
<1>1. ASSUME DropMaps
      PROVE  StandInv'
  <2>1. pc' = "param"
    BY <1>1 DEF DropMaps, AdvanceRelations
  <2>2. QED
    BY <2>1 DEF StandInv, HorizontalPcs, VerticalPcs, RelationPcs
<1>2. QED
  BY <1>1, CreateStep, CoverStep, ComboMarksStep, VisitMarksStep, LeaveStep DEF MapsNext

\* There are no maps before the job begins.
LEMMA InitBInv == MapsInit => BInv
<1> SUFFICES ASSUME MapsInit
             PROVE  BInv
  OBVIOUS
<1>1. Init /\ pc = "init"
  BY DEF MapsInit, Init
<1>2. CInv
  BY <1>1, InitCInv
<1>3. CombosInv /\ StandInv
  BY <1>1 DEF CombosInv, StandInv, HorizontalPcs, VerticalPcs, RelationPcs
<1>4. QED
  BY <1>2, <1>3 DEF BInv

\* The invariant is inductive.
LEMMA StepBInv == BInv /\ [MapsNext]_mapsVars => BInv'
<1> SUFFICES ASSUME BInv, [MapsNext]_mapsVars
             PROVE  BInv'
  OBVIOUS
<1>1. [Next]_vars
  BY StepWithMaps
<1>2. CInv'
  BY <1>1, StepCInv DEF BInv
<1>3. CombosInv'
  BY <1>1, CombosStep DEF BInv, CInv
<1>4. StandInv'
  BY StandStep DEF BInv
<1>5. QED
  BY <1>2, <1>3, <1>4 DEF BInv

\* Whatever the job does, the maps of the current parameter stand for the pairs that the
\* model of the job keeps of their tuples (coverage_map.cpp:38-310,
\* ipog_measure_testset.cpp:60-82, citcpp_ipog.cpp:101-260).
THEOREM MapsInvariant == MapsSpec => []BInv
<1> QED
  BY InitBInv, StepBInv, PTL DEF MapsSpec

-------------------------------------------------------------------------------
(* What the invariant says of bits, counters and gains *)

\* A map that stands for the pairs has exactly their bits and counters.
LEMMA StandsExact ==
    ASSUME NEW r, Stands(maps[r], r, uncovered, valid)
    PROVE  BitsRepresentMarks(r) /\ CountsRepresentMarks(r)
<1>1. PICK map : map = maps[r]
  OBVIOUS
<1> DEFINE Mk == {u \in Own(map) : <<r, u>> \notin uncovered}
           Vd == {u \in Own(map) : <<r, u>> \in valid}
           M(C) == {u \in TuplesOf(ParamsOf(map, C)) : <<r, u>> \notin uncovered}
           Cs == Combinations(map)
<1>2. IsMap(map) /\ Reflects(map, Mk, Vd)
  BY <1>1 DEF Stands, IsMapOf
<1>3. /\ Mk \in SUBSET Own(map) /\ IsFiniteSet(Own(map)) /\ IsFiniteSet(Mk)
      /\ map.covered = {Place(map, u) : u \in Mk}
      /\ map.valid \in SUBSET (0 .. TotalNumTuples(map) - 1)
      /\ \A u \in Own(map) \ Mk : Place(map, u) \in map.valid <=> u \in Vd
      /\ \A C \in Cs :
             map.numCovered[Rank(map, C)] = Cardinality(Mk \cap TuplesOf(ParamsOf(map, C)))
      /\ map.newly = Cardinality(Mk)
  <2>1. IsFiniteSet(Own(map)) /\ Mk \in SUBSET Own(map)
    BY <1>2, PlaceFacts
  <2>2. IsFiniteSet(Mk)
    BY <2>1, FS_Subset
  <2>3. QED
    BY <1>2, <2>1, <2>2 DEF Reflects
<1>4. \A C \in Cs : Marked(r, C) = M(C)
  BY <1>1 DEF Marked
<1>5. \A C \in Cs : M(C) = Mk \cap TuplesOf(ParamsOf(map, C))
  <2>1. \A C \in Cs : TuplesOf(ParamsOf(map, C)) \in SUBSET Own(map)
    BY <1>2, PlaceFacts
  <2>2. QED
    BY <2>1
<1>6. \A C \in Cs : \A u \in TuplesOf(ParamsOf(map, C)) :
          u \in Own(map) /\ Place(map, u) = PhysicalIndex(map, C, u)
  BY <1>2, PlaceFacts
<1>7. \A u \in Mk : \E C \in Cs : u \in M(C)
  BY <1>3, <1>5 DEF Own
<1>8. \A C \in Cs : M(C) \in SUBSET Mk
  BY <1>5
<1> HIDE DEF M, Mk, Vd, Cs
<1>9. \A x : x \in map.covered <=> \E C \in Cs : \E u \in M(C) : x = PhysicalIndex(map, C, u)
  <2>1. ASSUME NEW u \in Mk
        PROVE  \E C \in Cs : \E w \in M(C) : Place(map, u) = PhysicalIndex(map, C, w)
    <3>1. PICK C \in Cs : u \in M(C)
      BY <1>7
    <3>2. Place(map, u) = PhysicalIndex(map, C, u)
      BY <1>5, <1>6, <3>1
    <3>3. QED
      BY <3>1, <3>2
  <2>2. ASSUME NEW C \in Cs, NEW u \in M(C)
        PROVE  PhysicalIndex(map, C, u) \in map.covered
    <3>1. Place(map, u) = PhysicalIndex(map, C, u) /\ u \in Mk
      BY <1>5, <1>6, <1>8
    <3>2. QED
      BY <1>3, <3>1
  <2>3. QED
    BY <1>3, <2>1, <2>2
<1>10. Cardinality(map.covered) = Cardinality(Mk)
  <2> DEFINE f == [u \in Mk |-> Place(map, u)]
  <2>1. \A u, w \in Mk : f[u] = f[w] => u = w
    BY <1>2, <1>3, PlaceFacts
  <2>2. {f[u] : u \in Mk} = map.covered /\ DOMAIN f = Mk
    BY <1>3
  <2> HIDE DEF f
  <2>3. Cardinality({f[u] : u \in Mk}) = Cardinality(Mk)
    BY <1>3, <2>1, <2>2, SameCount
  <2>4. QED
    BY <2>2, <2>3
<1>11. /\ IsFiniteSet(Cs)
       /\ Cardinality(Mk) = SumFunction([C \in Cs |-> Cardinality(M(C))])
  <2> DEFINE parts == [C \in Cs |-> M(C)]
             n == [C \in Cs |-> Cardinality(M(C))]
  <2>1. IsFiniteSet(Cs)
    BY <1>2, RowsFinite DEF Cs
  <2>2. \A C \in Cs : IsFiniteSet(parts[C]) /\ n[C] = Cardinality(parts[C])
    <3>1. \A C \in Cs : IsFiniteSet(M(C))
      BY <1>3, <1>8, FS_Subset
    <3>2. QED
      BY <3>1
  <2>3. \A C, D \in Cs : C # D => parts[C] \cap parts[D] = {}
    <3>1. \A C, D \in Cs : C # D =>
              TuplesOf(ParamsOf(map, C)) \cap TuplesOf(ParamsOf(map, D)) = {}
      BY <1>2, PlaceFacts DEF Cs
    <3>2. QED
      BY <1>5, <3>1
  <2>4. Joined(parts, Cs) = Mk
    BY <1>7, <1>8 DEF Joined
  <2>5. DOMAIN n = Cs
    OBVIOUS
  <2> HIDE DEF parts, n
  <2>6. Cardinality(Joined(parts, Cs)) = SumFunctionOnSet(n, Cs)
    BY <2>1, <2>2, <2>3, CardinalityOfUnion
  <2>7. SumFunctionOnSet(n, Cs) = SumFunction(n)
    BY <2>5 DEF SumFunction
  <2>8. QED
    BY <2>1, <2>4, <2>6, <2>7 DEF n
<1>12. map.covered \cup map.valid \subseteq 0 .. TotalNumTuples(map) - 1
  <2>1. \A u \in Mk : Place(map, u) \in 0 .. TotalNumTuples(map) - 1
    BY <1>2, <1>3, PlaceFacts
  <2>2. QED
    BY <1>3, <2>1
<1>13. \A C \in Cs : \A u \in TuplesOf(ParamsOf(map, C)) \ M(C) :
           IsMarkedValid(map, C, u) <=> <<r, u>> \in valid
  <2>1. ASSUME NEW C \in Cs, NEW u \in TuplesOf(ParamsOf(map, C)) \ M(C)
        PROVE  IsMarkedValid(map, C, u) <=> <<r, u>> \in valid
    <3>1. u \in Own(map) /\ u \notin Mk /\ Place(map, u) = PhysicalIndex(map, C, u)
      BY <1>5, <1>6
    <3>2. Place(map, u) \in map.valid <=> <<r, u>> \in valid
      BY <1>3, <3>1 DEF Vd
    <3>3. QED
      BY <3>1, <3>2 DEF IsMarkedValid
  <2>2. QED
    BY <2>1
<1>14. \A C \in Cs : /\ Rank(map, C) = Cardinality({D \in Cs : ComboBefore(D, C)})
                     /\ map.numCovered[Rank(map, C)] = Cardinality(M(C))
  <2>1. \A C \in Cs : Rank(map, C) = Cardinality({D \in Cs : ComboBefore(D, C)})
    BY <1>2, RankIsPlace DEF Cs
  <2>2. QED
    BY <1>3, <1>5, <2>1
<1>15. BitsRepresentMarks(r)
  <2>1. SumFunction([C \in Cs |-> Cardinality(Marked(r, C))]) =
        SumFunction([C \in Cs |-> Cardinality(M(C))])
    <3>1. [C \in Cs |-> Cardinality(Marked(r, C))] = [C \in Cs |-> Cardinality(M(C))]
      BY <1>4
    <3>2. QED
      BY <3>1
  <2>3. \A C \in Cs : \A u \in TuplesOf(ParamsOf(map, C)) \ Marked(r, C) :
            IsMarkedValid(map, C, u) <=> <<r, u>> \in valid
    BY <1>4, <1>13
  <2>4. map.covered = UNION {{PhysicalIndex(map, C, u) : u \in Marked(r, C)} : C \in Cs}
    BY <1>4, <1>9
  <2>5. Cardinality(map.covered) = SumFunction([C \in Cs |-> Cardinality(Marked(r, C))])
    BY <1>10, <1>11, <2>1
  <2>6. QED
    BY <1>1, <1>12, <2>3, <2>4, <2>5 DEF BitsRepresentMarks, Cs
<1>16. CountsRepresentMarks(r)
  <2>1. \A C \in Cs : map.numCovered[Rank(map, C)] = Cardinality(Marked(r, C))
    BY <1>4, <1>14
  <2>2. map.newly = Cardinality(map.covered)
    BY <1>3, <1>10
  <2>3. QED
    BY <1>1, <1>14, <2>1, <2>2, Zenon DEF CountsRepresentMarks, Cs
<1>17. QED
  BY <1>15, <1>16

\* The gain of a value is what the maps, one after the other, add for it.
LEMMA GainsFromMaps ==
    ASSUME CInv, StandInv
    PROVE  GainsExact
<1> SUFFICES ASSUME pc = "select", NEW v \in hx.validValues[hx.ti]
             PROVE  Gain(v) = SumFunction([r \in Participants |->
                                              AddedGain(maps[r], tests[hx.ti], v)])
  BY DEF GainsExact
<1> DEFINE test == tests[hx.ti]
           T == Assign(test, cur, v)
           P == Participants
           gained == {ru \in uncovered : ru[2][cur] = v /\ Covers(T, ru[2])}
           part(r) == {ru \in gained : ru[1] = r}
           parts == [r \in P |-> part(r)]
           n == [r \in P |-> AddedGain(maps[r], test, v)]
<1>1. /\ IInv /\ tests \in Seq(PartialTests) /\ hx.ti \in DOMAIN tests
      /\ uncovered \subseteq MapTuples /\ uncovered \subseteq Rels \X Tuples
      /\ live \subseteq Rels /\ cur <= NumUsed
      /\ \A i \in hx.ti .. Len(tests) : hx.validValues[i] = ValidValues(tests[i], cur)
  BY DEF CInv, IInv, TypeOK, TestSeqs, HorizontalInv, MapsInv, CursorInv, BodyPcs,
         HorizontalPcs
<1>2. test \in PartialTests /\ hx.ti \in hx.ti .. Len(tests)
  BY <1>1
<1>3. cur \in Params
  BY <1>1, MapTuplesNow
<1>4. v \in Dom(cur)
  <2>1. ValidValues(test, cur) \in SUBSET Dom(cur)
    BY <1>1, <1>2, <1>3, ValidValuesType
  <2>2. v \in ValidValues(test, cur)
    BY <1>1, <1>2
  <2>3. QED
    BY <2>1, <2>2
<1>5. \A r \in P : Stands(maps[r], r, uncovered, valid)
  BY DEF StandInv, HorizontalPcs
<1>6. IsFiniteSet(P) /\ IsFiniteSet(uncovered)
  <2>1. P \in SUBSET Rels /\ uncovered \in SUBSET (Rels \X Tuples)
    BY <1>1 DEF Participants
  <2>2. IsFiniteSet(Rels)
    <3>1. Rels = 1 .. Len(Relations) /\ Len(Relations) \in Nat
      BY ModelAssumption DEF Rels
    <3>2. QED
      BY <3>1, FS_Interval
  <2> HIDE DEF P
  <2>3. QED
    BY <2>1, <2>2, TaggedFinite, FS_Subset
<1>7. T[cur] = v
  BY <1>2, <1>3, TestFacts DEF Assign
<1> HIDE DEF T
<1>8. \A ru \in uncovered : ru = <<ru[1], ru[2]>> /\ ru[1] \in P
  <2>1. \A ru \in MapTuples : ru[1] \in P
    BY DEF MapTuples
  <2>2. QED
    BY <1>1, <2>1
<1>9. ASSUME NEW r \in P
      PROVE  IsFiniteSet(part(r)) /\ AddedGain(maps[r], test, v) = Cardinality(part(r))
  <2>1. PICK map : map = maps[r]
    OBVIOUS
  <2> DEFINE Mk == {u \in Own(map) : <<r, u>> \notin uncovered}
             Vd == {u \in Own(map) : <<r, u>> \in valid}
             H == Hit(map, test, v) \ Mk
             f == [u \in H |-> <<r, u>>]
  <2>2. IsMapOf(map, r) /\ Reflects(map, Mk, Vd) /\ IsMap(map)
    BY <1>5, <2>1 DEF Stands, IsMapOf
  <2>3. /\ Hit(map, test, v) \in SUBSET Own(map)
        /\ \A u \in Own(map) : u \in Hit(map, test, v) <=> Covers(Assign(test, cur, v), u)
    BY <1>1, <1>2, <1>4, <2>2, HitCovers
  <2>4. /\ LastDomain(map) = Dom(cur)
        /\ \A u : u \in Own(map) <=> <<r, u>> \in MapTuples
    BY <1>1, <2>2, CombosOfMap
  <2>5. AddedGain(map, test, v) = Cardinality(H)
    <3>1. v \in LastDomain(map)
      BY <1>4, <2>4
    <3>2. PICK M, W : M = Mk /\ W = Vd
      OBVIOUS
    <3>3. Reflects(map, M, W)
      BY <2>2, <3>2
    <3>4. AddedGain(map, test, v) = Cardinality(Hit(map, test, v) \ M)
      BY <1>2, <3>1, <3>3, GainReflects
    <3>5. QED
      BY <3>2, <3>4
  <2>6. IsFiniteSet(H)
    <3>1. IsFiniteSet(Own(map)) /\ H \in SUBSET Own(map)
      BY <2>2, <2>3, PlaceFacts
    <3>2. QED
      BY <3>1, FS_Subset
  <2>7. part(r) = {f[u] : u \in H}
    <3>1. \A u : u \in H <=> <<r, u>> \in uncovered /\ Covers(T, u)
      <4>1. \A u : <<r, u>> \in uncovered => u \in Own(map)
        BY <1>1, <2>4
      <4>2. QED
        BY <2>3, <4>1 DEF T
    <3>2. ASSUME NEW ru \in part(r)
          PROVE  \E u \in H : ru = f[u]
      <4>1. ru \in uncovered /\ ru[1] = r /\ Covers(T, ru[2])
        OBVIOUS
      <4>2. ru = <<r, ru[2]>>
        BY <1>8, <4>1
      <4>3. ru[2] \in H
        BY <3>1, <4>1, <4>2
      <4>4. QED
        BY <4>2, <4>3
    <3>3. ASSUME NEW u \in H
          PROVE  f[u] \in part(r)
      <4>1. <<r, u>> \in uncovered /\ Covers(T, u)
        BY <3>1
      <4>2. u[cur] = v
        <5>1. <<r, u>> \in MapTuples
          BY <1>1, <4>1
        <5>2. cur \in DOMAIN u
          BY <1>1, <1>3, <5>1, MapTuplesCurrent
        <5>3. QED
          BY <1>7, <4>1, <5>2 DEF Covers
      <4>3. QED
        BY <4>1, <4>2
    <3> HIDE DEF f, H
    <3>4. QED
      BY <3>2, <3>3
  <2>8. \A u, w \in H : f[u] = f[w] => u = w
    OBVIOUS
  <2>9. DOMAIN f = H
    OBVIOUS
  <2> HIDE DEF f, H
  <2>10. /\ IsFiniteSet({f[u] : u \in H})
         /\ Cardinality({f[u] : u \in H}) = Cardinality(H)
    BY <2>6, <2>8, <2>9, SameCount
  <2>11. QED
    BY <2>1, <2>5, <2>7, <2>10
<1>10. Gain(v) = Cardinality(gained)
  BY DEF Gain, T
<1>11. Joined(parts, P) = gained
  <2>1. \A ru \in gained : ru[1] \in P /\ ru \in parts[ru[1]]
    BY <1>8
  <2>2. \A r \in P : parts[r] \in SUBSET gained
    OBVIOUS
  <2> HIDE DEF gained, parts
  <2>3. QED
    BY <2>1, <2>2 DEF Joined
<1>12. \A r, q \in P : r # q => parts[r] \cap parts[q] = {}
  OBVIOUS
<1>13. \A r \in P : IsFiniteSet(parts[r]) /\ n[r] = Cardinality(parts[r])
  BY <1>9
<1>14. DOMAIN n = P
  OBVIOUS
<1> HIDE DEF parts, n, P, gained
<1>15. Cardinality(Joined(parts, P)) = SumFunctionOnSet(n, P)
  BY <1>6, <1>12, <1>13, CardinalityOfUnion
<1>16. QED
  BY <1>10, <1>11, <1>14, <1>15 DEF SumFunction, n, P

\* The bits of the maps, the numbers of covered tuples they keep by combination, and the
\* gains they answer are, at any moment of any job, those of the tuples marked, however
\* the horizontal and the vertical extension take turns (coverage_map.hpp:159,
\* coverage_map.cpp:212-310).
THEOREM MapsAlwaysExact == MapsSpec => []MapsExact
<1>1. BInv => MapsExact
  <2> SUFFICES ASSUME BInv
               PROVE  MapsExact
    OBVIOUS
  <2>1. GainsExact
    BY GainsFromMaps DEF BInv
  <2>2. ASSUME pc \in HorizontalPcs \cup VerticalPcs, NEW r \in Participants
        PROVE  BitsRepresentMarks(r) /\ CountsRepresentMarks(r)
    BY <2>2, StandsExact DEF BInv, StandInv
  <2>3. QED
    BY <2>1, <2>2 DEF MapsExact
<1>2. QED
  BY <1>1, MapsInvariant, PTL
===============================================================================

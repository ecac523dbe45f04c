------------------------------ MODULE CoverageMap ------------------------------
(***************************************************************************)
(* ipog_coverage_map: where the bits of the tuples are, and the operations *)
(* of the two extensions on them.  A map is for the first n parameters of  *)
(* a relation and a strength t: its tuples have the parameter at position  *)
(* m = n - 1, the last one, and s = t - 1 of those at the positions before *)
(* it.  Positions count from 0.                                            *)
(*                                                                         *)
(* A bit array is the set of the positions of its set bits; what happens   *)
(* to its words is kept, as sets of bits 0 .. WordBits - 1.                *)
(***************************************************************************)
EXTENDS CombinatorialModel

CONSTANT WordBits    \* 64

ASSUME WordAssumption == WordBits \in Nat \ {0}

-------------------------------------------------------------------------------
(* Words *)

Word(bits, w) == {b \in 0 .. WordBits - 1 : w * WordBits + b \in bits}

ShiftedUp(word, k) == {b + k : b \in word} \cap (0 .. WordBits - 1)

ShiftedDown(word, k) == {b - k : b \in word} \cap Nat

\* Mutant of LoadBits: the bits from the next word are one off.
LoadBitsUnaligned(bits, pos) ==
    LET w == pos \div WordBits
        k == pos % WordBits
    IN ShiftedDown(Word(bits, w), k) \cup
       ShiftedUp(Word(bits, w + 1), WordBits - 1 - k)

\* The word at any position of a bit array.
LoadBits(bits, pos) ==
    LET w == pos \div WordBits
        k == pos % WordBits
    IN ShiftedDown(Word(bits, w), k) \cup
       ShiftedUp(ShiftedUp(Word(bits, w + 1), 1), WordBits - 1 - k)

\* The bit array with the bits of a mask set at any position.
OrBits(bits, pos, mask) ==
    LET w == pos \div WordBits
        k == pos % WordBits
    IN bits \cup {w * WordBits + b : b \in ShiftedUp(mask, k)}
            \cup {(w + 1) * WordBits + b :
                     b \in ShiftedDown(ShiftedDown(mask, 1), WordBits - 1 - k)}

\* The bits that belong to a row of the given length, in its word at offset off.
RowWordMask(length, off) ==
    0 .. (IF length - off < WordBits THEN length - off ELSE WordBits) - 1

-------------------------------------------------------------------------------
(* The layout *)

\* get_coefficient: "n over k", a row of Pascal's triangle for every n.
Coefficient[n \in 0 .. NumUsed] ==
    [k \in 0 .. NumUsed |->
        IF k > n THEN 0
        ELSE IF k = 0 \/ k = n THEN 1
        ELSE Coefficient[n - 1][k - 1] + Coefficient[n - 1][k]]

\* E: E[k][j] is the number of k-tuples over the positions before j.
TupleCounts(params, t) ==
    LET before[j \in 0 .. Len(params) - 1] ==
            [k \in 0 .. t - 1 |->
                IF k = 0 THEN 1
                ELSE IF j = 0 THEN 0
                ELSE before[j - 1][k] + NumValues[params[j]] * before[j - 1][k - 1]]
    IN [k \in 0 .. t - 1 |-> [j \in 0 .. Len(params) - 1 |-> before[j][k]]]

Param(map, q) == map.params[q + 1]

LastPosition(map) == Len(map.params) - 1

LastDomain(map) == Dom(Param(map, LastPosition(map)))

Earlier(map) == 0 .. LastPosition(map) - 1

NumEarlier(map) == map.strength - 1

TuplesPerValue(map) == map.E[NumEarlier(map)][LastPosition(map)]

TotalNumTuples(map) == Cardinality(LastDomain(map)) * TuplesPerValue(map)

\* A combination is the set of its earlier positions.  They are enumerated from
\* the top level down, each level descending.
Combinations(map) == kSubset(NumEarlier(map), Earlier(map))

Level(C, q) == Cardinality({p \in C : p < q})

\* The position below the next one of C, or below the last parameter.
Top(map, C, q) == Min({p \in C : p > q} \cup {LastPosition(map)}) - 1

RankTerm(map, C, q, level) ==
    Coefficient[Top(map, C, q) + 1][level + 1] - Coefficient[q + 1][level + 1]

\* The index of a combination, in the order of the enumeration.
Rank(map, C) == SumFunction([q \in C |-> RankTerm(map, C, q, Level(C, q))])

\* base_: the index of the combination's tuple with all values 0.
Base(map, C) == SumFunction([q \in C |-> map.E[Level(C, q) + 1][q]])

\* Where the bits of tuple u are, whose combination is C.
PhysicalIndex(map, C, u) ==
    Base(map, C) + u[Param(map, LastPosition(map))] * TuplesPerValue(map) +
    SumFunction([q \in C |-> u[Param(map, q)] * map.E[Level(C, q)][q]])

ParamsOf(map, C) == {Param(map, q) : q \in C \cup {LastPosition(map)}}

ComboSize(map, C) == Cardinality(TuplesOf(ParamsOf(map, C)))

\* newly is no field of the code's: it adds up what the operations return, the
\* numbers of tuples not covered before.
NewCoverageMap(params, t) ==
    LET map == [params |-> params, strength |-> t, E |-> TupleCounts(params, t)]
    IN [params     |-> params,
        strength   |-> t,
        E          |-> map.E,
        covered    |-> {},
        valid      |-> {},
        numCovered |-> [k \in 0 .. Cardinality(Combinations(map)) - 1 |-> 0],
        newly      |-> 0]

-------------------------------------------------------------------------------
(* One combination at a time: seeded tests and the vertical extension *)

AllCovered(map, C) == map.numCovered[Rank(map, C)] = ComboSize(map, C)

\* test_and_set_covered; the caller has seen that the tuple was not covered.
SetCovered(map, C, u) ==
    [map EXCEPT !.covered = @ \cup {PhysicalIndex(map, C, u)},
                !.numCovered[Rank(map, C)] = @ + 1,
                !.newly = @ + 1]

IsCovered(map, C, u) == PhysicalIndex(map, C, u) \in map.covered

IsMarkedValid(map, C, u) == PhysicalIndex(map, C, u) \in map.valid

\* cover_tuple_of, for every test of a set: tests without a value for one of the
\* parameters cover no tuple of the combination.
CoverTuplesOf(map, C, testSet) ==
    LET covering == {t \in testSet : \A p \in ParamsOf(map, C) : t[p] # DontCare}
        tuples == {[p \in ParamsOf(map, C) |-> t[p]] : t \in covering}
        new == {u \in tuples : ~IsCovered(map, C, u)}
    IN [map EXCEPT !.valid = @ \cup {PhysicalIndex(map, C, u) : u \in tuples},
                   !.covered = @ \cup {PhysicalIndex(map, C, u) : u \in new},
                   !.numCovered[Rank(map, C)] = @ + Cardinality(new),
                   !.newly = @ + Cardinality(new)]

-------------------------------------------------------------------------------
(* A row of all combinations at a time: the horizontal extension *)

\* The earlier positions where the test has a value (load_test), and the bits
\* of its value slots.
Assigned(map, test) == {q \in Earlier(map) : test[Param(map, q)] # DontCare}

TestSlots(map, test) ==
    {map.E[1][q] + test[Param(map, q)] : q \in Assigned(map, test)}

SlotPosition(map, slot) ==
    CHOOSE q \in Earlier(map) : slot \in map.E[1][q] .. map.E[1][q + 1] - 1

\* The choices of all earlier positions but the lowest; those with too few
\* positions below are passed over.
RowChoices(map, test) ==
    {R \in kSubset(NumEarlier(map) - 1, Assigned(map, test)) :
        \A q \in R : q > Level(R, q)}

\* for_each_row: the index of the first slot of the row, the number of slots, and
\* the number from which a slot's position leaves the index of its combination.
Row(map, test, R) ==
    [base   |-> SumFunction([q \in R |->
                    LET l == Level(R, q) + 1
                    IN map.E[l + 1][q] + test[Param(map, q)] * map.E[l][q]]),
     length |-> map.E[1][Min(R \cup {LastPosition(map)})],
     rank   |-> SumFunction([q \in R |-> RankTerm(map, R, q, Level(R, q) + 1)])
                    + Min(R \cup {LastPosition(map)}) - 1]

\* The words of all rows of a test: <<choice, offset>>.
RowWords(map, test) ==
    UNION {{<<R, w * WordBits>> : w \in 0 .. (Row(map, test, R).length - 1) \div WordBits} :
              R \in RowChoices(map, test)}

TestWord(map, test, row, off) ==
    Word(TestSlots(map, test), off \div WordBits) \cap RowWordMask(row.length, off)

\* add_gains: how many uncovered tuples the test would cover with value v.
AddedGain(map, test, v) ==
    IF map.strength = 1 THEN (IF v \in map.covered THEN 0 ELSE 1)
    ELSE SumFunction([rw \in RowWords(map, test) |->
             LET row == Row(map, test, rw[1])
                 at == row.base + v * TuplesPerValue(map) + rw[2]
             IN Cardinality(TestWord(map, test, row, rw[2]) \ LoadBits(map.covered, at))])

\* cover, with value c: the tuples the test has with it become covered, those it
\* would have with another valid value become valid.  No two words of rows share
\* a bit, so that each is looked at as it was before the call.
Cover(map, test, c, validValues) ==
    LET words == RowWords(map, test)
        row(rw) == Row(map, test, rw[1])
        at(rw, v) == row(rw).base + v * TuplesPerValue(map) + rw[2]
        bits(rw) == TestWord(map, test, row(rw), rw[2])
        new == [rw \in words |-> bits(rw) \ LoadBits(map.covered, at(rw, c))]
        combo(rw, b) == row(rw).rank - SlotPosition(map, rw[2] + b)
        numNew == SumFunction([rw \in words |-> Cardinality(new[rw])])
    IN IF map.strength = 1
       THEN LET n == IF c \in map.covered THEN 0 ELSE 1
            IN [map EXCEPT !.covered = @ \cup {c},
                           !.valid = @ \cup validValues,
                           !.numCovered[0] = @ + n,
                           !.newly = @ + n]
       ELSE [map EXCEPT
                !.covered = @ \cup UNION {OrBits(@, at(rw, c), new[rw]) : rw \in words},
                !.valid = @ \cup UNION {OrBits(@, at(rw, v), bits(rw)) :
                                           rw \in words, v \in validValues \ {c}},
                !.numCovered = [k \in DOMAIN @ |-> @[k] +
                    SumFunction([rw \in words |->
                        Cardinality({b \in new[rw] : combo(rw, b) = k})])],
                !.newly = @ + numNew]
===============================================================================

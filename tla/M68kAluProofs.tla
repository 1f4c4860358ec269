---------------------------- MODULE M68kAluProofs ----------------------------
(***************************************************************************)
(* The generated arithmetic is the MC68000's at every width (bytes, words   *)
(* and longs are h = 2^7, 2^15 and 2^31): the sums and compares as          *)
(* operators, and then every instruction of ArithmeticUnit and every pair   *)
(* that carries X, as an invariant of its runs.                             *)
(*                                                                         *)
(* Powers of two are introduced by counting subsets, and what a loop leaves *)
(* behind n rounds is shown with a least counterexample, as a set of pairs  *)
(* <<n, state>> that the rounds do not leave (RoundsReach).                 *)
(***************************************************************************)
EXTENDS ArithmeticUnit, FiniteSetTheorems, NaturalsInduction,
        WellFoundedInduction, TLAPS

Congruent(h, a, b) == a = b \/ a = b + 2 * h \/ a = b - 2 * h

(* What the manual asks of a sum whose whole, unsigned value is u and whose *)
(* whole signed value is s: the value is u cut to the width, C says that u  *)
(* does not fit, V that s does not.                                         *)
ExactSum(h, u, s, value, n, z, v, c) ==
    /\ value \in Value(h) /\ Congruent(h, value, u)
    /\ c <=> (u < 0 \/ u >= 2 * h)
    /\ n <=> SignedAt(h, value) < 0
    /\ z <=> value = 0
    /\ v <=> ~FitsAt(h, s)

-----------------------------------------------------------------------------
\* Operands are whole numbers within their bounds.
LEMMA OperandBounds ==
    ASSUME NEW h \in Nat \ {0}, NEW v \in Value(h)
    PROVE  v \in Int /\ 0 <= v /\ v < 2 * h
BY DEF Value

\* What the additions print, on whole numbers.
LEMMA SumExact ==
    ASSUME NEW h \in Nat \ {0}, NEW src \in Value(h), NEW dst \in Value(h)
    PROVE  ExactSum(h, dst + src, SignedAt(h, dst) + SignedAt(h, src),
                    Wrap(h, dst + src),
                    Sign(h, Wrap(h, dst + src)), Wrap(h, dst + src) = 0,
                    /\ Sign(h, dst) = Sign(h, src)
                    /\ Sign(h, dst) # Sign(h, Wrap(h, dst + src)),
                    dst + src > 2 * h - 1)
BY OperandBounds DEF Wrap, Sign, ExactSum, SignedAt, FitsAt, Congruent, Value

\* What the subtractions and compares print.
LEMMA DifferenceExact ==
    ASSUME NEW h \in Nat \ {0}, NEW src \in Value(h), NEW dst \in Value(h)
    PROVE  ExactSum(h, dst - src, SignedAt(h, dst) - SignedAt(h, src),
                    Wrap(h, dst - src),
                    Sign(h, Wrap(h, dst - src)), Wrap(h, dst - src) = 0,
                    /\ Sign(h, dst) # Sign(h, src)
                    /\ Sign(h, dst) # Sign(h, Wrap(h, dst - src)),
                    src > dst)
BY OperandBounds DEF Wrap, Sign, ExactSum, SignedAt, FitsAt, Congruent, Value

\* The carries of ADDX come in with X.
LEMMA ExtendedSumExact ==
    ASSUME NEW h \in Nat \ {0}, NEW src \in Value(h), NEW dst \in Value(h),
           NEW x \in {0, 1}
    PROVE  ExactSum(h, dst + src + x, SignedAt(h, dst) + SignedAt(h, src) + x,
                    Wrap(h, dst + src + x),
                    Sign(h, Wrap(h, dst + src + x)), Wrap(h, dst + src + x) = 0,
                    /\ Sign(h, dst) = Sign(h, src)
                    /\ Sign(h, dst) # Sign(h, Wrap(h, dst + src + x)),
                    dst + src + x > 2 * h - 1)
BY OperandBounds DEF Wrap, Sign, ExactSum, SignedAt, FitsAt, Congruent, Value

\* SUBX takes the sign of the source with X in it: V is the manual's unless that
\* turns the greatest signed source negative.
LEMMA ExtendedDifferenceOverflow ==
    ASSUME NEW h \in Nat \ {0}, NEW src \in Value(h), NEW dst \in Value(h),
           NEW x \in {0, 1}, ~(x = 1 /\ src = h - 1)
    PROVE  (/\ Sign(h, dst) # Sign(h, Wrap(h, src + x))
            /\ Sign(h, dst) # Sign(h, Wrap(h, dst - (src + x))))
           <=> ~FitsAt(h, SignedAt(h, dst) - SignedAt(h, src) - x)
BY OperandBounds DEF Wrap, Sign, SignedAt, FitsAt, Value

\* NEGX does the same.
LEMMA ExtendedNegationOverflow ==
    ASSUME NEW h \in Nat \ {0}, NEW dst \in Value(h), NEW x \in {0, 1},
           ~(x = 1 /\ dst = h - 1)
    PROVE  (Sign(h, Wrap(h, dst + x)) /\ Sign(h, Wrap(h, 0 - dst - x)))
           <=> ~FitsAt(h, -SignedAt(h, dst) - x)
BY OperandBounds DEF Wrap, Sign, SignedAt, FitsAt, Value

-----------------------------------------------------------------------------
\* ADD, ADDI, ADDQ: value and codes are those of the sum of the whole
\* numbers, unsigned and signed.
THEOREM AddExact ==
    ASSUME NEW h \in Nat \ {0}, NEW src \in Value(h), NEW dst \in Value(h)
    PROVE  LET o == Add(h, src, dst)
           IN ExactSum(h, dst + src, SignedAt(h, dst) + SignedAt(h, src),
                       o.value, o.ccr.n, o.ccr.z, o.ccr.v, o.ccr.c)
BY SumExact DEF Add, Outcome

\* SUB, SUBI, SUBQ: the same of the difference.
THEOREM SubExact ==
    ASSUME NEW h \in Nat \ {0}, NEW src \in Value(h), NEW dst \in Value(h)
    PROVE  LET o == Sub(h, src, dst)
           IN ExactSum(h, dst - src, SignedAt(h, dst) - SignedAt(h, src),
                       o.value, o.ccr.n, o.ccr.z, o.ccr.v, o.ccr.c)
BY DifferenceExact DEF Sub, Outcome

\* ADDX: the same of the sum with X, except that Z is only ever cleared.
THEOREM AddxExact ==
    ASSUME NEW h \in Nat \ {0}, NEW src \in Value(h), NEW dst \in Value(h),
           NEW codes \in CCR
    PROVE  LET o == Addx(h, src, dst, codes)
           IN /\ ExactSum(h, dst + src + X(codes),
                          SignedAt(h, dst) + SignedAt(h, src) + X(codes),
                          o.value, o.ccr.n, o.value = 0, o.ccr.v, o.ccr.c)
              /\ o.ccr.z <=> (codes.z /\ o.value = 0)
<1>1. X(codes) \in {0, 1}
  BY DEF X
<1> DEFINE o == Addx(h, src, dst, codes)
<1>2. ExactSum(h, dst + src + X(codes),
               SignedAt(h, dst) + SignedAt(h, src) + X(codes),
               o.value, o.ccr.n, o.value = 0, o.ccr.v, o.ccr.c)
  <2> DEFINE sum == dst + src + X(codes)
  <2>1. ExactSum(h, sum, SignedAt(h, dst) + SignedAt(h, src) + X(codes),
                 Wrap(h, sum), Sign(h, Wrap(h, sum)), Wrap(h, sum) = 0,
                 /\ Sign(h, dst) = Sign(h, src)
                 /\ Sign(h, dst) # Sign(h, Wrap(h, sum)),
                 sum > 2 * h - 1)
    BY <1>1, ExtendedSumExact
  <2>2. /\ o.value = Wrap(h, sum)
        /\ o.ccr.n = Sign(h, Wrap(h, sum))
        /\ o.ccr.v = (/\ Sign(h, dst) = Sign(h, src)
                      /\ Sign(h, dst) # Sign(h, Wrap(h, sum)))
        /\ o.ccr.c = (sum > 2 * h - 1)
    BY Zenon DEF Addx, Outcome
  <2>3. QED
    BY <2>1, <2>2, Zenon
<1>3. o.ccr.z <=> (codes.z /\ o.value = 0)
  BY Zenon DEF Addx, Outcome
<1>4. QED
  BY <1>2, <1>3

\* Every conditional branch behind a compare orders the operands as its name
\* says, at every width.
THEOREM CompareOrders ==
    ASSUME NEW h \in Nat \ {0}, NEW src \in Value(h), NEW dst \in Value(h),
           NEW codes \in CCR
    PROVE  Ordered(h, src, dst, Cmp(h, src, dst, codes).ccr)
<1> DEFINE o == Cmp(h, src, dst, codes).ccr
<1>1. ExactSum(h, dst - src, SignedAt(h, dst) - SignedAt(h, src),
               Wrap(h, dst - src), o.n, o.z, o.v, o.c)
  BY DifferenceExact DEF Cmp, Outcome
<1>2. o \in CCR
  BY DEF Cmp, Outcome, CCR, Sign
<1> HIDE DEF o
<1> DEFINE ss == SignedAt(h, src)
           sd == SignedAt(h, dst)
<1>3. /\ o.c \in BOOLEAN /\ o.z \in BOOLEAN /\ o.n \in BOOLEAN /\ o.v \in BOOLEAN
  BY <1>2 DEF CCR
<1>4. /\ o.c <=> dst < src
      /\ o.z <=> dst = src
      /\ o.v <=> ~FitsAt(h, sd - ss)
      /\ (o.n = o.v) <=> sd >= ss
      /\ (dst = src) <=> (sd = ss)
  BY <1>1, <1>3, OperandBounds DEF ExactSum, SignedAt, FitsAt, Congruent, Value
<1>5. /\ ss \in Int /\ sd \in Int /\ src \in Int /\ dst \in Int
  BY OperandBounds DEF SignedAt
<1>6. /\ Condition(2, o) <=> (~o.c /\ ~o.z)
      /\ Condition(3, o) <=> (o.c \/ o.z)
      /\ Condition(4, o) <=> ~o.c
      /\ Condition(5, o) <=> o.c
      /\ Condition(6, o) <=> ~o.z
      /\ Condition(7, o) <=> o.z
      /\ Condition(8, o) <=> ~o.v
      /\ Condition(9, o) <=> o.v
      /\ Condition(10, o) <=> ~o.n
      /\ Condition(11, o) <=> o.n
      /\ Condition(12, o) <=> (o.n = o.v)
      /\ Condition(13, o) <=> (o.n # o.v)
      /\ Condition(14, o) <=> (~o.z /\ o.n = o.v)
      /\ Condition(15, o) <=> (o.z \/ o.n # o.v)
  BY <1>3 DEF Condition
<1>7. Ordered(h, src, dst, o)
  <2> HIDE DEF ss, sd
  <2> QED BY <1>3, <1>4, <1>5, <1>6 DEF Ordered, ss, sd
<1> QED BY <1>7 DEF o

-----------------------------------------------------------------------------
(* Powers of two.  The provers know nothing of ^; 2^k is the number of the  *)
(* subsets of 1..k, and from one k to the next they double.                 *)

\* Induction on the naturals, as the existence of a least counterexample.
LEMMA LeastNat ==
  ASSUME NEW T, T \subseteq Nat, T # {}
  PROVE  \E x \in T : \A y \in T : x <= y
<1> DEFINE R == OpToRel(<, Nat)
<1>1. IsWellFoundedOn(R, Nat)
  BY NatLessThanWellFounded
<1> HIDE DEF R
<1>2. PICK x \in T : \A y \in T : ~(<<y, x>> \in R)
  BY <1>1, WFMin, Zenon
<1>3. \A y \in T : ~(y < x)
  BY <1>2 DEF R, OpToRel
<1> QED BY <1>3

LEMMA PowerCounts ==
  ASSUME NEW k \in Nat
  PROVE  /\ IsFiniteSet(SUBSET (1..k))
         /\ Cardinality(SUBSET (1..k)) = 2^k
         /\ 2^k \in Nat
<1>1. IsFiniteSet(1..k) /\ Cardinality(1..k) = k
  BY FS_Interval
<1>2. IsFiniteSet(SUBSET (1..k)) /\ Cardinality(SUBSET (1..k)) = 2^Cardinality(1..k)
  BY <1>1, FS_SUBSET
<1>3. Cardinality(SUBSET (1..k)) \in Nat
  BY <1>2, FS_CardinalityType
<1> QED BY <1>1, <1>2, <1>3

LEMMA PowerDoubles ==
  ASSUME NEW k \in Nat
  PROVE  2^(k + 1) = 2 * 2^k
<1> DEFINE S == SUBSET (1..k)
           n == k + 1
           F == [s \in S |-> s \cup {n}]
           T == {s \cup {n} : s \in S}
<1>1. n \notin 1..k /\ 1..n = (1..k) \cup {n} /\ n \in Nat
  OBVIOUS
<1> HIDE DEF n
<1>2. SUBSET (1..n) = S \cup T
  <2>1. ASSUME NEW s \in SUBSET (1..n) PROVE s \in S \cup T
    <3>1. CASE n \notin s
      BY <1>1, <2>1, <3>1
    <3>2. CASE n \in s
      <4>1. s \ {n} \in S /\ s = (s \ {n}) \cup {n}
        BY <1>1, <2>1, <3>2
      <4> QED BY <4>1
    <3> QED BY <3>1, <3>2
  <2>2. ASSUME NEW s \in S \cup T PROVE s \in SUBSET (1..n)
    BY <1>1, <2>2
  <2> QED BY <2>1, <2>2
<1>3. S \cap T = {}
  BY <1>1
<1>4. ExistsBijection(S, T)
  <2>1. F \in [S -> T]
    OBVIOUS
  <2>2. \A t \in T : \E s \in S : F[s] = t
    OBVIOUS
  <2>3. \A a, b \in S : F[a] = F[b] => a = b
    BY <1>1
  <2>4. F \in Bijection(S, T)
    BY <2>1, <2>2, <2>3 DEF Bijection, Injection, Surjection, IsInjective
  <2> QED BY <2>4 DEF ExistsBijection
<1>5. IsFiniteSet(S) /\ Cardinality(S) = 2^k /\ Cardinality(SUBSET (1..n)) = 2^n /\ 2^k \in Nat
  BY PowerCounts, <1>1
<1> HIDE DEF S, T, F
<1>6. IsFiniteSet(T) /\ Cardinality(T) = Cardinality(S)
  BY <1>4, <1>5, FS_Bijection
<1>7. Cardinality(S \cup T) = Cardinality(S) + Cardinality(T) - Cardinality(S \cap T)
  BY <1>5, <1>6, FS_Union
<1>8. Cardinality({}) = 0
  BY FS_EmptySet
<1>9. 2^n = 2 * 2^k
  <2>1. Cardinality(S \cup T) = 2^n
    BY <1>2, <1>5, Zenon
  <2>2. Cardinality(S \cap T) = 0
    BY <1>3, <1>8, Zenon
  <2>3. 2^n = 2^k + 2^k - 0
    BY <1>5, <1>6, <1>7, <2>1, <2>2, Zenon
  <2> QED BY <1>5, <2>3
<1> QED BY <1>9 DEF n

LEMMA PowerPositive ==
  ASSUME NEW k \in Nat
  PROVE  2^k \in Nat \ {0}
<1> DEFINE T == {j \in Nat : 2^j = 0}
<1>1. SUFFICES T = {}
  BY PowerCounts
<1>2. SUFFICES ASSUME T # {} PROVE FALSE
  OBVIOUS
<1>3. PICK x \in T : \A y \in T : x <= y
  BY <1>2, LeastNat
<1>4. CASE x = 0
  BY <1>3, <1>4
<1>5. CASE x # 0
  <2>1. x - 1 \in Nat /\ x = (x - 1) + 1
    BY <1>5
  <2>2. 2^x = 2 * 2^(x - 1)
    BY <2>1, PowerDoubles, Zenon
  <2>3. 2^(x - 1) \in Nat
    BY <2>1, PowerCounts
  <2>4. x - 1 \in T
    BY <1>3, <2>1, <2>2, <2>3
  <2> QED BY <1>3, <2>1, <2>4
<1> QED BY <1>4, <1>5

\* The widths: an operand of bits bits is below twice its sign mask.
LEMMA Widths ==
  ASSUME NEW bits \in Nat \ {0}
  PROVE  /\ Half(bits) \in Nat \ {0}
         /\ 2^bits = 2 * Half(bits)
         /\ Operands(bits) = Value(Half(bits))
<1>1. bits - 1 \in Nat /\ bits = (bits - 1) + 1
  OBVIOUS
<1>2. 2^bits = 2 * 2^(bits - 1)
  BY <1>1, PowerDoubles, Zenon
<1>3. Half(bits) \in Nat \ {0}
  BY <1>1, PowerPositive DEF Half
<1> QED BY <1>2, <1>3 DEF Half, Operands, Value
-----------------------------------------------------------------------------
(* The programs of the unit.                                                *)

LEMMA WidthsOfUnit ==
  /\ Byte \in Nat \ {0} /\ Word \in Nat \ {0} /\ Long \in Nat \ {0}
  /\ 8 \in Nat \ {0} /\ Word = 2 * Byte /\ Long = 2 * Word
BY UnitAssumption DEF Byte, Word, Long

\* What an instruction on D0 and S0 may be.
OneInstruction(i) ==
  /\ i.dst = "D0" /\ i.src = "S0"
  /\ \/ i.op \in Binary \cup Unary /\ i.bits \in {Byte, Word} /\ ~i.memory
     \/ i.op \in Decimals /\ i.bits = 8 /\ ~i.memory
     \/ i.op \in Products \cup Divides \cup {"CHK"} /\ i.bits = Word /\ ~i.memory
     \/ i.op \in Shifts /\ i.bits \in {Byte, Word} /\ i.memory \in BOOLEAN
     \/ i.op \in BitOps /\ i.bits \in {Byte, Long} /\ ~i.memory
     \/ i.op = "TAS" /\ i.bits = Byte /\ ~i.memory
     \/ i.op = "EXT" /\ i.bits \in {Word, Long} /\ ~i.memory
     \/ i.op = "SWAP" /\ i.bits = Long /\ ~i.memory

LEMMA SingleFacts ==
  ASSUME NEW p \in Singles
  PROVE  Len(p) = 1 /\ OneInstruction(p[1])
<1>1. ASSUME NEW op, NEW bits, p = Single(op, bits)
      PROVE  /\ Len(p) = 1 /\ p[1].op = op /\ p[1].bits = bits
             /\ p[1].dst = "D0" /\ p[1].src = "S0" /\ p[1].memory = FALSE
  <2>1. Len(p) = 1 /\ p[1] = Instr(op, bits, "D0", "S0")
    BY <1>1 DEF Single
  <2> QED BY <2>1 DEF Instr
<1>2. ASSUME NEW op, p = MemoryShift(op)
      PROVE  /\ Len(p) = 1 /\ p[1].op = op /\ p[1].bits = Word
             /\ p[1].dst = "D0" /\ p[1].src = "S0" /\ p[1].memory = TRUE
  BY <1>2 DEF MemoryShift, Instr
<1>3. CASE \E op \in Binary \cup Unary, bits \in {Byte, Word} : p = Single(op, bits)
  BY <1>1, <1>3 DEF OneInstruction
<1>4. CASE \E op \in Decimals : p = Single(op, 8)
  BY <1>1, <1>4 DEF OneInstruction
<1>5. CASE \E op \in Products \cup Divides \cup {"CHK"} : p = Single(op, Word)
  BY <1>1, <1>5 DEF OneInstruction
<1>6. CASE \E op \in Shifts, bits \in {Byte, Word} : p = Single(op, bits)
  BY <1>1, <1>6 DEF OneInstruction
<1>7. CASE \E op \in Shifts : p = MemoryShift(op)
  BY <1>2, <1>7 DEF OneInstruction
<1>8. CASE \E op \in BitOps, bits \in {Byte, Long} : p = Single(op, bits)
  BY <1>1, <1>8 DEF OneInstruction
<1>9. CASE p \in {Single("TAS", Byte), Single("EXT", Word), Single("EXT", Long),
                  Single("SWAP", Long)}
  <2>1. CASE p = Single("TAS", Byte)
    BY <1>1, <2>1 DEF OneInstruction
  <2>2. CASE \E bits \in {Word, Long} : p = Single("EXT", bits)
    BY <1>1, <2>2 DEF OneInstruction
  <2>3. CASE p = Single("SWAP", Long)
    BY <1>1, <2>3 DEF OneInstruction
  <2> QED BY <1>9, <2>1, <2>2, <2>3
<1> QED
  BY <1>3, <1>4, <1>5, <1>6, <1>7, <1>8, <1>9 DEF Singles

Pairs == {<<"ADD", "ADDX">>, <<"SUB", "SUBX">>, <<"NEG", "NEGX">>,
          <<"LSL", "ROXL">>, <<"ABCD", "ABCD">>, <<"SBCD", "SBCD">>}

TwoInstructions(i, j) ==
  /\ i.dst = "D0" /\ i.src = "S0" /\ j.dst = "D1" /\ j.src = "S1"
  /\ ~i.memory /\ ~j.memory
  /\ <<i.op, j.op>> \in Pairs /\ j.bits = i.bits
  /\ i.bits = IF i.op \in Decimals THEN 8 ELSE Word

LEMMA ChainFacts ==
  ASSUME NEW p \in Chains
  PROVE  Len(p) = 2 /\ TwoInstructions(p[1], p[2])
<1>1. ASSUME NEW a, NEW b, NEW bits, p = Chain(a, b, bits), <<a, b>> \in Pairs,
             bits = IF a \in Decimals THEN 8 ELSE Word
      PROVE  Len(p) = 2 /\ TwoInstructions(p[1], p[2])
  <2>1. Len(p) = 2 /\ p[1] = Instr(a, bits, "D0", "S0") /\ p[2] = Instr(b, bits, "D1", "S1")
    BY <1>1 DEF Chain
  <2> QED BY <1>1, <2>1 DEF TwoInstructions, Instr
<1>2. PICK a, b, bits : /\ p = Chain(a, b, bits) /\ <<a, b>> \in Pairs
                        /\ bits = IF a \in Decimals THEN 8 ELSE Word
  BY DEF Chains, Pairs, Decimals
<1> QED BY <1>1, <1>2

LEMMA RegisterFacts ==
  ASSUME NEW a, NEW b, NEW c, NEW d, NEW r \in RegisterSets(a, b, c, d)
  PROVE  /\ r = [k \in Registers |-> r[k]]
         /\ r["D0"] \in a /\ r["S0"] \in b /\ r["D1"] \in c /\ r["S1"] \in d
BY DEF RegisterSets, Registers

LEMMA OperandsNat ==
  ASSUME NEW bits \in Nat \ {0}, NEW v
  PROVE  /\ v \in Operands(bits) <=> v \in Nat /\ v < 2^bits
         /\ v \in Dirty(bits) => v \in Nat
         /\ 2^bits \in Nat \ {0} /\ {0, 1} \subseteq Operands(bits)
<1>1. 2^bits \in Nat \ {0} /\ Half(bits) \in Nat \ {0} /\ 2^bits = 2 * Half(bits)
  BY PowerPositive, Widths
<1>2. v \in Operands(bits) <=> v \in Nat /\ v < 2^bits
  BY <1>1 DEF Operands
<1>3. ASSUME v \in Dirty(bits) PROVE v \in Nat
  <2>1. PICK a \in Operands(bits), u \in {0, 1} : v = a + u * 2^bits
    BY <1>3 DEF Dirty
  <2> QED BY <1>1, <2>1 DEF Operands
<1> QED BY <1>1, <1>2, <1>3 DEF Operands

\* A register set of a single instruction holds numbers; a dividend is a long,
\* decimal bytes have two digits.
LEMMA SingleInputs ==
  ASSUME NEW p \in Singles, NEW r \in Inputs(p)
  PROVE  /\ r = [k \in Registers |-> r[k]]
         /\ r["D0"] \in Nat /\ r["S0"] \in Nat
         /\ p[1].op \in Divides => r["D0"] \in Operands(Long)
         /\ p[1].op \in Decimals => r["D0"] \in Digits
         /\ p[1].op \in Decimals \ {"NBCD"} => r["S0"] \in Digits
<1> DEFINE i == p[1]
           d == CASE i.op \in Decimals -> Digits
                  [] i.op \in Divides \cup {"SWAP", "EXT"} \cup BitOps -> Operands(Long)
                  [] Len(p) = 2 /\ i.op \notin Decimals -> Operands(i.bits)
                  [] OTHER -> Dirty(i.bits)
           s == CASE i.op \in Decimals \ {"NBCD"} -> Digits
                  [] i.op \in Shifts -> IF Len(p) = 2 \/ i.memory THEN {1} ELSE Counts
                  [] i.op \in BitOps -> Counts
                  [] i.op \in Binary \cup Products \cup Divides \cup {"CHK"} ->
                       Operands(i.bits)
                  [] OTHER -> {0}
<1>1. Len(p) = 1 /\ OneInstruction(i)
  BY SingleFacts
<1>2. i.bits \in Nat \ {0}
  BY <1>1, WidthsOfUnit DEF OneInstruction
<1>3. r \in RegisterSets(d, s, {0}, {0})
  BY <1>1 DEF Inputs
<1>4. r = [k \in Registers |-> r[k]] /\ r["D0"] \in d /\ r["S0"] \in s
  BY <1>3, RegisterFacts
<1>5. Digits \subseteq Nat /\ Counts \subseteq Nat
  BY UnitAssumption
<1>6. \A v \in d : v \in Nat
  BY <1>1, <1>2, <1>5, OperandsNat, WidthsOfUnit
<1>7. \A v \in s : v \in Nat
  BY <1>1, <1>2, <1>5, OperandsNat
<1>8. /\ i.op \in Divides => d = Operands(Long)
      /\ i.op \in Decimals => d = Digits
      /\ i.op \in Decimals \ {"NBCD"} => s = Digits
  BY <1>1 DEF Divides, Decimals, Shifts, Lefts, BitOps, Binary, Products
<1> QED BY <1>4, <1>6, <1>7, <1>8, Zenon

LEMMA ChainInputs ==
  ASSUME NEW p \in Chains, NEW r \in Inputs(p)
  PROVE  /\ r = [k \in Registers |-> r[k]]
         /\ p[1].op \in Decimals =>
              r["D0"] \in Digits /\ r["S0"] \in Digits /\ r["D1"] \in Digits /\ r["S1"] \in Digits
         /\ p[1].op \notin Decimals => \A k \in Registers : r[k] \in Operands(Word)
         /\ p[1].op = "NEG" => r["S0"] = 0 /\ r["S1"] = 0
         /\ p[1].op = "LSL" => r["S0"] = 1 /\ r["S1"] = 1
<1> DEFINE i == p[1]
           d == CASE i.op \in Decimals -> Digits
                  [] i.op \in Divides \cup {"SWAP", "EXT"} \cup BitOps -> Operands(Long)
                  [] Len(p) = 2 /\ i.op \notin Decimals -> Operands(i.bits)
                  [] OTHER -> Dirty(i.bits)
           s == CASE i.op \in Decimals \ {"NBCD"} -> Digits
                  [] i.op \in Shifts -> IF Len(p) = 2 \/ i.memory THEN {1} ELSE Counts
                  [] i.op \in BitOps -> Counts
                  [] i.op \in Binary \cup Products \cup Divides \cup {"CHK"} ->
                       Operands(i.bits)
                  [] OTHER -> {0}
<1>1. Len(p) = 2 /\ TwoInstructions(i, p[2])
  BY ChainFacts
<1>2. r \in RegisterSets(d, s, d, s)
  BY <1>1, Zenon DEF Inputs
<1>3. /\ r = [k \in Registers |-> r[k]] /\ r["D0"] \in d /\ r["S0"] \in s
      /\ r["D1"] \in d /\ r["S1"] \in s
  BY <1>2, RegisterFacts
<1>4. i.op \in {"ADD", "SUB", "NEG", "LSL", "ABCD", "SBCD"}
  BY <1>1 DEF TwoInstructions, Pairs
<1>5. /\ i.op \in Decimals => d = Digits /\ s = Digits
      /\ i.op \notin Decimals => d = Operands(i.bits) /\ i.bits = Word
      /\ i.op \in {"ADD", "SUB"} => s = Operands(i.bits)
      /\ i.op = "NEG" => s = {0}
      /\ i.op = "LSL" => s = {1}
  BY <1>1, <1>4 DEF TwoInstructions, Decimals, Divides, BitOps, Shifts, Lefts, Binary,
                    Products
<1>6. {0, 1} \subseteq Operands(Word)
  BY OperandsNat, WidthsOfUnit
<1> HIDE DEF d, s, i
<1>7. i.op \in Decimals =>
        r["D0"] \in Digits /\ r["S0"] \in Digits /\ r["D1"] \in Digits /\ r["S1"] \in Digits
  BY <1>3, <1>5
<1>8. i.op \notin Decimals => \A k \in Registers : r[k] \in Operands(Word)
  BY <1>3, <1>4, <1>5, <1>6 DEF Registers, Decimals
<1>9. /\ i.op = "NEG" => r["S0"] = 0 /\ r["S1"] = 0
      /\ i.op = "LSL" => r["S0"] = 1 /\ r["S1"] = 1
  BY <1>3, <1>5
<1> QED BY <1>3, <1>7, <1>8, <1>9 DEF i
-----------------------------------------------------------------------------
(* Quotient and remainder.                                                  *)

LEMMA DivMod ==
  ASSUME NEW a \in Int, NEW b \in Nat \ {0}
  PROVE  /\ a \div b \in Int /\ a % b \in Int /\ 0 <= a % b /\ a % b < b
         /\ a = b * (a \div b) + (a % b)
BY SMT

LEMMA DivisionUnique ==
  ASSUME NEW b \in Nat \ {0}, NEW q \in Int, NEW r \in Int, 0 <= r, r < b,
         NEW p \in Int, NEW s \in Int, 0 <= s, s < b, b * q + r = b * p + s
  PROVE  q = p /\ r = s
<1>1. b * (q - p) = s - r
  OBVIOUS
<1>2. CASE q - p >= 1
  <2>1. b * (q - p) >= b
    BY <1>2
  <2> QED BY <1>1, <2>1
<1>3. CASE q - p <= -1
  <2>1. b * (q - p) <= -b
    BY <1>3
  <2> QED BY <1>1, <2>1
<1>4. CASE q = p
  BY <1>1, <1>4
<1> QED BY <1>2, <1>3, <1>4

LEMMA DivModIs ==
  ASSUME NEW a \in Int, NEW b \in Nat \ {0}, NEW q \in Int, NEW r \in Int,
         0 <= r, r < b, a = b * q + r
  PROVE  a \div b = q /\ a % b = r
BY DivMod, DivisionUnique

\* The conversion of C is the residue, for what a sum of two operands can be.
LEMMA WrapIsResidue ==
  ASSUME NEW h \in Nat \ {0}, NEW u \in Int, -2 * h <= u, u < 4 * h
  PROVE  Wrap(h, u) = u % (2 * h) /\ Wrap(h, u) \in Value(h)
<1> DEFINE b == 2 * h
<1>1. b \in Nat \ {0}
  OBVIOUS
<1>2. CASE u < 0
  BY <1>1, <1>2, DivModIs, u = b * (-1) + (u + b) DEF Wrap, Value
<1>3. CASE u >= b
  BY <1>1, <1>3, DivModIs, u = b * 1 + (u - b) DEF Wrap, Value
<1>4. CASE 0 <= u /\ u < b
  BY <1>1, <1>4, DivModIs, u = b * 0 + u DEF Wrap, Value
<1> QED BY <1>2, <1>3, <1>4

LEMMA ResidueOperand ==
  ASSUME NEW bits \in Nat \ {0}, NEW v \in Int
  PROVE  v % 2^bits \in Operands(bits) /\ v % 2^bits \in Value(Half(bits))
<1>1. 2^bits \in Nat \ {0}
  BY PowerPositive
<1>2. v % 2^bits \in Nat /\ v % 2^bits < 2^bits
  BY <1>1, DivMod
<1>3. v % 2^bits \in Operands(bits)
  BY <1>2, OperandsNat
<1> QED BY <1>3, Widths

LEMMA SignedNegative ==
  ASSUME NEW bits \in Nat \ {0}, NEW w \in Value(Half(bits))
  PROVE  /\ Signed(bits, w) < 0 <=> w >= Half(bits)
         /\ Signed(bits, w) = SignedAt(Half(bits), w) /\ Signed(bits, w) \in Int
<1> DEFINE h == Half(bits)
<1>1. h \in Nat \ {0} /\ 2^bits = 2 * h
  BY Widths
<1>2. Signed(bits, w) = SignedAt(h, w)
  BY <1>1 DEF Signed, SignedAt
<1> HIDE DEF h
<1>3. w \in Int /\ 0 <= w /\ w < 2 * h
  BY <1>1 DEF Value, h
<1>4. SignedAt(h, w) < 0 <=> w >= h
  BY <1>1, <1>3 DEF SignedAt
<1>5. SignedAt(h, w) \in Int
  BY <1>1, <1>3 DEF SignedAt
<1> QED BY <1>2, <1>4, <1>5 DEF h

-----------------------------------------------------------------------------
(* Sums: the seven instructions, against the manual.                        *)

Sums == {"ADD", "SUB", "CMP", "ADDX", "SUBX", "NEG", "NEGX"}

Codes(op, bits, src, dst, x) ==
  IF OverflowSlips(op, bits, src, dst, x) THEN {"x", "n", "z", "c"}
  ELSE {"x", "n", "z", "v", "c"}

SumOutcome(op, h, src, dst, codes) ==
  CASE op = "ADD"  -> Add(h, src, dst)
    [] op = "SUB"  -> Sub(h, src, dst)
    [] op = "CMP"  -> Cmp(h, src, dst, codes)
    [] op = "ADDX" -> Addx(h, src, dst, codes)
    [] op = "SUBX" -> Subx(h, src, dst, codes)
    [] op = "NEG"  -> Neg(h, dst)
    [] op = "NEGX" -> Negx(h, dst, codes)

\* The codes and the value of a sum, read off its outcome.
SumAsManual(op, bits, src, dst, codes, o) ==
  LET m == ManualSum(op, bits, src, dst, codes)
  IN /\ o.value = m.value /\ o.ccr \in CCR
     /\ \A k \in Codes(op, bits, src, dst, codes.x) : o.ccr[k] = m.codes[k]

\* What the parts of an outcome must be, in terms of the whole numbers.
IsSum(op, bits, src, dst, codes, value, x, n, z, v, c) ==
  LET h == Half(bits)
      u == Exact(op, src, dst, X(codes))
      s == Exact(op, SignedAt(h, src), SignedAt(h, dst), X(codes))
      w == Wrap(h, u)
  IN /\ -2 * h <= u /\ u < 4 * h /\ u \in Int
     /\ value = (IF op = "CMP" THEN dst ELSE w)
     /\ x = (IF op = "CMP" THEN codes.x ELSE c)
     /\ c <=> (u < 0 \/ u >= 2 * h)
     /\ n <=> w >= h
     /\ z <=> (w = 0 /\ (op \in {"ADDX", "SUBX", "NEGX"} => codes.z))
     /\ OverflowSlips(op, bits, src, dst, codes.x) \/ (v <=> ~FitsAt(h, s))

LEMMA SumOfManual ==
  ASSUME NEW bits \in Nat \ {0}, NEW src \in Operands(bits), NEW dst \in Operands(bits),
         NEW codes \in CCR, NEW op \in Sums, NEW value, NEW x \in BOOLEAN, NEW n \in BOOLEAN,
         NEW z \in BOOLEAN, NEW v \in BOOLEAN, NEW c \in BOOLEAN,
         IsSum(op, bits, src, dst, codes, value, x, n, z, v, c)
  PROVE  SumAsManual(op, bits, src, dst, codes, Outcome(value, x, n, z, v, c))
<1> DEFINE h == Half(bits)
           u == Exact(op, src, dst, X(codes))
           s == Exact(op, SignedAt(h, src), SignedAt(h, dst), X(codes))
           w == Wrap(h, u)
           m == ManualSum(op, bits, src, dst, codes)
<1> USE DEF IsSum
<1>1. h \in Nat \ {0} /\ 2^bits = 2 * h /\ Operands(bits) = Value(h)
  BY Widths
<1>2. w = u % 2^bits /\ w \in Value(h)
  BY <1>1, WrapIsResidue
<1>3. u \notin Operands(bits) <=> (u < 0 \/ u >= 2 * h)
  BY <1>1 DEF Value
<1>4. Signed(bits, w) < 0 <=> w >= h
  BY <1>2, SignedNegative
<1>5. ManualOverflow(op, bits, src, dst, codes) <=> ~FitsAt(h, s)
  BY <1>1 DEF ManualOverflow, Fits, FitsAt, Signed, SignedAt
<1>6. /\ m.value = (IF op = "CMP" THEN dst ELSE w)
      /\ m.codes.x = (IF op = "CMP" THEN codes.x ELSE u \notin Operands(bits))
      /\ m.codes.n = (Signed(bits, w) < 0)
      /\ m.codes.z = (w = 0 /\ (op \in {"ADDX", "SUBX", "NEGX"} => codes.z))
      /\ m.codes.v = ManualOverflow(op, bits, src, dst, codes)
      /\ m.codes.c = (u \notin Operands(bits))
  BY <1>2, Zenon DEF ManualSum, Unsigned
<1>7. /\ m.codes.x = x /\ m.codes.n = n /\ m.codes.z = z /\ m.codes.c = c
      /\ OverflowSlips(op, bits, src, dst, codes.x) \/ m.codes.v = v
      /\ m.value = value
  <2>1. c = (u \notin Operands(bits))
    BY <1>3
  <2>2. n = (Signed(bits, w) < 0)
    BY <1>4
  <2>3. z = (w = 0 /\ (op \in {"ADDX", "SUBX", "NEGX"} => codes.z))
    BY Zenon
  <2>4. \/ OverflowSlips(op, bits, src, dst, codes.x)
        \/ v = ManualOverflow(op, bits, src, dst, codes)
    BY <1>5 DEF ManualOverflow
  <2> HIDE DEF u, w, m, s, h
  <2> QED BY <1>6, <2>1, <2>2, <2>3, <2>4, Zenon DEF u, w, h
<1> DEFINE o == Outcome(value, x, n, z, v, c)
<1>8. /\ o.value = value /\ o.ccr.x = x /\ o.ccr.n = n /\ o.ccr.z = z /\ o.ccr.v = v
      /\ o.ccr.c = c /\ o.ccr \in CCR
  BY DEF Outcome, CCR
<1> HIDE DEF o, m
<1>9. \A k \in Codes(op, bits, src, dst, codes.x) : o.ccr[k] = m.codes[k]
  BY <1>7, <1>8, Zenon DEF Codes
<1> QED BY <1>7, <1>8, <1>9, Zenon DEF SumAsManual, o, m

LEMMA SumLeaves ==
  ASSUME NEW bits \in Nat \ {0}, NEW src \in Operands(bits), NEW dst \in Operands(bits),
         NEW codes \in CCR, NEW op \in Sums
  PROVE  SumAsManual(op, bits, src, dst, codes,
                     SumOutcome(op, Half(bits), src, dst, codes))
<1> DEFINE h == Half(bits)
           X0 == X(codes)
           O == SumOutcome(op, h, src, dst, codes)
           V(w) == Sign(h, dst) # Sign(h, src) /\ Sign(h, dst) # Sign(h, w)
           W(w) == Sign(h, dst) = Sign(h, src) /\ Sign(h, dst) # Sign(h, w)
<1>1. h \in Nat \ {0} /\ Operands(bits) = Value(h)
  BY Widths
<1>2. X0 \in {0, 1} /\ (X0 = 1 <=> codes.x) /\ codes.x \in BOOLEAN /\ codes.z \in BOOLEAN
  BY DEF X, CCR
<1>3. src \in Value(h) /\ dst \in Value(h)
  BY <1>1
<1>4. /\ src \in Int /\ 0 <= src /\ src < 2 * h
      /\ dst \in Int /\ 0 <= dst /\ dst < 2 * h
  BY <1>1, <1>3, OperandBounds
<1>5. \A w : Sign(h, w) \in BOOLEAN
  BY DEF Sign
<1> HIDE DEF h, X0
<1>10. CASE op = "ADD"
  <2> DEFINE w == Wrap(h, dst + src)
             z == w = 0
             v == W(w)
             n == Sign(h, w)
             c == dst + src > 2 * h - 1
  <2>1. IsSum(op, bits, src, dst, codes, w, c, n, z, v, c)
    BY <1>1, <1>3, <1>4, <1>10, SumExact DEF IsSum, Exact, ExactSum, Sign, h
  <2>2. O = Outcome(w, c, n, z, v, c)
    BY <1>10 DEF SumOutcome, Add
  <2>3. n \in BOOLEAN /\ z \in BOOLEAN /\ v \in BOOLEAN /\ c \in BOOLEAN
    BY <1>5
  <2> HIDE DEF w, c, z, v, n, O
  <2>4. SumAsManual(op, bits, src, dst, codes, O)
    BY <1>1, <2>1, <2>2, <2>3, SumOfManual
  <2> QED BY <2>4 DEF O, h
<1>11. CASE op = "SUB"
  <2> DEFINE w == Wrap(h, dst - src)
             z == w = 0
             v == V(w)
             n == Sign(h, w)
             c == src > dst
  <2>1. IsSum(op, bits, src, dst, codes, w, c, n, z, v, c)
    BY <1>1, <1>3, <1>4, <1>11, DifferenceExact DEF IsSum, Exact, ExactSum, Sign, h
  <2>2. O = Outcome(w, c, n, z, v, c)
    BY <1>11 DEF SumOutcome, Sub
  <2>3. n \in BOOLEAN /\ z \in BOOLEAN /\ v \in BOOLEAN /\ c \in BOOLEAN
    BY <1>5
  <2> HIDE DEF w, c, z, v, n, O
  <2>4. SumAsManual(op, bits, src, dst, codes, O)
    BY <1>1, <2>1, <2>2, <2>3, SumOfManual
  <2> QED BY <2>4 DEF O, h
<1>12. CASE op = "CMP"
  <2> DEFINE w == Wrap(h, dst - src)
             z == w = 0
             v == V(w)
             n == Sign(h, w)
             c == src > dst
  <2>1. IsSum(op, bits, src, dst, codes, dst, codes.x, n, z, v, c)
    BY <1>1, <1>3, <1>4, <1>12, DifferenceExact DEF IsSum, Exact, ExactSum, Sign, h
  <2>2. O = Outcome(dst, codes.x, n, z, v, c)
    BY <1>12 DEF SumOutcome, Cmp
  <2>3. n \in BOOLEAN /\ z \in BOOLEAN /\ v \in BOOLEAN /\ c \in BOOLEAN
    BY <1>5
  <2> HIDE DEF w, c, z, v, n, O
  <2>4. SumAsManual(op, bits, src, dst, codes, O)
    BY <1>2, <1>1, <2>1, <2>2, <2>3, SumOfManual
  <2> QED BY <2>4 DEF O, h
<1>13. CASE op = "ADDX"
  <2> DEFINE w == Wrap(h, dst + src + X0)
             v == W(w)
             n == Sign(h, w)
             c == dst + src + X0 > 2 * h - 1
             z == codes.z /\ w = 0
  <2>1. IsSum(op, bits, src, dst, codes, w, c, n, z, v, c)
    BY <1>1, <1>2, <1>3, <1>4, <1>13, ExtendedSumExact
       DEF IsSum, Exact, ExactSum, Sign, h, X0
  <2>2. O = Outcome(w, c, n, z, v, c)
    BY <1>13 DEF SumOutcome, Addx, X0
  <2>3. n \in BOOLEAN /\ z \in BOOLEAN /\ v \in BOOLEAN /\ c \in BOOLEAN
    BY <1>5
  <2> HIDE DEF w, c, z, v, n, O
  <2>4. SumAsManual(op, bits, src, dst, codes, O)
    BY <1>1, <2>1, <2>2, <2>3, SumOfManual
  <2> QED BY <2>4 DEF O, h
<1>14. CASE op = "SUBX"
  <2> DEFINE w == Wrap(h, dst - (src + X0))
             n == Sign(h, w)
             c == src + X0 > dst
             z == codes.z /\ w = 0
             v == /\ Sign(h, dst) # Sign(h, Wrap(h, src + X0))
                  /\ Sign(h, dst) # Sign(h, w)
  <2>1. dst - (src + X0) = dst - src - X0
    BY <1>2, <1>4
  <2>v. \/ OverflowSlips(op, bits, src, dst, codes.x)
        \/ v <=> ~FitsAt(h, SignedAt(h, dst) - SignedAt(h, src) - X0)
    <3>1. CASE X0 = 1 /\ src = h - 1
      BY <1>2, <1>14, <3>1 DEF OverflowSlips, h
    <3>2. CASE ~(X0 = 1 /\ src = h - 1)
      BY <1>1, <1>2, <1>3, <3>2, ExtendedDifferenceOverflow
    <3> QED BY <3>1, <3>2
  <2>2. IsSum(op, bits, src, dst, codes, w, c, n, z, v, c)
    <3> HIDE DEF v
    <3> QED BY <1>1, <1>2, <1>4, <1>14, <2>1, <2>v DEF IsSum, Exact, Sign, h, X0
  <2>3. O = Outcome(w, c, n, z, v, c)
    BY <1>14 DEF SumOutcome, Subx, X0
  <2>4. n \in BOOLEAN /\ z \in BOOLEAN /\ v \in BOOLEAN /\ c \in BOOLEAN
    BY <1>5
  <2> HIDE DEF w, c, z, v, n, O
  <2>5. SumAsManual(op, bits, src, dst, codes, O)
    BY <1>1, <2>2, <2>3, <2>4, SumOfManual
  <2> QED BY <2>5 DEF O, h
<1>15. CASE op = "NEG"
  <2> DEFINE w == Wrap(h, 0 - dst)
             z == w = 0
             v == dst = h
             n == Sign(h, w)
             c == dst # 0
  <2>1. 0 - dst = -dst
    BY <1>4
  <2>2. IsSum(op, bits, src, dst, codes, w, c, n, z, v, c)
    BY <1>1, <1>4, <1>15, <2>1 DEF IsSum, Exact, Sign, h, FitsAt, SignedAt
  <2>3. O = Outcome(w, c, n, z, v, c)
    BY <1>15 DEF SumOutcome, Neg
  <2>4. n \in BOOLEAN /\ z \in BOOLEAN /\ v \in BOOLEAN /\ c \in BOOLEAN
    BY <1>5
  <2> HIDE DEF w, c, z, v, n, O
  <2>5. SumAsManual(op, bits, src, dst, codes, O)
    BY <1>1, <2>2, <2>3, <2>4, SumOfManual
  <2> QED BY <2>5 DEF O, h
<1>16. CASE op = "NEGX"
  <2> DEFINE w == Wrap(h, 0 - dst - X0)
             n == Sign(h, w)
             c == dst # 0 \/ codes.x
             z == codes.z /\ w = 0
             v == Sign(h, Wrap(h, dst + X0)) /\ Sign(h, w)
  <2>1. 0 - dst - X0 = -dst - X0
    BY <1>2, <1>4
  <2>v. \/ OverflowSlips(op, bits, src, dst, codes.x)
        \/ v <=> ~FitsAt(h, -SignedAt(h, dst) - X0)
    <3>1. CASE X0 = 1 /\ dst = h - 1
      BY <1>2, <1>16, <3>1 DEF OverflowSlips, h
    <3>2. CASE ~(X0 = 1 /\ dst = h - 1)
      BY <1>1, <1>2, <1>3, <3>2, ExtendedNegationOverflow
    <3> QED BY <3>1, <3>2
  <2>2. IsSum(op, bits, src, dst, codes, w, c, n, z, v, c)
    <3> HIDE DEF v
    <3> QED BY <1>1, <1>2, <1>4, <1>16, <2>1, <2>v DEF IsSum, Exact, Sign, h, X0
  <2>3. O = Outcome(w, c, n, z, v, c)
    BY <1>16 DEF SumOutcome, Negx, X0
  <2>4. n \in BOOLEAN /\ z \in BOOLEAN /\ v \in BOOLEAN /\ c \in BOOLEAN
    BY <1>5
  <2> HIDE DEF w, c, z, v, n, O
  <2>5. SumAsManual(op, bits, src, dst, codes, O)
    BY <1>1, <2>2, <2>3, <2>4, SumOfManual
  <2> QED BY <2>5 DEF O, h
<1> QED BY <1>10, <1>11, <1>12, <1>13, <1>14, <1>15, <1>16 DEF Sums
-----------------------------------------------------------------------------
(* The invariant.  Until the first instruction retires the registers and    *)
(* codes are those of the start; behind it they are what the manual says of *)
(* it; behind the second the two parts make up the long number.             *)

Place ==
  /\ code \in Singles \cup Chains
  /\ at \in 1 .. Len(code) + 1
  /\ start.reg \in Inputs(code) /\ start.ccr \in StartCodes(code)
  /\ at = 1 => reg = start.reg /\ ccr = start.ccr /\ trap = 0

\* The manual's outcome of instruction i on the registers r and the codes c.
AsManual(i, r, c, value, codes, vector) ==
  LET m == Manual(i, r[i.src], r[i.dst], c)
  IN /\ value = m.value /\ vector = m.trap /\ codes \in CCR
     /\ \A k \in Defined(i, r[i.src], r[i.dst], c, m) : codes[k] = m.codes[k]

After ==
  at = 2 => LET i == code[1]
            IN /\ AsManual(i, start.reg, start.ccr, reg[i.dst], ccr, trap)
               /\ reg = [start.reg EXCEPT ![i.dst] = reg[i.dst]]

LEMMA StartCodesTyped ==
  ASSUME NEW p, NEW c \in StartCodes(p)
  PROVE  c \in CCR
<1>1. \A x, b \in BOOLEAN : AllCodes(x, b) \in CCR
  BY DEF AllCodes, CCR
<1>2. VariedCodes \subseteq CCR
  BY <1>1 DEF VariedCodes
<1>3. {AllCodes(TRUE, TRUE)} \subseteq CCR
  BY <1>1
<1>4. StartCodes(p) \subseteq CCR
  BY <1>2, <1>3, Zenon DEF StartCodes
<1> QED BY <1>4

LEMMA NextShape ==
  ASSUME Next
  PROVE  /\ at <= Len(code) /\ trap = 0
         /\ \E v, c, t : Retire(v, c, t)
BY DEF Next, Current, Arithmetic, Extended, UnaryRmw, Test, LogicBinary, PackedDecimal,
       ShiftRotate, ShiftRotateMemory, BitNumbered, TestAndSet, ExtendOrSwap,
       MultiplyWords, DivideLong, CheckBounds, Narrow

LEMMA CodeLength ==
  ASSUME code \in Singles \cup Chains
  PROVE  /\ code \in Singles => Len(code) = 1 /\ OneInstruction(code[1])
         /\ code \in Chains => Len(code) = 2 /\ TwoInstructions(code[1], code[2])
         /\ Len(code) \in {1, 2}
BY SingleFacts, ChainFacts

LEMMA PlaceInit == Init => Place
BY CodeLength DEF Init, Place

LEMMA PlaceStep == Place /\ [Next]_vars => Place'
<1> SUFFICES ASSUME Place, [Next]_vars PROVE Place'
  OBVIOUS
<1>1. CASE Next
  <2>1. at <= Len(code) /\ at' = at + 1 /\ code' = code /\ start' = start
    BY <1>1, NextShape DEF Retire
  <2>2. Len(code) \in {1, 2}
    BY CodeLength DEF Place
  <2> QED BY <2>1, <2>2 DEF Place
<1>2. CASE UNCHANGED vars
  BY <1>2 DEF Place, vars
<1> QED BY <1>1, <1>2

\* Before the first instruction.
LEMMA First ==
  ASSUME Place, at = 1
  PROVE  /\ Ins = code[1] /\ Ins.dst = "D0" /\ Ins.src = "S0"
         /\ reg = start.reg /\ ccr = start.ccr /\ ccr \in CCR
         /\ reg = [k \in Registers |-> reg[k]]
         /\ Ins.bits \in Nat \ {0}
         /\ reg["D0"] \in Nat /\ reg["S0"] \in Nat
         /\ OneInstruction(Ins) \/ TwoInstructions(Ins, code[2])
<1>1. /\ Ins = code[1] /\ reg = start.reg /\ ccr = start.ccr /\ ccr \in CCR
      /\ reg \in Inputs(code)
  BY StartCodesTyped DEF Place, Ins
<1>2. CASE code \in Singles
  <2>1. OneInstruction(Ins)
    BY <1>1, <1>2, SingleFacts
  <2>2. Ins.bits \in Nat \ {0} /\ Ins.dst = "D0" /\ Ins.src = "S0"
    BY <2>1, WidthsOfUnit DEF OneInstruction
  <2> QED BY <1>1, <1>2, <2>1, <2>2, SingleInputs
<1>3. CASE code \in Chains
  <2>1. TwoInstructions(Ins, code[2])
    BY <1>1, <1>3, ChainFacts
  <2>2. Ins.bits \in Nat \ {0} /\ Ins.dst = "D0" /\ Ins.src = "S0"
    BY <2>1, WidthsOfUnit DEF TwoInstructions
  <2>3. Digits \subseteq Nat /\ Operands(Word) \subseteq Nat
    BY UnitAssumption, OperandsNat, WidthsOfUnit
  <2>4. reg["D0"] \in Nat /\ reg["S0"] \in Nat /\ reg = [k \in Registers |-> reg[k]]
    BY <1>1, <1>3, <2>3, ChainInputs DEF Registers
  <2> QED BY <1>1, <2>1, <2>2, <2>4
<1> QED BY <1>2, <1>3 DEF Place

\* Retiring what the manual says is what After asks.
LEMMA Lands ==
  ASSUME Place, at = 1, NEW v, NEW c, NEW t, Retire(v, c, t),
         AsManual(Ins, reg, ccr, v, c, t)
  PROVE  After'
<1>1. /\ Ins = code[1] /\ Ins.dst = "D0" /\ reg = start.reg /\ ccr = start.ccr
      /\ reg = [k \in Registers |-> reg[k]]
  BY First
<1>2. /\ reg' = [reg EXCEPT ![Ins.dst] = v] /\ ccr' = c /\ trap' = t
      /\ code' = code /\ start' = start
  BY DEF Retire
<1>3. reg'["D0"] = v
  BY <1>1, <1>2 DEF Registers
<1> DEFINE i == code[1]
<1>4. AsManual(i, start.reg, start.ccr, reg'[i.dst], ccr', trap')
  BY <1>1, <1>2, <1>3
<1>5. reg' = [start.reg EXCEPT ![i.dst] = reg'[i.dst]]
  BY <1>1, <1>2, <1>3
<1> QED BY <1>2, <1>4, <1>5 DEF After

-----------------------------------------------------------------------------
(* One instruction: sums.                                                   *)

LEMMA ManualOfSum ==
  ASSUME NEW i, i.op \in Sums, NEW s, NEW d, NEW c
  PROVE  LET m == ManualSum(i.op, i.bits, s % 2^i.bits, d % 2^i.bits, c)
         IN Manual(i, s, d, c)
              = [value |-> Keep(i.bits, d, m.value), codes |-> m.codes, trap |-> 0]
BY DEF Manual, Sums, Shifts, Lefts, Decimals, BitOps, Divides

LEMMA SumCodes ==
  ASSUME NEW op, NEW bits, NEW s, NEW d, NEW c
  PROVE  DOMAIN ManualSum(op, bits, s, d, c).codes = {"x", "n", "z", "v", "c"}
BY DEF ManualSum

LEMMA SumStep ==
  ASSUME Place, at = 1, Ins.op \in Sums,
         Narrow(SumOutcome(Ins.op, Half(Ins.bits), Src, Dst, ccr))
  PROVE  After'
<1> DEFINE i == Ins
           o == SumOutcome(i.op, Half(i.bits), Src, Dst, ccr)
           m == ManualSum(i.op, i.bits, Src, Dst, ccr)
<1>1. /\ i.dst = "D0" /\ i.src = "S0" /\ ccr \in CCR /\ i.bits \in Nat \ {0}
      /\ reg["D0"] \in Nat /\ reg["S0"] \in Nat
  BY First
<1>2. Src \in Operands(i.bits) /\ Dst \in Operands(i.bits)
  BY <1>1, ResidueOperand DEF Src, Dst
<1>3. SumAsManual(i.op, i.bits, Src, Dst, ccr, o)
  BY <1>1, <1>2, SumLeaves
<1>4. Manual(i, reg[i.src], reg[i.dst], ccr)
        = [value |-> Keep(i.bits, reg[i.dst], m.value), codes |-> m.codes, trap |-> 0]
  BY ManualOfSum DEF Src, Dst
<1>5. DOMAIN m.codes = {"x", "n", "z", "v", "c"}
  BY SumCodes
<1> DEFINE M == Manual(i, reg[i.src], reg[i.dst], ccr)
<1>6. Defined(i, reg[i.src], reg[i.dst], ccr, M) = Codes(i.op, i.bits, Src, Dst, ccr.x)
  <2> DEFINE slips == OverflowSlips(i.op, i.bits, Src, Dst, ccr.x)
             five == {"x", "n", "z", "v", "c"}
  <2>1. Defined(i, reg[i.src], reg[i.dst], ccr, M)
          = DOMAIN M.codes \ (IF slips THEN {"v"} ELSE {})
    BY Zenon DEF Defined, Src, Dst
  <2>2. DOMAIN M.codes = five
    <3> HIDE DEF m
    <3> QED BY <1>4, <1>5
  <2>3. Codes(i.op, i.bits, Src, Dst, ccr.x)
          = IF slips THEN {"x", "n", "z", "c"} ELSE five
    BY Zenon DEF Codes
  <2>4. five \ {"v"} = {"x", "n", "z", "c"} /\ five \ {} = five
    OBVIOUS
  <2> HIDE DEF slips, five, M
  <2> QED BY <2>1, <2>2, <2>3, <2>4, Zenon
<1>7. /\ o.value = m.value /\ o.ccr \in CCR
      /\ \A k \in Codes(i.op, i.bits, Src, Dst, ccr.x) : o.ccr[k] = m.codes[k]
  BY <1>3 DEF SumAsManual
<1>8. M.value = Keep(i.bits, reg[i.dst], m.value) /\ M.codes = m.codes /\ M.trap = 0
  BY <1>4
<1> HIDE DEF M, o, m
<1>9. AsManual(i, reg, ccr, Keep(i.bits, reg[i.dst], o.value), o.ccr, 0)
  BY <1>6, <1>7, <1>8, Zenon DEF AsManual, M
<1>10. Retire(Keep(i.bits, reg[i.dst], o.value), o.ccr, 0)
  BY DEF Narrow, o
<1> QED BY <1>9, <1>10, Lands

\* emit_alu_ea_to_dreg and its kin, emit_addsubx, and the negations of
\* emit_unary_rmw_generic.
LEMMA ArithmeticStep ==
  ASSUME Place, at = 1, Arithmetic PROVE After'
<1>1. Ins.op \in {"ADD", "SUB", "CMP"}
  BY First DEF Arithmetic, Current, Ins
<1>2. Narrow(SumOutcome(Ins.op, Half(Ins.bits), Src, Dst, ccr))
  BY <1>1 DEF Arithmetic, SumOutcome
<1> QED BY <1>1, <1>2, SumStep DEF Sums

LEMMA ExtendedStep ==
  ASSUME Place, at = 1, Extended PROVE After'
<1>1. Ins.op \in {"ADDX", "SUBX"}
  BY First DEF Extended, Current, Ins
<1>2. Narrow(SumOutcome(Ins.op, Half(Ins.bits), Src, Dst, ccr))
  BY <1>1 DEF Extended, SumOutcome
<1> QED BY <1>1, <1>2, SumStep DEF Sums

LEMMA NegateStep ==
  ASSUME Place, at = 1, UnaryRmw, Ins.op # "NOT" PROVE After'
<1>1. Ins.op \in {"NEG", "NEGX"}
  BY First DEF UnaryRmw, Current, Ins
<1>2. Narrow(SumOutcome(Ins.op, Half(Ins.bits), Src, Dst, ccr))
  BY <1>1 DEF UnaryRmw, SumOutcome
<1> QED BY <1>1, <1>2, SumStep DEF Sums
-----------------------------------------------------------------------------
(* One instruction: those that leave a value and its sign and zero.         *)

LEMMA NzAsManual ==
  ASSUME NEW bits \in Nat \ {0}, NEW v \in Operands(bits), NEW c \in CCR
  PROVE  LET o == ng_set_nz(Half(bits), v, c)
         IN o.value = v /\ o.ccr = NZ(bits, v, c) /\ o.ccr \in CCR
<1>1. Sign(Half(bits), v) = (Signed(bits, v) < 0)
  BY Widths, SignedNegative DEF Sign
<1>2. c.x \in BOOLEAN /\ Sign(Half(bits), v) \in BOOLEAN
  BY DEF CCR, Sign
<1> QED BY <1>1, <1>2 DEF ng_set_nz, Outcome, NZ, CCR

\* A part of a register is written; the manual's codes are all defined.
LEMMA PartStep ==
  ASSUME Place, at = 1, NEW v, NEW c \in CCR,
         Ins.op \notin {"SUBX", "NEGX"},
         Manual(Ins, reg[Ins.src], reg[Ins.dst], ccr)
           = [value |-> Keep(Ins.bits, reg[Ins.dst], v), codes |-> c, trap |-> 0],
         Narrow([value |-> v, ccr |-> c])
  PROVE  After'
<1> DEFINE r == Keep(Ins.bits, reg[Ins.dst], v)
<1>1. AsManual(Ins, reg, ccr, r, c, 0)
  BY DEF AsManual
<1>2. Retire(r, c, 0)
  BY DEF Narrow
<1> QED BY <1>1, <1>2, Lands

LEMMA PlainStep ==
  ASSUME Place, at = 1, NEW v \in Operands(Ins.bits),
         Ins.op \notin {"SUBX", "NEGX"},
         Manual(Ins, reg[Ins.src], reg[Ins.dst], ccr)
           = [value |-> Keep(Ins.bits, reg[Ins.dst], v),
              codes |-> NZ(Ins.bits, v, ccr), trap |-> 0],
         Narrow(ng_set_nz(Half(Ins.bits), v, ccr))
  PROVE  After'
<1> DEFINE o == ng_set_nz(Half(Ins.bits), v, ccr)
<1>1. ccr \in CCR /\ Ins.bits \in Nat \ {0}
  BY First
<1>2. o.value = v /\ o.ccr = NZ(Ins.bits, v, ccr) /\ o.ccr \in CCR
  BY <1>1, NzAsManual
<1>3. Narrow([value |-> v, ccr |-> NZ(Ins.bits, v, ccr)])
  BY <1>2 DEF Narrow
<1> QED BY <1>2, <1>3, PartStep

\* What the operands are, before the first instruction.
LEMMA FirstOperands ==
  ASSUME Place, at = 1
  PROVE  /\ Src \in Operands(Ins.bits) /\ Dst \in Operands(Ins.bits)
         /\ Src = reg["S0"] % 2^Ins.bits /\ Dst = reg["D0"] % 2^Ins.bits
BY First, ResidueOperand DEF Src, Dst

\* emit_tst_generic
LEMMA TestStep ==
  ASSUME Place, at = 1, Test PROVE After'
<1>1. Ins.op = "TST"
  BY First DEF Test, Current, Ins
<1>2. Manual(Ins, reg[Ins.src], reg[Ins.dst], ccr)
        = [value |-> Keep(Ins.bits, reg[Ins.dst], Dst),
           codes |-> NZ(Ins.bits, Dst, ccr), trap |-> 0]
  BY <1>1 DEF Manual, Dst, Shifts, Lefts, Decimals, BitOps, Divides
<1> QED BY <1>1, <1>2, PlainStep, FirstOperands DEF Test

-----------------------------------------------------------------------------
(* Powers and bits.                                                         *)

LEMMA PowerSum ==
  ASSUME NEW a \in Nat, NEW b \in Nat
  PROVE  2^(a + b) = 2^a * 2^b
<1> DEFINE T == {j \in Nat : 2^(a + j) # 2^a * 2^j}
<1>1. SUFFICES ASSUME T # {} PROVE FALSE
  OBVIOUS
<1>2. PICK x \in T : \A y \in T : x <= y
  BY <1>1, LeastNat
<1>3. 2^0 = 1 /\ 2^a \in Nat
  <2>1. 2^0 = 1
    OBVIOUS
  <2> QED BY <2>1, PowerCounts
<1>4. CASE x = 0
  <2>1. a + x = a
    BY <1>4
  <2>2. 2^(a + x) = 2^a * 2^x
    BY <2>1, <1>3, <1>4
  <2> QED BY <1>2, <2>2
<1>5. CASE x # 0
  <2> DEFINE y == x - 1
             n == a + y
  <2>1. y \in Nat /\ x = y + 1 /\ n \in Nat /\ a + x = n + 1 /\ y \notin T
    BY <1>2, <1>5
  <2>2. 2^n = 2^a * 2^y
    BY <2>1
  <2> HIDE DEF y, n
  <2>3. 2^(n + 1) = 2 * 2^n /\ 2^(y + 1) = 2 * 2^y /\ 2^y \in Nat /\ 2^n \in Nat
    BY <2>1, PowerDoubles, PowerCounts
  <2>4. 2^x = 2 * 2^y /\ 2^(a + x) = 2 * 2^n
    BY <2>1, <2>3
  <2>5. 2 * (2^a * 2^y) = 2^a * (2 * 2^y)
    BY <1>3, <2>3
  <2>6. 2^(a + x) = 2^a * 2^x
    BY <2>2, <2>4, <2>5
  <2> QED BY <1>2, <2>6
<1> QED BY <1>4, <1>5

LEMMA PowerMonotone ==
  ASSUME NEW a \in Nat, NEW b \in Nat, a <= b
  PROVE  2^a <= 2^b /\ 2^b = 2^a * 2^(b - a)
<1>1. b - a \in Nat /\ b = a + (b - a)
  OBVIOUS
<1>2. 2^b = 2^a * 2^(b - a)
  BY <1>1, PowerSum, Zenon
<1>3. 2^a \in Nat \ {0} /\ 2^(b - a) \in Nat \ {0}
  BY <1>1, PowerPositive
<1> DEFINE p == 2^a
           q == 2^(b - a)
<1>4. p * q >= p
  <2> HIDE DEF p, q
  <2>1. p \in Nat \ {0} /\ q \in Nat \ {0}
    BY <1>3 DEF p, q
  <2>2. p * (q - 1) >= 0
    BY <2>1
  <2> QED BY <2>1, <2>2
<1> QED BY <1>2, <1>4

LEMMA BitIs ==
  ASSUME NEW v \in Int, NEW k \in Nat
  PROVE  Bit(v, k) \in {0, 1}
<1>1. 2^k \in Nat \ {0}
  BY PowerPositive
<1>2. v \div 2^k \in Int
  BY <1>1, DivMod
<1> QED BY <1>2, DivMod DEF Bit

\* One more bit of a number.
LEMMA BitStep ==
  ASSUME NEW v \in Int, NEW n \in Nat
  PROVE  /\ v % 2^(n + 1) = (v % 2^n) + 2^n * Bit(v, n)
         /\ v \div 2^(n + 1) = (v \div 2^n) \div 2
<1> DEFINE p == 2^n
           q == v \div p
           r == v % p
           c == q % 2
           d == q \div 2
<1>1. p \in Nat \ {0} /\ 2^(n + 1) = 2 * p
  BY PowerPositive, PowerDoubles
<1> HIDE DEF p
<1>2. q \in Int /\ r \in Int /\ 0 <= r /\ r < p /\ v = p * q + r
  BY <1>1, DivMod
<1>3. c \in {0, 1} /\ d \in Int /\ q = 2 * d + c
  BY <1>2, DivMod
<1>4. Bit(v, n) = c
  BY DEF Bit, p
<1> HIDE DEF q, r, c, d
<1>5. v = (2 * p) * d + (r + p * c)
  <2>1. p * q = p * (2 * d) + p * c
    BY <1>1, <1>3
  <2>2. p * (2 * d) = (2 * p) * d
    BY <1>1, <1>3
  <2> QED BY <1>1, <1>2, <1>3, <2>1, <2>2
<1>6. r + p * c \in Int /\ 0 <= r + p * c /\ r + p * c < 2 * p
  BY <1>1, <1>2, <1>3
<1>7. v % (2 * p) = r + p * c /\ v \div (2 * p) = d
  BY <1>1, <1>3, <1>5, <1>6, DivModIs
<1> QED BY <1>1, <1>4, <1>7 DEF p, q, r, d

\* The bits of an operand determine it.
LEMMA BitsDetermine ==
  ASSUME NEW bits \in Nat, NEW v \in Int, NEW w \in Int,
         \A k \in 0..(bits - 1) : Bit(v, k) = Bit(w, k)
  PROVE  v % 2^bits = w % 2^bits
<1> DEFINE T == {j \in Nat : j <= bits /\ v % 2^j # w % 2^j}
<1> SUFFICES ASSUME v % 2^bits # w % 2^bits PROVE FALSE
  OBVIOUS
<1>1. bits \in T
  OBVIOUS
<1>2. PICK x \in T : \A y \in T : x <= y
  BY <1>1, LeastNat
<1>3. CASE x = 0
  <2>1. 2^x = 1
    BY <1>3
  <2>2. v % 1 = 0 /\ w % 1 = 0
    BY DivMod
  <2> QED BY <1>2, <2>1, <2>2
<1>4. CASE x # 0
  <2> DEFINE y == x - 1
  <2>1. y \in Nat /\ x = y + 1 /\ y \notin T /\ y <= bits /\ y \in 0..(bits - 1)
    BY <1>2, <1>4
  <2>2. v % 2^y = w % 2^y
    BY <2>1
  <2> HIDE DEF y
  <2>3. v % 2^x = w % 2^x
    BY <2>1, <2>2, BitStep
  <2> QED BY <1>2, <2>3
<1> QED BY <1>3, <1>4

LEMMA SmallResidue ==
  ASSUME NEW bits \in Nat, NEW v \in Nat, v < 2^bits
  PROVE  v % 2^bits = v /\ v \div 2^bits = 0
<1> DEFINE b == 2^bits
<1>1. b \in Nat \ {0}
  BY PowerPositive
<1> HIDE DEF b
<1>2. v = b * 0 + v
  BY <1>1
<1>3. v % b = v /\ v \div b = 0
  BY <1>1, <1>2, v < b, DivModIs DEF b
<1> QED BY <1>3 DEF b

\* Bits below n are those of the number below 2^n.
LEMMA BitsBelow ==
  ASSUME NEW n \in Nat, NEW f \in Nat, f < 2^n, NEW c \in {0, 1}, NEW k \in Nat, k < n
  PROVE  Bit(f + 2^n * c, k) = Bit(f, k)
<1> DEFINE p == 2^k
           e == 2^(n - (k + 1))
           q == f \div p
           r == f % p
<1>1. 2^n = 2^(k + 1) * e /\ 2^(k + 1) = 2 * p
  BY PowerMonotone, PowerDoubles
<1>2. p \in Nat \ {0} /\ e \in Nat /\ 2^n \in Nat
  BY PowerPositive
<1> HIDE DEF p, e
<1>3. q \in Int /\ r \in Int /\ 0 <= r /\ r < p /\ f = p * q + r
  BY <1>2, DivMod
<1> HIDE DEF q, r
<1>4. f + 2^n * c = p * (q + 2 * (e * c)) + r
  <2>1. 2^n * c = p * (2 * (e * c))
    BY <1>1, <1>2
  <2>2. p * (q + 2 * (e * c)) = p * q + p * (2 * (e * c))
    BY <1>2, <1>3
  <2> QED BY <1>2, <1>3, <2>1, <2>2
<1>5. e * c \in Int
  BY <1>2
<1>6. (f + 2^n * c) \div p = q + 2 * (e * c)
  BY <1>2, <1>3, <1>4, <1>5, DivModIs
<1>7. (q + 2 * (e * c)) % 2 = q % 2
  <2> DEFINE g == e * c
  <2>1. g \in Int
    BY <1>5
  <2> HIDE DEF g
  <2>2. (q + 2 * g) % 2 = q % 2
    BY <1>3, <2>1
  <2> QED BY <2>2 DEF g
<1> QED BY <1>6, <1>7 DEF Bit, p, q

\* The highest bit of a number made by adding it.
LEMMA BitAbove ==
  ASSUME NEW n \in Nat, NEW f \in Nat, f < 2^n, NEW c \in {0, 1}
  PROVE  Bit(f + 2^n * c, n) = c /\ f + 2^n * c < 2^(n + 1) /\ f + 2^n * c \in Nat
<1> DEFINE p == 2^n
<1>1. p \in Nat \ {0} /\ 2^(n + 1) = 2 * p /\ f < p
  BY PowerPositive, PowerDoubles
<1> HIDE DEF p
<1>2. f + p * c \in Int /\ f + p * c = p * c + f
  BY <1>1
<1>3. (f + p * c) \div p = c
  BY <1>1, <1>2, DivModIs
<1>4. c % 2 = c
  OBVIOUS
<1> QED BY <1>1, <1>3, <1>4 DEF Bit, p

LogicTerm(op, a, b, k) == 2^k * ng_logic_operator(op, Bit(a, k), Bit(b, k))

\* f is the first N + 1 terms of the recursion of LogicValue.
Collects(f, op, a, b, N) ==
  f = [k \in 0..N |-> IF k = 0 THEN 0 ELSE f[k - 1] + LogicTerm(op, a, b, k - 1)]

LEMMA CollectsExists ==
  ASSUME NEW op, NEW a, NEW b, NEW N \in Nat
  PROVE  \E f : Collects(f, op, a, b, N)
<1> DEFINE T == {m \in Nat : ~ \E f : Collects(f, op, a, b, m)}
           t(k) == LogicTerm(op, a, b, k)
<1> SUFFICES ASSUME T # {} PROVE FALSE
  OBVIOUS
<1>1. PICK m \in T : \A y \in T : m <= y
  BY LeastNat
<1>2. m \in Nat /\ ~ \E f : Collects(f, op, a, b, m)
  OBVIOUS
<1>3. CASE m = 0
  <2> DEFINE f == [k \in 0..0 |-> 0]
  <2>1. Collects(f, op, a, b, 0)
    BY DEF Collects
  <2> QED BY <1>2, <1>3, <2>1
<1>4. CASE m # 0
  <2>1. m - 1 \in Nat /\ m - 1 \notin T
    BY <1>1, <1>2, <1>4
  <2>2. PICK f : Collects(f, op, a, b, m - 1)
    BY <2>1
  <2> DEFINE g == [k \in 0..m |-> IF k = m THEN f[m - 1] + t(m - 1) ELSE f[k]]
  <2>3. \A k \in 0..(m - 1) : g[k] = f[k] /\ f[k] = IF k = 0 THEN 0 ELSE f[k - 1] + t(k - 1)
    BY <1>2, <2>1, <2>2 DEF Collects
  <2>4. \A k \in 0..m : g[k] = IF k = 0 THEN 0 ELSE g[k - 1] + t(k - 1)
    <3> SUFFICES ASSUME NEW k \in 0..m
                 PROVE  g[k] = IF k = 0 THEN 0 ELSE g[k - 1] + t(k - 1)
      OBVIOUS
    <3>1. g[m] = f[m - 1] + t(m - 1)
      BY <1>2
    <3> HIDE DEF g, t
    <3>2. CASE k = m
      <4>1. m - 1 \in 0..(m - 1)
        BY <2>1, <1>2
      <4> QED BY <3>1, <3>2, <4>1, <2>3, <1>4
    <3>3. CASE k # m
      <4>1. k \in 0..(m - 1)
        BY <1>2, <3>3
      <4>2. k # 0 => k - 1 \in 0..(m - 1)
        BY <1>2, <3>3
      <4> QED BY <4>1, <4>2, <2>3
    <3> QED BY <3>2, <3>3
  <2>5. g = [k \in 0..m |-> g[k]]
    OBVIOUS
  <2> HIDE DEF g
  <2>6. Collects(g, op, a, b, m)
    BY <2>4, <2>5 DEF Collects
  <2> QED BY <1>2, <2>6
<1> QED BY <1>3, <1>4

LEMMA BitwiseCollects ==
  ASSUME NEW op, NEW bits \in Nat, NEW a, NEW b
  PROVE  \E f : Collects(f, op, a, b, bits) /\ LogicValue(op, bits, a, b) = f[bits]
<1> DEFINE f[k \in 0..bits] ==
             IF k = 0 THEN 0
             ELSE f[k - 1] + 2^(k - 1) * ng_logic_operator(op, Bit(a, k - 1), Bit(b, k - 1))
<1>1. LogicValue(op, bits, a, b) = f[bits]
  BY DEF LogicValue
<1>2. Collects(f, op, a, b, bits)
  <2>1. PICK g : Collects(g, op, a, b, bits)
    BY CollectsExists
  <2>2. g = [k \in 0..bits |->
               IF k = 0 THEN 0
               ELSE g[k - 1] + 2^(k - 1) * ng_logic_operator(op, Bit(a, k - 1), Bit(b, k - 1))]
    BY <2>1, Zenon DEF Collects, LogicTerm
  <2>3. \E h : h = [k \in 0..bits |->
               IF k = 0 THEN 0
               ELSE h[k - 1] + 2^(k - 1) * ng_logic_operator(op, Bit(a, k - 1), Bit(b, k - 1))]
    BY <2>2, Zenon
  <2> QED BY <2>3 DEF Collects, LogicTerm
<1> HIDE DEF f
<1> QED BY <1>1, <1>2

LogicOps == {"AND", "OR", "EOR"}

LEMMA LogicDigit ==
  ASSUME NEW op \in LogicOps, NEW a \in {0, 1}, NEW b \in {0, 1}
  PROVE  /\ ng_logic_operator(op, a, b) \in {0, 1}
         /\ (ng_logic_operator(op, a, b) = 1) = Joined(op, a = 1, b = 1)
<1>1. CASE op = "AND"
  BY <1>1 DEF ng_logic_operator, Joined
<1>2. CASE op = "OR"
  BY <1>2 DEF ng_logic_operator, Joined
<1>3. CASE op = "EOR"
  <2>1. (a + b) % 2 \in {0, 1} /\ ((a + b) % 2 = 1 <=> a # b)
    <3>1. 0 % 2 = 0 /\ 1 % 2 = 1 /\ 2 % 2 = 0
      OBVIOUS
    <3> QED BY <3>1
  <2>2. ng_logic_operator(op, a, b) = (a + b) % 2
    BY <1>3 DEF ng_logic_operator
  <2>3. Joined(op, a = 1, b = 1) = ((a = 1) # (b = 1))
    BY <1>3 DEF Joined
  <2>4. ((a = 1) # (b = 1)) = (a # b)
    OBVIOUS
  <2> QED BY <2>1, <2>2, <2>3, <2>4
<1> QED BY <1>1, <1>2, <1>3 DEF LogicOps

\* Every bit of the result is the operator's, of the bits of the operands.
LEMMA BitwiseBits ==
  ASSUME NEW op \in LogicOps, NEW bits \in Nat, NEW a \in Int, NEW b \in Int
  PROVE  LET v == LogicValue(op, bits, a, b)
         IN /\ v \in Nat /\ v < 2^bits
            /\ \A k \in 0..(bits - 1) :
                 Bit(v, k) = ng_logic_operator(op, Bit(a, k), Bit(b, k))
<1> DEFINE L(k) == ng_logic_operator(op, Bit(a, k), Bit(b, k))
<1>1. PICK f : Collects(f, op, a, b, bits) /\ LogicValue(op, bits, a, b) = f[bits]
  BY BitwiseCollects
<1>2. \A k \in Nat : L(k) \in {0, 1}
  BY BitIs, LogicDigit
<1>3. f[0] = 0 /\ \A n \in Nat : n < bits => f[n + 1] = f[n] + 2^n * L(n)
  <2>1. f[0] = 0
    BY <1>1 DEF Collects
  <2>2. ASSUME NEW n \in Nat, n < bits PROVE f[n + 1] = f[n] + 2^n * L(n)
    <3>1. n + 1 \in 0..bits /\ n + 1 # 0 /\ (n + 1) - 1 = n
      BY <2>2
    <3>2. f[n + 1] = f[(n + 1) - 1] + LogicTerm(op, a, b, (n + 1) - 1)
      BY <1>1, <3>1, Zenon DEF Collects
    <3> QED BY <3>1, <3>2 DEF LogicTerm
  <2> QED BY <2>1, <2>2
<1> DEFINE Good(n) == /\ f[n] \in Nat /\ f[n] < 2^n
                      /\ \A k \in 0..(n - 1) : Bit(f[n], k) = L(k)
           T == {n \in Nat : n <= bits /\ ~Good(n)}
<1> HIDE DEF L
<1>4. Good(0)
  <2>1. 2^0 = 1
    OBVIOUS
  <2> QED BY <1>3, <2>1
<1>5. ASSUME NEW n \in Nat, n < bits, Good(n) PROVE Good(n + 1)
  <2> DEFINE c == L(n)
  <2>1. c \in {0, 1} /\ f[n] \in Nat /\ f[n] < 2^n /\ f[n + 1] = f[n] + 2^n * c
    BY <1>2, <1>3, <1>5
  <2> HIDE DEF c
  <2>2. f[n + 1] \in Nat /\ f[n + 1] < 2^(n + 1) /\ Bit(f[n + 1], n) = c
    BY <2>1, BitAbove, ZenonT(40)
  <2>3. ASSUME NEW k \in Nat, k < n PROVE Bit(f[n + 1], k) = L(k)
    <3>1. Bit(f[n + 1], k) = Bit(f[n], k)
      BY <2>1, <2>3, BitsBelow
    <3>2. k \in 0..(n - 1)
      BY <2>3
    <3> QED BY <1>5, <3>1, <3>2
  <2>4. ASSUME NEW k \in 0..((n + 1) - 1) PROVE Bit(f[n + 1], k) = L(k)
    <3>1. k \in Nat /\ (k < n \/ k = n)
      OBVIOUS
    <3> QED BY <2>2, <2>3, <3>1 DEF c
  <2> QED BY <2>2, <2>4
<1> HIDE DEF Good
<1>6. Good(bits)
  <2> SUFFICES ASSUME ~Good(bits) PROVE FALSE
    OBVIOUS
  <2>1. bits \in T
    OBVIOUS
  <2>2. PICK x \in T : \A y \in T : x <= y
    BY <2>1, LeastNat
  <2>3. x # 0
    BY <1>4, <2>2
  <2>4. x - 1 \in Nat /\ x - 1 < bits /\ x - 1 \notin T /\ (x - 1) + 1 = x
    BY <2>2, <2>3
  <2>5. Good(x - 1)
    BY <2>4
  <2>6. Good((x - 1) + 1)
    BY <1>5, <2>4, <2>5
  <2> QED BY <2>2, <2>4, <2>6
<1> QED BY <1>1, <1>6 DEF Good, L

\* A number below 2^bits whose bits are the joined ones is the manual's.
LEMMA ManualLogicIs ==
  ASSUME NEW op, NEW bits \in Nat \ {0}, NEW s, NEW d, NEW v \in Operands(bits),
         \A k \in 0..(bits - 1) : (Bit(v, k) = 1) = Joined(op, Bit(d, k) = 1, Bit(s, k) = 1)
  PROVE  ManualLogic(op, bits, s, d) = v
<1> DEFINE J(k) == Joined(op, Bit(d, k) = 1, Bit(s, k) = 1)
           P(w) == \A k \in 0..(bits - 1) : (Bit(w, k) = 1) = J(k)
           m == CHOOSE w \in Operands(bits) : P(w)
<1>1. ManualLogic(op, bits, s, d) = m
  BY DEF ManualLogic
<1>2. P(v)
  OBVIOUS
<1> HIDE DEF P
<1>3. m \in Operands(bits) /\ P(m)
  BY <1>2
<1> HIDE DEF m, J
<1>4. m \in Nat /\ v \in Nat /\ m < 2^bits /\ v < 2^bits
  BY <1>3, OperandsNat
<1>5. \A k \in 0..(bits - 1) : Bit(m, k) = Bit(v, k)
  <2> SUFFICES ASSUME NEW k \in 0..(bits - 1) PROVE Bit(m, k) = Bit(v, k)
    OBVIOUS
  <2>1. Bit(m, k) \in {0, 1} /\ Bit(v, k) \in {0, 1}
    BY <1>4, BitIs
  <2>2. (Bit(m, k) = 1) = (Bit(v, k) = 1)
    BY <1>2, <1>3 DEF P
  <2> QED BY <2>1, <2>2
<1>6. m % 2^bits = v % 2^bits
  <2>1. bits \in Nat /\ m \in Int /\ v \in Int
    BY <1>4
  <2> QED BY <1>5, <2>1, BitsDetermine
<1>7. m = v
  BY <1>4, <1>6, SmallResidue
<1> QED BY <1>1, <1>7

\* ng_logic_operator against the manual.
LEMMA LogicIsManual ==
  ASSUME NEW op \in LogicOps, NEW bits \in Nat \ {0}, NEW d \in Int, NEW s \in Int
  PROVE  /\ LogicValue(op, bits, d, s) \in Operands(bits)
         /\ ManualLogic(op, bits, s, d) = LogicValue(op, bits, d, s)
<1> DEFINE v == LogicValue(op, bits, d, s)
<1>1. /\ v \in Nat /\ v < 2^bits
      /\ \A k \in 0..(bits - 1) : Bit(v, k) = ng_logic_operator(op, Bit(d, k), Bit(s, k))
  BY BitwiseBits
<1> HIDE DEF v
<1>2. v \in Operands(bits)
  BY <1>1, OperandsNat
<1>3. \A k \in 0..(bits - 1) : (Bit(v, k) = 1) = Joined(op, Bit(d, k) = 1, Bit(s, k) = 1)
  <2> SUFFICES ASSUME NEW k \in 0..(bits - 1)
               PROVE  (Bit(v, k) = 1) = Joined(op, Bit(d, k) = 1, Bit(s, k) = 1)
    OBVIOUS
  <2>1. Bit(d, k) \in {0, 1} /\ Bit(s, k) \in {0, 1}
    BY BitIs
  <2> QED BY <1>1, <2>1, LogicDigit
<1>4. ManualLogic(op, bits, s, d) = v
  BY <1>2, <1>3, ManualLogicIs
<1> QED BY <1>2, <1>4 DEF v

\* ~ng_value
LEMMA ComplementIsManual ==
  ASSUME NEW bits \in Nat \ {0}, NEW d \in Operands(bits), NEW s
  PROVE  /\ Complement(bits, d) \in Operands(bits)
         /\ ManualLogic("NOT", bits, s, d) = Complement(bits, d)
<1> DEFINE v == Complement(bits, d)
<1>1. d \in Nat /\ d < 2^bits /\ 2^bits \in Nat
  BY OperandsNat
<1>2. v \in Nat /\ v < 2^bits /\ v = 2^bits - 1 - d
  BY <1>1 DEF Complement, Mask
<1> HIDE DEF v
<1>3. v \in Operands(bits)
  BY <1>2, OperandsNat
<1>4. ASSUME NEW k \in 0..(bits - 1)
      PROVE  (Bit(v, k) = 1) = Joined("NOT", Bit(d, k) = 1, Bit(s, k) = 1)
  <2> DEFINE p == 2^k
             e == 2^(bits - (k + 1))
             q == d \div p
             r == d % p
  <2>1. k \in Nat /\ k + 1 \in Nat /\ k + 1 <= bits
    OBVIOUS
  <2>2. 2^bits = 2^(k + 1) * e /\ 2^(k + 1) = 2 * p
    BY <2>1, PowerMonotone, PowerDoubles
  <2>3. p \in Nat \ {0} /\ e \in Nat
    BY <2>1, PowerPositive
  <2> HIDE DEF p, e
  <2>4. q \in Int /\ r \in Int /\ 0 <= r /\ r < p /\ d = p * q + r
    BY <1>1, <2>3, DivMod
  <2> HIDE DEF q, r
  <2>5. v = p * (2 * e - 1 - q) + (p - 1 - r)
    <3>1. p * (2 * e - 1 - q) = p * (2 * e) - p - p * q
      BY <2>3, <2>4
    <3>2. 2^bits = p * (2 * e)
      BY <2>2, <2>3
    <3> QED BY <1>1, <1>2, <2>3, <2>4, <3>1, <3>2
  <2>6. v \div p = 2 * e - 1 - q
    <3> DEFINE Q == 2 * e - 1 - q
               R == p - 1 - r
    <3>1. Q \in Int /\ R \in Int /\ 0 <= R /\ R < p /\ v = p * Q + R /\ v \in Int
      BY <1>2, <2>3, <2>4, <2>5
    <3> HIDE DEF Q, R
    <3>2. v \div p = Q
      BY <2>3, <3>1, DivModIs
    <3> QED BY <3>2 DEF Q
  <2>7. ((2 * e - 1 - q) % 2 = 1) <=> ~(q % 2 = 1)
    BY <2>3, <2>4
  <2> QED BY <2>6, <2>7 DEF Bit, Joined, p, q
<1>5. ManualLogic("NOT", bits, s, d) = v
  BY <1>3, <1>4, ManualLogicIs
<1> QED BY <1>3, <1>5 DEF v

LEMMA ManualOfLogic ==
  ASSUME NEW i, i.op \in LogicOps \cup {"NOT"}, NEW s, NEW d, NEW c
  PROVE  LET v == ManualLogic(i.op, i.bits, s % 2^i.bits, d % 2^i.bits)
         IN Manual(i, s, d, c)
              = [value |-> Keep(i.bits, d, v), codes |-> NZ(i.bits, v, c), trap |-> 0]
BY DEF Manual, LogicOps, Shifts, Lefts, Decimals, BitOps, Divides

\* emit_logic_binary_generic
LEMMA LogicStep ==
  ASSUME Place, at = 1, LogicBinary PROVE After'
<1>1. Ins.op \in LogicOps
  BY First DEF LogicBinary, Current, Ins, LogicOps
<1> DEFINE v == LogicValue(Ins.op, Ins.bits, Dst, Src)
<1>2. Src \in Int /\ Dst \in Int /\ Ins.bits \in Nat \ {0}
  BY First, FirstOperands, OperandsNat
<1>3. v \in Operands(Ins.bits) /\ ManualLogic(Ins.op, Ins.bits, Src, Dst) = v
  BY <1>1, <1>2, LogicIsManual
<1> HIDE DEF v
<1>4. Manual(Ins, reg[Ins.src], reg[Ins.dst], ccr)
        = [value |-> Keep(Ins.bits, reg[Ins.dst], v),
           codes |-> NZ(Ins.bits, v, ccr), trap |-> 0]
  BY <1>1, <1>3, ManualOfLogic DEF Src, Dst
<1>5. Narrow(ng_set_nz(Half(Ins.bits), v, ccr))
  BY DEF LogicBinary, Logic, v
<1> QED BY <1>1, <1>3, <1>4, <1>5, PlainStep DEF LogicOps

\* NOT of emit_unary_rmw_generic
LEMMA NotStep ==
  ASSUME Place, at = 1, UnaryRmw, Ins.op = "NOT" PROVE After'
<1> DEFINE v == Complement(Ins.bits, Dst)
<1>1. Dst \in Operands(Ins.bits) /\ Ins.bits \in Nat \ {0}
  BY First, FirstOperands
<1>2. v \in Operands(Ins.bits) /\ ManualLogic(Ins.op, Ins.bits, Src, Dst) = v
  BY <1>1, ComplementIsManual
<1> HIDE DEF v
<1>3. Manual(Ins, reg[Ins.src], reg[Ins.dst], ccr)
        = [value |-> Keep(Ins.bits, reg[Ins.dst], v),
           codes |-> NZ(Ins.bits, v, ccr), trap |-> 0]
  BY <1>2, ManualOfLogic DEF Src, Dst
<1>4. Narrow(ng_set_nz(Half(Ins.bits), v, ccr))
  BY DEF UnaryRmw, v
<1> QED BY <1>2, <1>3, <1>4, PlainStep
-----------------------------------------------------------------------------
(* One instruction: single bits, TAS, EXT, SWAP, the multiply and CHK.      *)

\* What an operation tells of a single instruction.
LEMMA OneOf ==
  ASSUME Place, at = 1,
         Ins.op \in BitOps \cup {"TAS", "EXT", "SWAP", "CHK"} \cup Products \cup Divides
  PROVE  /\ Ins.op \in Products \cup Divides \cup {"CHK"} => Ins.bits = Word
         /\ Ins.op = "TAS" => Ins.bits = Byte
         /\ Ins.op = "EXT" => Ins.bits \in {Word, Long}
         /\ Ins.op = "SWAP" => Ins.bits = Long
         /\ code \in Singles
<1>1. OneInstruction(Ins) /\ code \in Singles
  <2>1. ~TwoInstructions(Ins, code[2])
    BY DEF TwoInstructions, Pairs, BitOps, Products, Divides
  <2>2. code \in Singles
    BY <2>1, ChainFacts, First DEF Place
  <2> QED BY <2>1, <2>2, First
<1> QED
  BY <1>1 DEF OneInstruction, Binary, Unary, Decimals, Products, Divides, Shifts, Lefts, BitOps

LEMMA BitCodes ==
  ASSUME NEW c \in CCR, NEW z \in BOOLEAN
  PROVE  [c EXCEPT !.z = z] \in CCR
BY DEF CCR

\* emit_bit_imm_generic
LEMMA BitNumberedStep ==
  ASSUME Place, at = 1, BitNumbered PROVE After'
<1>1. Ins.op \in BitOps
  BY First DEF BitNumbered, Current, Ins
<1> DEFINE s == reg[Ins.src]
           k == s % Ins.bits
           other == IF Bit(Dst, k) = 1 THEN Dst - 2^k ELSE Dst + 2^k
           want == CASE Ins.op = "BTST" -> Bit(Dst, k)
                     [] Ins.op = "BCHG" -> 1 - Bit(Dst, k)
                     [] Ins.op = "BCLR" -> 0
                     [] Ins.op = "BSET" -> 1
           v == IF Bit(Dst, k) = want THEN Dst ELSE other
           c == [ccr EXCEPT !.z = Bit(Dst, k) = 0]
           o == BitOp(Ins.op, Ins.bits, s, Dst, ccr)
<1>2. Manual(Ins, s, reg[Ins.dst], ccr)
        = [value |-> Keep(Ins.bits, reg[Ins.dst], v), codes |-> c, trap |-> 0]
  BY <1>1 DEF Manual, Dst, Sums, Shifts, Lefts, Decimals, BitOps, Divides
<1>3. Bit(Dst, k) \in {0, 1}
  <2>1. s \in Nat /\ Ins.bits \in Nat \ {0} /\ Dst \in Int
    BY First, FirstOperands, OperandsNat
  <2>2. k \in Nat
    BY <2>1, DivMod
  <2> HIDE DEF k
  <2> QED BY <2>1, <2>2, BitIs
<1> DEFINE set == (Dst \div 2^k) % 2 = 1
<1>4. set <=> Bit(Dst, k) = 1
  BY DEF Bit
<1>5. o.ccr = c
  <2>1. o.ccr = [ccr EXCEPT !.z = ~set]
    BY DEF BitOp
  <2>2. ~set <=> Bit(Dst, k) = 0
    BY <1>3, <1>4
  <2> HIDE DEF set, k
  <2>3. (~set) = (Bit(Dst, k) = 0)
    BY <2>2
  <2> QED BY <2>1, <2>3
<1>6. o.value = v
  <2> HIDE DEF k
  <2>0. o.value = CASE Ins.op = "BTST" -> Dst
                    [] Ins.op = "BCHG" -> IF set THEN Dst - 2^k ELSE Dst + 2^k
                    [] Ins.op = "BCLR" -> IF set THEN Dst - 2^k ELSE Dst
                    [] Ins.op = "BSET" -> IF set THEN Dst ELSE Dst + 2^k
    BY DEF BitOp, k
  <2> HIDE DEF set, o
  <2>1. CASE Ins.op = "BTST"
    BY <1>3, <1>4, <2>0, <2>1
  <2>2. CASE Ins.op = "BCHG"
    BY <1>3, <1>4, <2>0, <2>2
  <2>3. CASE Ins.op = "BCLR"
    BY <1>3, <1>4, <2>0, <2>3
  <2>4. CASE Ins.op = "BSET"
    BY <1>3, <1>4, <2>0, <2>4
  <2> QED BY <1>1, <2>1, <2>2, <2>3, <2>4 DEF BitOps
<1>7. c \in CCR
  BY First, BitCodes
<1>8. Narrow([value |-> v, ccr |-> c])
  <2>1. Narrow(o)
    BY DEF BitNumbered
  <2> HIDE DEF o, v, c
  <2> QED BY <1>5, <1>6, <2>1 DEF Narrow
<1> HIDE DEF v, c
<1> QED BY <1>1, <1>2, <1>7, <1>8, PartStep DEF BitOps

\* The sign bit set: value | sign_mask
LEMMA TopBitSet ==
  ASSUME NEW bits \in Nat \ {0}, NEW v \in Operands(bits)
  PROVE  LogicValue("OR", bits, v, Half(bits)) = IF v < Half(bits) THEN v + Half(bits) ELSE v
<1> DEFINE n == bits - 1
           h == 2^n
           f == IF v < h THEN v ELSE v - h
           c == IF v < h THEN 0 ELSE 1
           w == f + h * 1
           b == LogicValue("OR", bits, v, h)
<1>1. n \in Nat /\ bits = n + 1 /\ h \in Nat \ {0} /\ 2^bits = 2 * h /\ Half(bits) = h
  <2>1. n \in Nat /\ bits = n + 1
    OBVIOUS
  <2> QED BY <2>1, PowerPositive, Widths DEF Half
<1>2. v \in Nat /\ v < 2 * h
  BY <1>1, OperandsNat
<1> HIDE DEF n
<1>3. f \in Nat /\ f < 2^n /\ c \in {0, 1} /\ v = f + 2^n * c
  BY <1>1, <1>2
<1>4. /\ b \in Nat /\ b < 2^bits
      /\ \A k \in 0..(bits - 1) : Bit(b, k) = ng_logic_operator("OR", Bit(v, k), Bit(h, k))
  <2>1. "OR" \in LogicOps /\ bits \in Nat
    BY <1>1 DEF LogicOps
  <2>2. v \in Int /\ h \in Int
    BY <1>1, <1>2
  <2> HIDE DEF h
  <2> QED BY <2>1, <2>2, BitwiseBits, Zenon
<1> HIDE DEF b, f, c
<1>5. w \in Nat /\ w < 2^bits /\ Bit(w, n) = 1 /\ w = IF v < h THEN v + h ELSE v
  <2>1. f \in Nat /\ f < 2^n /\ 1 \in {0, 1} /\ n \in Nat
    BY <1>1, <1>3
  <2>2. Bit(f + 2^n * 1, n) = 1 /\ f + 2^n * 1 < 2^(n + 1) /\ f + 2^n * 1 \in Nat
    BY <2>1, BitAbove
  <2>3. w = IF v < h THEN v + h ELSE v
    BY <1>1, <1>2 DEF f
  <2> QED BY <1>1, <2>2, <2>3
<1>6. \A k \in 0..(bits - 1) : Bit(b, k) = Bit(w, k)
  <2> SUFFICES ASSUME NEW k \in 0..(bits - 1) PROVE Bit(b, k) = Bit(w, k)
    OBVIOUS
  <2>1. h = 0 + 2^n * 1
    BY <1>1
  <2>2. \A z \in {0, 1} : /\ ng_logic_operator("OR", z, 0) = z
                          /\ ng_logic_operator("OR", z, 1) = 1
    BY DEF ng_logic_operator
  <2>3. Bit(v, k) \in {0, 1}
    BY <1>2, BitIs
  <2>4. CASE k = n
    <3>1. Bit(h, n) = 1
      BY <1>1, <2>1, BitAbove
    <3> QED BY <1>4, <1>5, <2>2, <2>3, <2>4, <3>1
  <2>5. CASE k # n
    <3>1. k \in Nat /\ k < n
      BY <1>1, <2>5
    <3>2. Bit(h, k) = Bit(0, k)
      BY <1>1, <2>1, <3>1, BitsBelow
    <3>3. Bit(0, k) = 0
      <4>1. 0 < 2^k
        BY <3>1, PowerPositive
      <4>2. 0 \div 2^k = 0
        BY <3>1, <4>1, SmallResidue
      <4>3. 0 % 2 = 0
        OBVIOUS
      <4> QED BY <4>2, <4>3 DEF Bit
    <3>4. Bit(v, k) = Bit(f, k) /\ Bit(w, k) = Bit(f, k)
      BY <1>1, <1>3, <3>1, BitsBelow
    <3> QED BY <1>4, <2>2, <2>3, <3>2, <3>3, <3>4
  <2> QED BY <2>4, <2>5
<1>7. b % 2^bits = w % 2^bits
  <2>1. bits \in Nat /\ b \in Int /\ w \in Int
    BY <1>4, <1>5
  <2> HIDE DEF w
  <2> QED BY <1>6, <2>1, BitsDetermine
<1>8. b = w
  <2> HIDE DEF w
  <2> QED BY <1>4, <1>5, <1>7, SmallResidue
<1> QED BY <1>1, <1>5, <1>8 DEF b

\* emit_tas_generic
LEMMA TestAndSetStep ==
  ASSUME Place, at = 1, TestAndSet PROVE After'
<1>1. Ins.op = "TAS"
  BY First DEF TestAndSet, Current, Ins
<1> DEFINE h == Half(Ins.bits)
           v == IF Dst < h THEN Dst + h ELSE Dst
           c == NZ(Ins.bits, Dst, ccr)
           o == Tas(Ins.bits, Dst, ccr)
<1>2. Manual(Ins, reg[Ins.src], reg[Ins.dst], ccr)
        = [value |-> Keep(Ins.bits, reg[Ins.dst], v), codes |-> c, trap |-> 0]
  BY <1>1 DEF Manual, Dst, Shifts, Lefts, Decimals, BitOps, Divides
<1>3. Ins.bits \in Nat \ {0} /\ Dst \in Operands(Ins.bits) /\ ccr \in CCR
  BY First, FirstOperands
<1>4. ng_set_nz(h, Dst, ccr).ccr = c /\ c \in CCR
  BY <1>3, NzAsManual
<1>5. LogicValue("OR", Ins.bits, Dst, h) = v
  BY <1>3, TopBitSet
<1>6. o = [value |-> v, ccr |-> c]
  BY <1>4, <1>5 DEF Tas
<1>7. Narrow([value |-> v, ccr |-> c])
  BY <1>6 DEF TestAndSet
<1> HIDE DEF v, c
<1> QED BY <1>1, <1>2, <1>4, <1>7, PartStep

LEMMA ExtSwapSteps ==
  ASSUME Place, at = 1, ExtendOrSwap PROVE After'
<1>1. Ins.op \in {"EXT", "SWAP"}
  BY First DEF ExtendOrSwap, Current, Ins
<1>2. Ins.bits \in Nat \ {0} /\ Dst \in Nat
  BY First, FirstOperands, OperandsNat
<1>3. CASE Ins.op = "EXT"
  <2> DEFINE n == Ins.bits \div 2
             v == Unsigned(Ins.bits, Signed(n, Dst % 2^n))
  <2>1. Manual(Ins, reg[Ins.src], reg[Ins.dst], ccr)
          = [value |-> Keep(Ins.bits, reg[Ins.dst], v),
             codes |-> NZ(Ins.bits, v, ccr), trap |-> 0]
    BY <1>3 DEF Manual, Dst, Shifts, Lefts, Decimals, BitOps, Divides
  <2>2. n \in Nat \ {0}
    <3>1. Ins.bits = 2 * Byte \/ Ins.bits = 2 * Word
      BY <1>3, OneOf, WidthsOfUnit
    <3> QED BY <3>1, WidthsOfUnit
  <2>3. Signed(n, Dst % 2^n) \in Int
    BY <1>2, <2>2, ResidueOperand, SignedNegative
  <2>4. v \in Operands(Ins.bits)
    BY <1>2, <2>3, ResidueOperand DEF Unsigned
  <2>5. Narrow(ng_set_nz(Half(Ins.bits), v, ccr))
    BY <1>3 DEF ExtendOrSwap, Ext, SignExtend
  <2> HIDE DEF v
  <2> QED BY <1>1, <2>1, <2>4, <2>5, PlainStep
<1>4. CASE Ins.op = "SWAP"
  <2> DEFINE p == 2^Word
             q == Dst \div p
             r == Dst % p
             v == r * p + q
             u == ((Dst * p) % 2^Long) + q
  <2>1. Manual(Ins, reg[Ins.src], reg[Ins.dst], ccr)
          = [value |-> Keep(Ins.bits, reg[Ins.dst], v),
             codes |-> NZ(Ins.bits, v, ccr), trap |-> 0]
    BY <1>4 DEF Manual, Dst, Shifts, Lefts, Decimals, BitOps, Divides
  <2>2. Ins.bits = Long /\ Long = Word + Word /\ Long \div 2 = Word /\ Word \in Nat
    <3>1. Ins.bits = Long
      BY <1>4, OneOf
    <3> QED BY <3>1, WidthsOfUnit
  <2>3. 2^Long = p * p /\ p \in Nat \ {0}
    BY <2>2, PowerSum, PowerPositive
  <2>4. Dst < p * p
    BY <2>2, <2>3, <1>2, FirstOperands, OperandsNat
  <2>5. Narrow(ng_set_nz(Half(Ins.bits), u, ccr))
    BY <1>4, <2>2 DEF ExtendOrSwap, Swap
  <2> HIDE DEF p
  <2>6. q \in Int /\ r \in Int /\ 0 <= r /\ r < p /\ Dst = p * q + r
    BY <1>2, <2>3, DivMod
  <2>7. 0 <= q /\ q < p
    <3> HIDE DEF q, r
    <3>1. CASE q < 0
      <4>1. p * q <= -p
        BY <2>3, <2>6, <3>1
      <4> QED BY <1>2, <2>3, <2>6, <4>1
    <3>2. CASE q >= p
      <4>1. p * q >= p * p
        BY <2>3, <2>6, <3>2
      <4> QED BY <1>2, <2>3, <2>4, <2>6, <4>1
    <3> QED BY <3>1, <3>2, <2>3, <2>6
  <2>8. (Dst * p) % (p * p) = r * p
    <3> HIDE DEF q, r
    <3>1. Dst * p = (p * p) * q + r * p
      BY <2>3, <2>6
    <3> DEFINE b == p * p
               x == r * p
               y == Dst * p
    <3>2. b \in Nat \ {0} /\ x \in Int /\ 0 <= x /\ x < b /\ y \in Int
      BY <1>2, <2>3, <2>6
    <3>3. y = b * q + x
      BY <3>1
    <3> HIDE DEF b, x, y
    <3>4. y % b = x
      BY <2>6, <3>2, <3>3, DivModIs
    <3> QED BY <3>4 DEF b, x, y
  <2>9. u = v
    BY <2>3, <2>8
  <2>10. v \in Operands(Ins.bits)
    <3> HIDE DEF q, r
    <3>1. r * p + q \in Nat /\ r * p + q < p * p
      <4>1. r * p <= (p - 1) * p
        BY <2>3, <2>6
      <4>2. (p - 1) * p = p * p - p
        BY <2>3
      <4>3. r * p \in Nat
        BY <2>3, <2>6
      <4> QED BY <2>3, <2>6, <2>7, <4>1, <4>2, <4>3
    <3> QED BY <1>2, <2>2, <2>3, <3>1, OperandsNat
  <2>11. Narrow(ng_set_nz(Half(Ins.bits), v, ccr))
    BY <2>5, <2>9
  <2> HIDE DEF v
  <2> QED BY <1>1, <2>1, <2>10, <2>11, PlainStep
<1> QED BY <1>1, <1>3, <1>4

\* A whole register is written.
LEMMA WholeStep ==
  ASSUME Place, at = 1, NEW v, NEW c \in CCR, NEW t, Retire(v, c, t),
         NEW m, Manual(Ins, reg[Ins.src], reg[Ins.dst], ccr) = m,
         m.value = v, m.trap = t, \A k \in DOMAIN m.codes : c[k] = m.codes[k]
  PROVE  After'
<1>1. AsManual(Ins, reg, ccr, v, c, t)
  BY DEF AsManual, Defined
<1> QED BY <1>1, Lands

LEMMA SignedBounds ==
  ASSUME NEW bits \in Nat \ {0}, NEW v \in Operands(bits)
  PROVE  /\ Signed(bits, v) \in Int /\ -Half(bits) <= Signed(bits, v)
         /\ Signed(bits, v) < Half(bits)
<1> DEFINE h == Half(bits)
<1>1. h \in Nat \ {0} /\ 2^bits = 2 * h /\ v \in Nat /\ v < 2 * h
  BY Widths, OperandsNat
<1> HIDE DEF h
<1>2. Signed(bits, v) = IF v >= h THEN v - 2 * h ELSE v
  BY <1>1 DEF Signed, h
<1> QED BY <1>1, <1>2 DEF h

\* emit_multiply
LEMMA MultiplyStep ==
  ASSUME Place, at = 1, MultiplyWords PROVE After'
<1>1. Ins.op \in {"MULU", "MULS"}
  BY First DEF MultiplyWords, Current, Ins, Products
<1>2. Ins.bits = Word /\ Word \in Nat \ {0} /\ Long \in Nat \ {0} /\ 2 * Word = Long
  BY <1>1, OneOf, WidthsOfUnit DEF Products
<1>3. Src \in Operands(Word) /\ Dst \in Operands(Word) /\ ccr \in CCR
  BY <1>2, First, FirstOperands
<1> DEFINE v == IF Ins.op = "MULU" THEN Dst * Src
                ELSE Unsigned(Long, Signed(Word, Dst) * Signed(Word, Src))
           m == [value |-> v, codes |-> NZ(Long, v, ccr), trap |-> 0]
           o == ng_set_nz(Half(Long), v, ccr)
<1>4. Manual(Ins, reg[Ins.src], reg[Ins.dst], ccr) = m
  BY <1>1, <1>2 DEF Manual, Src, Dst, Shifts, Lefts, Decimals, BitOps, Divides
<1>5. Multiply(Ins.op, Ins.bits, Src, reg[Ins.dst], ccr) = o
  BY <1>1, <1>2 DEF Multiply, Dst
<1>6. v \in Operands(Long)
  <2> DEFINE p == 2^Word
  <2>1. 2^Long = p * p /\ p \in Nat \ {0}
    BY <1>2, PowerSum, PowerPositive, Long = Word + Word
  <2>2. Dst \in Nat /\ Dst < p /\ Src \in Nat /\ Src < p
    BY <1>2, <1>3, OperandsNat
  <2>3. Dst * Src \in Nat /\ Dst * Src < p * p
    <3> HIDE DEF p
    <3>1. Dst * Src <= (p - 1) * Src
      BY <2>1, <2>2
    <3>2. (p - 1) * Src <= (p - 1) * (p - 1)
      BY <2>1, <2>2
    <3>3. (p - 1) * (p - 1) < p * p
      BY <2>1
    <3>4. Dst * Src \in Nat
      BY <2>2
    <3> QED BY <2>1, <2>2, <3>1, <3>2, <3>3, <3>4
  <2>4. Dst * Src \in Operands(Long)
    BY <1>2, <2>1, <2>3, OperandsNat
  <2>5. Signed(Word, Dst) * Signed(Word, Src) \in Int
    BY <1>2, <1>3, SignedBounds
  <2>6. Unsigned(Long, Signed(Word, Dst) * Signed(Word, Src)) \in Operands(Long)
    BY <1>2, <2>5, ResidueOperand DEF Unsigned
  <2> QED BY <2>4, <2>6
<1> HIDE DEF v
<1>7. o.value = v /\ o.ccr = NZ(Long, v, ccr) /\ o.ccr \in CCR
  BY <1>2, <1>3, <1>6, NzAsManual
<1>8. Retire(v, NZ(Long, v, ccr), 0)
  BY <1>5, <1>7 DEF MultiplyWords
<1>9. NZ(Long, v, ccr) \in CCR
  BY <1>7
<1> QED BY <1>4, <1>8, <1>9, WholeStep

\* emit_chk
LEMMA CheckStep ==
  ASSUME Place, at = 1, CheckBounds PROVE After'
<1>1. Ins.op = "CHK"
  BY First DEF CheckBounds, Current, Ins
<1>2. Ins.bits = Word /\ Word \in Nat \ {0}
  BY <1>1, OneOf, WidthsOfUnit
<1>3. Src \in Operands(Word) /\ Dst \in Operands(Word) /\ ccr \in CCR
  BY <1>2, First, FirstOperands
<1> DEFINE v == Signed(Word, Dst)
           b == Signed(Word, Src)
           d == reg[Ins.dst]
           m == IF 0 <= v /\ v <= b
                THEN [value |-> d, codes |-> [x |-> ccr.x], trap |-> 0]
                ELSE [value |-> d, codes |-> [x |-> ccr.x, n |-> v < 0], trap |-> 6]
           o == Chk(Ins.bits, Src, d, ccr)
<1>4. Manual(Ins, reg[Ins.src], d, ccr) = m
  BY <1>1, <1>2, Zenon DEF Manual, Src, Dst, Shifts, Lefts, Decimals, BitOps, Divides
<1>5. v \in Int /\ b \in Int
  BY <1>2, <1>3, SignedBounds
<1>6. o = IF v < 0 \/ v > b
          THEN [trap |-> 6, value |-> d, ccr |-> [ccr EXCEPT !.n = v < 0]]
          ELSE [trap |-> 0, value |-> d, ccr |-> ccr]
  BY <1>2 DEF Chk, Dst, CheckTrap
<1>7. Retire(o.value, o.ccr, o.trap)
  BY DEF CheckBounds
<1> HIDE DEF v, b, o
<1>8. CASE 0 <= v /\ v <= b
  <2>1. o = [trap |-> 0, value |-> d, ccr |-> ccr]
    BY <1>5, <1>6, <1>8
  <2>2. m = [value |-> d, codes |-> [x |-> ccr.x], trap |-> 0]
    BY <1>8
  <2>3. Retire(d, ccr, 0)
    BY <1>7, <2>1
  <2> HIDE DEF m, d
  <2>4. m.value = d /\ m.trap = 0 /\ \A k \in DOMAIN m.codes : ccr[k] = m.codes[k]
    BY <2>2
  <2> QED BY <1>3, <1>4, <2>3, <2>4, WholeStep DEF d
<1>9. CASE ~(0 <= v /\ v <= b)
  <2> DEFINE c == [ccr EXCEPT !.n = v < 0]
  <2>1. o = [trap |-> 6, value |-> d, ccr |-> c]
    BY <1>5, <1>6, <1>9
  <2>2. m = [value |-> d, codes |-> [x |-> ccr.x, n |-> v < 0], trap |-> 6]
    BY <1>9
  <2>3. Retire(d, c, 6)
    BY <1>7, <2>1
  <2>4. c \in CCR /\ c.x = ccr.x /\ c.n = (v < 0)
    <3>1. \A n \in BOOLEAN : LET e == [ccr EXCEPT !.n = n]
                            IN e \in CCR /\ e.x = ccr.x /\ e.n = n
      BY <1>3 DEF CCR
    <3>2. (v < 0) \in BOOLEAN
      OBVIOUS
    <3> QED BY <3>1, <3>2
  <2> HIDE DEF m, d, c
  <2>5. m.value = d /\ m.trap = 6 /\ \A k \in DOMAIN m.codes : c[k] = m.codes[k]
    BY <2>2, <2>4
  <2> QED BY <1>4, <2>3, <2>4, <2>5, WholeStep DEF d
<1> QED BY <1>8, <1>9
-----------------------------------------------------------------------------
(* One instruction: the division.                                           *)

LEMMA AbsIs ==
  ASSUME NEW n \in Int
  PROVE  Abs(n) \in Nat /\ (n >= 0 => Abs(n) = n) /\ (n < 0 => Abs(n) = -n)
BY DEF Abs

\* The rounding of C is the manual's: there is one quotient whose remainder
\* has the sign of the dividend.
LEMMA QuotientIs ==
  ASSUME NEW a \in Int, NEW b \in Int, b # 0
  PROVE  /\ Quotient(a, b) \in Int
         /\ \A q \in Int : IsQuotient(a, b, q, a - q * b) <=> q = Quotient(a, b)
         /\ a >= 0 /\ b >= 0 => Quotient(a, b) >= 0
         /\ Remainder(a, b) = a - Quotient(a, b) * b
<1> DEFINE A == Abs(a)
           B == Abs(b)
           k == A \div B
           r == A % B
           Q == Quotient(a, b)
<1>1. A \in Nat /\ B \in Nat \ {0}
  BY AbsIs
<1>2. (a >= 0 => A = a) /\ (a < 0 => A = -a) /\ (b >= 0 => B = b) /\ (b < 0 => B = -b)
  BY AbsIs
<1>3. Q = IF (a < 0) = (b < 0) THEN k ELSE -k
  BY DEF Quotient
<1>4. Remainder(a, b) = a - b * Q
  BY DEF Remainder
<1> HIDE DEF A, B, Q
<1>5. k \in Int /\ r \in Int /\ 0 <= r /\ r < B /\ A = B * k + r
  BY <1>1, DivMod
<1> HIDE DEF k, r
<1>6. k >= 0
  <2>1. SUFFICES ASSUME k <= -1 PROVE FALSE
    BY <1>5
  <2>2. B * k <= -B
    BY <1>1, <1>5, <2>1
  <2> QED BY <1>1, <1>5, <2>2
<1>7. Q \in Int
  BY <1>3, <1>5
<1>8. (a < 0 => a - Q * b = -r) /\ (a >= 0 => a - Q * b = r)
  <2>1. CASE a < 0 /\ b < 0
    <3>1. Q = k /\ a = -A /\ b = -B
      BY <1>1, <1>2, <1>3, <2>1
    <3>2. k * (-B) = -(B * k)
      BY <1>1, <1>5
    <3> QED BY <1>1, <1>5, <2>1, <3>1, <3>2
  <2>2. CASE a < 0 /\ b >= 0
    <3>1. Q = -k /\ a = -A /\ b = B
      BY <1>1, <1>2, <1>3, <2>2
    <3>2. (-k) * B = -(B * k)
      BY <1>1, <1>5
    <3> QED BY <1>1, <1>5, <2>2, <3>1, <3>2
  <2>3. CASE a >= 0 /\ b < 0
    <3>1. Q = -k /\ a = A /\ b = -B
      BY <1>1, <1>2, <1>3, <2>3
    <3>2. (-k) * (-B) = B * k
      BY <1>1, <1>5
    <3> QED BY <1>1, <1>5, <2>3, <3>1, <3>2
  <2>4. CASE a >= 0 /\ b >= 0
    <3>1. Q = k /\ a = A /\ b = B
      BY <1>1, <1>2, <1>3, <2>4
    <3>2. k * B = B * k
      BY <1>1, <1>5
    <3> QED BY <1>1, <1>5, <2>4, <3>1, <3>2
  <2> QED BY <2>1, <2>2, <2>3, <2>4
<1>9. ASSUME NEW q \in Int, q = Q PROVE IsQuotient(a, b, q, a - q * b)
  <2> DEFINE s == a - q * b
  <2>1. s \in Int /\ (a < 0 => s = -r) /\ (a >= 0 => s = r)
    BY <1>5, <1>8, <1>9
  <2>2. a = q * b + s
    BY <1>9
  <2> HIDE DEF s
  <2>3. Abs(s) < Abs(b) /\ (s = 0 \/ (s < 0) = (a < 0))
    BY <1>5, <2>1 DEF Abs, B
  <2> QED BY <2>2, <2>3 DEF IsQuotient, s
<1>10. ASSUME NEW q \in Int, IsQuotient(a, b, q, a - q * b) PROVE q = Q
  <2> DEFINE s == a - q * b
  <2>1. s \in Int /\ a = q * b + s
    OBVIOUS
  <2>2. Abs(s) < B /\ (s = 0 \/ (s < 0) = (a < 0))
    BY <1>10 DEF IsQuotient, B
  <2> HIDE DEF s
  <2>3. CASE a < 0 /\ b < 0
    <3>1. 0 <= -s /\ -s < B /\ -s \in Int
      BY <2>1, <2>2, <2>3, AbsIs
    <3>2. q * (-B) = -(B * q)
      BY <1>1
    <3>3. A = B * q + (-s)
      BY <1>1, <1>2, <2>1, <2>3, <3>2
    <3>4. A \div B = q
      BY <1>1, <3>1, <3>3, DivModIs
    <3> QED BY <1>3, <2>3, <3>4 DEF k
  <2>4. CASE a < 0 /\ b >= 0
    <3>1. 0 <= -s /\ -s < B /\ -s \in Int
      BY <2>1, <2>2, <2>4, AbsIs
    <3>2. B * (-q) = -(q * B) /\ -q \in Int
      BY <1>1
    <3>3. A = B * (-q) + (-s)
      BY <1>1, <1>2, <2>1, <2>4, <3>2
    <3>4. A \div B = -q
      BY <1>1, <3>1, <3>2, <3>3, DivModIs
    <3> QED BY <1>3, <2>4, <3>4 DEF k
  <2>5. CASE a >= 0 /\ b < 0
    <3>1. 0 <= s /\ s < B
      BY <2>1, <2>2, <2>5, AbsIs
    <3>2. B * (-q) = q * (-B) /\ -q \in Int
      BY <1>1
    <3>3. A = B * (-q) + s
      BY <1>1, <1>2, <2>1, <2>5, <3>2
    <3>4. A \div B = -q
      BY <1>1, <2>1, <3>1, <3>2, <3>3, DivModIs
    <3> QED BY <1>3, <2>5, <3>4 DEF k
  <2>6. CASE a >= 0 /\ b >= 0
    <3>1. 0 <= s /\ s < B
      BY <2>1, <2>2, <2>6, AbsIs
    <3>2. B * q = q * B
      BY <1>1
    <3>3. A = B * q + s
      BY <1>1, <1>2, <2>1, <2>6, <3>2
    <3>4. A \div B = q
      BY <1>1, <2>1, <3>1, <3>3, DivModIs
    <3> QED BY <1>3, <2>6, <3>4 DEF k
  <2> QED BY <2>3, <2>4, <2>5, <2>6
<1>11. a >= 0 /\ b >= 0 => Q >= 0
  BY <1>3, <1>5, <1>6
<1>12. Remainder(a, b) = a - Q * b
  BY <1>4, <1>7
<1> QED BY <1>7, <1>9, <1>10, <1>11, <1>12 DEF Q

\* The codes of a quotient that fits, from its bits.
LEMMA QuotientCodes ==
  ASSUME NEW bits \in Nat \ {0}, NEW q \in Int,
         -Half(bits) <= q, q < 2^bits, NEW signed \in BOOLEAN,
         IF signed THEN q < Half(bits) ELSE q >= 0
  PROVE  LET u == Unsigned(bits, q)
         IN /\ u \in Operands(bits)
            /\ (Signed(bits, u) < 0) = (IF signed THEN q < 0 ELSE Sign(Half(bits), q))
            /\ (u = 0) = (q = 0)
<1> DEFINE h == Half(bits)
           u == Unsigned(bits, q)
<1>1. h \in Nat \ {0} /\ 2^bits = 2 * h
  BY Widths
<1>2. u \in Operands(bits) /\ u \in Value(h)
  BY ResidueOperand DEF Unsigned
<1>3. u = Wrap(h, q)
  <2>1. -2 * h <= q /\ q < 4 * h
    BY <1>1
  <2>2. Wrap(h, q) = q % (2 * h)
    BY <1>1, <2>1, WrapIsResidue
  <2> QED BY <1>1, <2>2 DEF Unsigned
<1>4. (Signed(bits, u) < 0) <=> u >= h
  BY <1>2, SignedNegative
<1> HIDE DEF u
<1>5. (u >= h) <=> (IF signed THEN q < 0 ELSE Sign(h, q))
  BY <1>1, <1>3 DEF Wrap, Sign
<1>6. u = 0 <=> q = 0
  BY <1>1, <1>3 DEF Wrap
<1>7. (q < 0) \in BOOLEAN /\ Sign(h, q) \in BOOLEAN
  BY DEF Sign
<1>8. (Signed(bits, u) < 0) = (IF signed THEN q < 0 ELSE Sign(h, q))
  <2>1. CASE signed
    BY <1>4, <1>5, <2>1
  <2>2. CASE ~signed
    BY <1>4, <1>5, <1>7, <2>2
  <2> QED BY <2>1, <2>2
<1>9. (u = 0) = (q = 0)
  BY <1>6
<1> QED BY <1>2, <1>8, <1>9 DEF u

\* emit_divide
LEMMA DivideStep ==
  ASSUME Place, at = 1, DivideLong PROVE After'
<1>1. Ins.op \in {"DIVU", "DIVS"}
  BY First DEF DivideLong, Current, Ins, Divides
<1>2. Ins.bits = Word /\ Word \in Nat \ {0} /\ Long \in Nat \ {0} /\ 2 * Word = Long
  BY <1>1, OneOf, WidthsOfUnit DEF Divides
<1>3. Src \in Operands(Word) /\ ccr \in CCR /\ ccr.x \in BOOLEAN
  BY <1>2, First, FirstOperands DEF CCR
<1> DEFINE signed == Ins.op = "DIVS"
           d == reg[Ins.dst]
           a == IF signed THEN Signed(Long, d) ELSE d
           b == IF signed THEN Signed(Word, Src) ELSE Src
           quotients == IF signed THEN -Half(Word) .. Half(Word) - 1 ELSE Operands(Word)
           fitting == {q \in quotients : IsQuotient(a, b, q, a - q * b)}
           chosen == CHOOSE q \in fitting : TRUE
           Q == Quotient(a, b)
           tooLarge == IF signed THEN Q < -Half(Word) \/ Q > Half(Word) - 1
                       ELSE Q > Mask(Word)
           m == Manual(Ins, reg[Ins.src], d, ccr)
           o == Divide(Ins.op, Word, Src, d, ccr)
<1>4. d \in Operands(Long)
  <2>1. code \in Singles /\ Ins = code[1] /\ Ins.dst = "D0" /\ reg \in Inputs(code)
    BY <1>1, OneOf, First DEF Place, Divides
  <2> QED BY <1>1, <2>1, SingleInputs DEF Divides
<1>5. a \in Int /\ b \in Int /\ (~signed => a >= 0 /\ b >= 0)
  <2>1. d \in Nat /\ Src \in Nat
    BY <1>2, <1>3, <1>4, OperandsNat
  <2>2. Signed(Long, d) \in Int /\ Signed(Word, Src) \in Int
    BY <1>2, <1>3, <1>4, SignedBounds
  <2> QED BY <2>1, <2>2
<1>6. m = ManualDivide(Ins.op, Src, d, ccr)
  BY <1>1 DEF Manual, Src, Shifts, Lefts, Decimals, BitOps, Divides
<1>7. m = IF b = 0 THEN [value |-> d, trap |-> 5, codes |-> [x |-> ccr.x]]
          ELSE IF fitting = {}
          THEN [value |-> d, trap |-> 0, codes |-> [x |-> ccr.x, v |-> TRUE, c |-> FALSE]]
          ELSE [value |-> Unsigned(Word, chosen) + 2^Word * Unsigned(Word, a - chosen * b),
                trap |-> 0, codes |-> NZ(Word, Unsigned(Word, chosen), ccr)]
  BY <1>6, Zenon DEF ManualDivide
<1> DEFINE n == IF signed THEN Q < 0 ELSE Sign(Half(Word), Q)
           r == Unsigned(Word, Remainder(a, b)) * 2^Word + Unsigned(Word, Q)
<1>8. o = IF b = 0 THEN [trap |-> 5, value |-> d, ccr |-> ccr]
          ELSE IF tooLarge
          THEN Untrapped(Outcome(d, ccr.x, FALSE, FALSE, TRUE, FALSE))
          ELSE Untrapped(Outcome(r, ccr.x, n, Q = 0, FALSE, FALSE))
  BY <1>2, Zenon DEF Divide, ZeroDivide
<1>9. Retire(o.value, o.ccr, o.trap)
  BY <1>2 DEF DivideLong
<1> HIDE DEF m, o, a, b
<1>10. CASE b = 0
  <2>1. o = [trap |-> 5, value |-> d, ccr |-> ccr]
    BY <1>8, <1>10, Zenon
  <2>2. m = [value |-> d, trap |-> 5, codes |-> [x |-> ccr.x]]
    BY <1>7, <1>10, Zenon
  <2> HIDE DEF d
  <2>3. Retire(d, ccr, 5)
    BY <1>9, <2>1
  <2>4. m.value = d /\ m.trap = 5 /\ \A k \in DOMAIN m.codes : ccr[k] = m.codes[k]
    BY <2>2
  <2> QED BY <1>3, <2>3, <2>4, WholeStep DEF m, d
<1>11. CASE b # 0
  <2> DEFINE h == Half(Word)
  <2>1. h \in Nat \ {0} /\ 2^Word = 2 * h
    BY <1>2, Widths
  <2>2. /\ Q \in Int /\ (~signed => Q >= 0)
        /\ \A q \in Int : IsQuotient(a, b, q, a - q * b) <=> q = Q
        /\ Remainder(a, b) = a - Q * b
    BY <1>5, <1>11, QuotientIs
  <2> HIDE DEF Q
  <2>3. tooLarge <=> Q \notin quotients
    BY <1>2, <2>1, <2>2, OperandsNat DEF Mask
  <2>4. quotients \subseteq Int
    BY <1>2, <2>1, OperandsNat
  <2> HIDE DEF quotients, tooLarge
  <2>5. fitting = IF tooLarge THEN {} ELSE {Q}
    BY <2>2, <2>3, <2>4
  <2> HIDE DEF fitting
  <2>6. CASE tooLarge
    <3> DEFINE c == [x |-> ccr.x, n |-> FALSE, z |-> FALSE, v |-> TRUE, c |-> FALSE]
    <3>1. o = [trap |-> 0, value |-> d, ccr |-> c]
      BY <1>8, <1>11, <2>6 DEF Untrapped, Outcome
    <3>2. m = [value |-> d, trap |-> 0, codes |-> [x |-> ccr.x, v |-> TRUE, c |-> FALSE]]
      BY <1>7, <1>11, <2>5, <2>6
    <3> HIDE DEF d
    <3>3. Retire(d, c, 0)
      BY <1>9, <3>1
    <3>4. c \in CCR
      BY <1>3 DEF CCR
    <3>5. m.value = d /\ m.trap = 0 /\ \A k \in DOMAIN m.codes : c[k] = m.codes[k]
      <4>1. /\ DOMAIN m.codes = {"x", "v", "c"} /\ m.value = d /\ m.trap = 0
            /\ m.codes.x = ccr.x /\ m.codes.v = TRUE /\ m.codes.c = FALSE
        BY <3>2
      <4>2. c.x = ccr.x /\ c.v = TRUE /\ c.c = FALSE
        OBVIOUS
      <4> HIDE DEF c
      <4> QED BY <4>1, <4>2
    <3> QED BY <3>3, <3>4, <3>5, WholeStep, ZenonT(40) DEF m, d
  <2>7. CASE ~tooLarge
    <3> DEFINE u == Unsigned(Word, Q)
               e == Unsigned(Word, Remainder(a, b))
               c == [x |-> ccr.x, n |-> n, z |-> Q = 0, v |-> FALSE, c |-> FALSE]
    <3>1. chosen = Q
      BY <2>5, <2>7
    <3>2. -h <= Q /\ Q < 2 * h /\ IF signed THEN Q < h ELSE Q >= 0
      BY <1>2, <2>1, <2>2, <2>3, <2>7, OperandsNat DEF quotients
    <3>3. /\ u \in Operands(Word)
          /\ (Signed(Word, u) < 0) = n
          /\ (u = 0) = (Q = 0)
      BY <1>2, <2>1, <2>2, <3>2, QuotientCodes, ZenonT(40)
    <3>4. c = NZ(Word, u, ccr)
      BY <3>3, Zenon DEF NZ
    <3>5. o = [trap |-> 0, value |-> r, ccr |-> c]
      BY <1>8, <1>11, <2>7, Zenon DEF Untrapped, Outcome
    <3>6. m = [value |-> u + 2^Word * e, trap |-> 0, codes |-> c]
      <4>1. fitting # {}
        BY <2>5, <2>7
      <4>2. a - chosen * b = Remainder(a, b)
        BY <2>2, <3>1
      <4> HIDE DEF chosen
      <4> QED BY <1>7, <1>11, <3>1, <3>4, <4>1, <4>2, Zenon
    <3>7. e \in Int /\ u \in Int
      <4>1. Remainder(a, b) \in Int
        BY <1>5, <2>2
      <4> QED BY <1>2, <2>2, <4>1, ResidueOperand, OperandsNat DEF Unsigned
    <3>8. r = u + 2^Word * e
      <4> HIDE DEF u, e
      <4>1. e * 2^Word + u = u + 2^Word * e
        BY <2>1, <3>7
      <4> QED BY <4>1 DEF u, e
    <3>9. c \in CCR
      <4>1. n \in BOOLEAN
        <5>1. (Signed(Word, u) < 0) \in BOOLEAN
          OBVIOUS
        <5> HIDE DEF n
        <5> QED BY <3>3, <5>1, Zenon
      <4> HIDE DEF n
      <4> QED BY <1>3, <4>1 DEF CCR
    <3> HIDE DEF c, r
    <3>10. Retire(r, c, 0)
      BY <1>9, <3>5
    <3>11. m.value = r /\ m.trap = 0 /\ m.codes = c
      BY <3>6, <3>8
    <3> QED BY <3>9, <3>10, <3>11, WholeStep DEF m, d
  <2> QED BY <2>6, <2>7
<1> QED BY <1>10, <1>11
-----------------------------------------------------------------------------
(* One instruction: packed decimal.                                         *)

LEMMA DigitsFacts ==
  ASSUME NEW b \in Digits
  PROVE  /\ b \in 0..255 /\ b % 2^8 = b /\ b \div 2^8 = 0
         /\ FromBcd(b) \in 0..99
<1>1. b \in 0..255 /\ b \div 16 <= 9 /\ b % 16 <= 9
  BY UnitAssumption
<1>2. 2^8 = 256
  OBVIOUS
<1>3. b % 256 = b /\ b \div 256 = 0
  BY <1>1
<1>4. FromBcd(b) \in 0..99
  BY <1>1 DEF FromBcd
<1> QED BY <1>1, <1>2, <1>3, <1>4

LEMMA BcdBack ==
  ASSUME NEW n \in 0..99
  PROVE  /\ ToBcd(n) \in 0..255 /\ FromBcd(ToBcd(n)) = n
         /\ ToBcd(n) = 0 <=> n = 0
<1> DEFINE t == n \div 10
           u == n % 10
           b == t * 16 + u
<1>1. t \in 0..9 /\ u \in 0..9 /\ n = 10 * t + u
  OBVIOUS
<1>2. ToBcd(n) = b
  BY DEF ToBcd
<1> HIDE DEF t, u
<1>3. b \div 16 = t /\ b % 16 = u
  BY <1>1
<1>4. b \in 0..255 /\ (b = 0 <=> n = 0)
  BY <1>1
<1>5. FromBcd(b) = n
  BY <1>1, <1>3 DEF FromBcd
<1> QED BY <1>2, <1>4, <1>5

DecimalOutcome(op, src, dst, c) ==
  CASE op = "ABCD" -> Abcd(src, dst, c)
    [] op = "SBCD" -> Sbcd(src, dst, c)
    [] op = "NBCD" -> Nbcd(dst, c)

\* The printed sums are those of the numbers the digits stand for.
LEMMA DecimalIs ==
  ASSUME NEW op \in Decimals, NEW src, NEW dst, NEW c \in CCR,
         FromBcd(dst) \in 0..99, op # "NBCD" => FromBcd(src) \in 0..99
  PROVE  LET m == ManualDecimal(op, FromBcd(src), FromBcd(dst), 100, c)
             o == DecimalOutcome(op, src, dst, c)
         IN /\ m.decimal \in 0..99 /\ o.value = ToBcd(m.decimal) /\ o.ccr \in CCR
            /\ DOMAIN m.codes = {"x", "z", "c"}
            /\ o.ccr.x = m.codes.x /\ o.ccr.z = m.codes.z /\ o.ccr.c = m.codes.c
            /\ m.codes.x \in BOOLEAN
<1> DEFINE D == FromBcd(dst)
           S == FromBcd(src)
           X0 == X(c)
           exact == CASE op = "ABCD" -> D + S + X0
                      [] op = "SBCD" -> D - S - X0
                      [] op = "NBCD" -> -D - X0
           carry == exact < 0 \/ exact >= 100
           n == exact % 100
           m == ManualDecimal(op, S, D, 100, c)
           o == DecimalOutcome(op, src, dst, c)
<1>1. X0 \in {0, 1} /\ c.z \in BOOLEAN
  BY DEF X, CCR
<1>2. /\ m.decimal = n
      /\ m.codes = [x |-> carry, c |-> carry, z |-> c.z /\ n = 0]
  BY DEF ManualDecimal
<1> HIDE DEF D, S, X0
<1>3. exact \in Int
  BY <1>1, SMTT(30) DEF D, S, Decimals
<1>4. n \in 0..99
  <2> HIDE DEF exact
  <2> QED BY <1>3
<1> HIDE DEF exact
<1>5. o = Decimal(n, carry, c)
  <2>1. CASE op = "ABCD"
    <3>1. D + S + X0 \in Int /\ D + S + X0 >= 0 /\ exact = D + S + X0
      BY <1>1, <2>1 DEF D, S, exact
    <3>2. carry = (D + S + X0 > 99)
      BY <3>1
    <3>3. o = Decimal((D + S + X0) % 100, D + S + X0 > 99, c)
      BY <2>1 DEF DecimalOutcome, Abcd, D, S, X0
    <3> QED BY <3>1, <3>2, <3>3
  <2>2. CASE op = "SBCD"
    <3>1. exact = D - S - X0 /\ D \in 0..99 /\ S \in 0..99
      BY <2>2 DEF D, S, exact
    <3>2. carry = (S + X0 > D)
      BY <1>1, <3>1
    <3>3. (100 + D - (S + X0)) % 100 = n
      <4>1. 100 + D - (S + X0) = 100 + exact
        BY <1>1, <3>1
      <4> QED BY <1>3, <4>1
    <3>4. o = Decimal((100 + D - (S + X0)) % 100, S + X0 > D, c)
      BY <2>2 DEF DecimalOutcome, Sbcd, D, S, X0
    <3> QED BY <3>2, <3>3, <3>4
  <2>3. CASE op = "NBCD"
    <3>1. exact = -D - X0 /\ D \in 0..99
      BY <2>3 DEF D, exact
    <3>2. carry = (D + X0 # 0)
      BY <1>1, <3>1
    <3>3. (100 - D - X0) % 100 = n
      <4>1. 100 - D - X0 = 100 + exact
        BY <1>1, <3>1
      <4> QED BY <1>3, <4>1
    <3>4. o = Decimal((100 - D - X0) % 100, D + X0 # 0, c)
      BY <2>3 DEF DecimalOutcome, Nbcd, D, X0
    <3> QED BY <3>2, <3>3, <3>4
  <2> QED BY <2>1, <2>2, <2>3 DEF Decimals
<1>6. carry \in BOOLEAN
  OBVIOUS
<1> HIDE DEF n, carry, exact, o, m
<1>7. (ToBcd(n) = 0) = (n = 0)
  BY <1>4, BcdBack
<1>8. /\ o.value = ToBcd(n) /\ o.ccr.x = carry /\ o.ccr.c = carry
      /\ o.ccr.z = (c.z /\ ToBcd(n) = 0)
      /\ o.ccr.n = Sign(128, ToBcd(n)) /\ o.ccr.v = FALSE
      /\ o.ccr = [x |-> carry, n |-> Sign(128, ToBcd(n)), z |-> c.z /\ ToBcd(n) = 0,
                  v |-> FALSE, c |-> carry]
  BY <1>5, Zenon DEF Decimal, Outcome
<1>9. o.ccr \in CCR
  <2> DEFINE s == Sign(128, ToBcd(n))
             z == c.z /\ ToBcd(n) = 0
  <2>1. s \in BOOLEAN /\ z \in BOOLEAN
    BY DEF Sign
  <2> HIDE DEF s, z
  <2>2. [x |-> carry, n |-> s, z |-> z, v |-> FALSE, c |-> carry] \in CCR
    BY <1>6, <2>1 DEF CCR
  <2> QED BY <1>8, <2>2 DEF s, z
<1>10. /\ DOMAIN m.codes = {"x", "z", "c"} /\ m.codes.x = carry
       /\ m.codes.c = carry /\ m.codes.z = (c.z /\ n = 0)
  BY <1>2
<1>11. o.ccr.z = m.codes.z
  BY <1>7, <1>8, <1>10, Zenon
<1> QED BY <1>2, <1>4, <1>6, <1>8, <1>9, <1>10, <1>11 DEF o, m, D, S

LEMMA ManualOfDecimal ==
  ASSUME NEW i, i.op \in Decimals, NEW s, NEW d, NEW c
  PROVE  LET m == ManualDecimal(i.op, FromBcd(s % 2^i.bits), FromBcd(d % 2^i.bits), 100, c)
         IN Manual(i, s, d, c)
              = [value |-> Keep(i.bits, d, ToBcd(m.decimal)), codes |-> m.codes, trap |-> 0]
BY DEF Manual, Shifts, Lefts, Decimals, BitOps, Divides

LEMMA FirstDecimals ==
  ASSUME Place, at = 1, Ins.op \in Decimals
  PROVE  /\ Ins.bits = 8 /\ reg["D0"] \in Digits /\ Dst = reg["D0"]
         /\ Ins.op # "NBCD" => reg["S0"] \in Digits /\ Src = reg["S0"]
<1>1. /\ Ins = code[1] /\ Ins.dst = "D0" /\ Ins.src = "S0" /\ reg \in Inputs(code)
      /\ code \in Singles \cup Chains
  BY First DEF Place
<1>2. Ins.bits = 8
  BY First DEF OneInstruction, TwoInstructions, Binary, Unary, Decimals, Products, Divides,
               Shifts, Lefts, BitOps
<1>3. reg["D0"] \in Digits /\ (Ins.op # "NBCD" => reg["S0"] \in Digits)
  <2>1. CASE code \in Singles
    BY <1>1, <2>1, SingleInputs
  <2>2. CASE code \in Chains
    BY <1>1, <2>2, ChainInputs
  <2> QED BY <1>1, <2>1, <2>2
<1> QED BY <1>1, <1>2, <1>3, DigitsFacts DEF Src, Dst

\* emit_abcd_sbcd, emit_nbcd_core
LEMMA DecimalStep ==
  ASSUME Place, at = 1, PackedDecimal PROVE After'
<1>1. Ins.op \in Decimals
  BY First DEF PackedDecimal, Current, Ins
<1> DEFINE m == ManualDecimal(Ins.op, FromBcd(Src), FromBcd(Dst), 100, ccr)
           o == DecimalOutcome(Ins.op, Src, Dst, ccr)
           M == Manual(Ins, reg[Ins.src], reg[Ins.dst], ccr)
<1>2. FromBcd(Dst) \in 0..99 /\ (Ins.op # "NBCD" => FromBcd(Src) \in 0..99) /\ ccr \in CCR
  BY <1>1, FirstDecimals, DigitsFacts, First
<1>3. /\ o.value = ToBcd(m.decimal) /\ o.ccr \in CCR /\ DOMAIN m.codes = {"x", "z", "c"}
      /\ o.ccr.x = m.codes.x /\ o.ccr.z = m.codes.z /\ o.ccr.c = m.codes.c
  BY <1>1, <1>2, DecimalIs
<1>4. M = [value |-> Keep(Ins.bits, reg[Ins.dst], ToBcd(m.decimal)),
           codes |-> m.codes, trap |-> 0]
  BY <1>1, ManualOfDecimal DEF Src, Dst
<1>5. Narrow(o)
  BY <1>1 DEF PackedDecimal, DecimalOutcome, Decimals
<1> HIDE DEF o, m, M
<1>6. Retire(Keep(Ins.bits, reg[Ins.dst], o.value), o.ccr, 0)
  BY <1>5 DEF Narrow
<1>7. /\ M.value = Keep(Ins.bits, reg[Ins.dst], o.value) /\ M.trap = 0
      /\ \A k \in DOMAIN M.codes : o.ccr[k] = M.codes[k]
  <2>1. M.value = Keep(Ins.bits, reg[Ins.dst], o.value) /\ M.trap = 0 /\ M.codes = m.codes
    BY <1>3, <1>4
  <2> QED BY <1>3, <2>1
<1> QED BY <1>3, <1>6, <1>7, WholeStep DEF M
-----------------------------------------------------------------------------
(* One instruction: shifts and rotates.  The state of the loop after n      *)
(* rounds is a closed form of n.                                            *)

LoopStates(bits) ==
  [result : Operands(bits), last : {0, 1}, x : {0, 1}, v : BOOLEAN]

\* f is the first N + 1 states of the loop.
Loops(f, op, bits, s, N) ==
  f = [n \in 0..N |-> IF n = 0 THEN s ELSE Round(op, bits, f[n - 1])]

LEMMA LoopsExists ==
  ASSUME NEW op, NEW bits, NEW s, NEW N \in Nat
  PROVE  \E f : Loops(f, op, bits, s, N)
<1> DEFINE T == {m \in Nat : ~ \E f : Loops(f, op, bits, s, m)}
           R(t) == Round(op, bits, t)
<1> SUFFICES ASSUME T # {} PROVE FALSE
  OBVIOUS
<1>1. PICK m \in T : \A y \in T : m <= y
  BY LeastNat
<1>2. m \in Nat /\ ~ \E f : Loops(f, op, bits, s, m)
  OBVIOUS
<1>3. CASE m = 0
  <2> DEFINE f == [k \in 0..0 |-> s]
  <2>1. Loops(f, op, bits, s, 0)
    BY DEF Loops
  <2> QED BY <1>2, <1>3, <2>1
<1>4. CASE m # 0
  <2>1. m - 1 \in Nat /\ m - 1 \notin T
    BY <1>1, <1>2, <1>4
  <2>2. PICK f : Loops(f, op, bits, s, m - 1)
    BY <2>1
  <2> DEFINE g == [k \in 0..m |-> IF k = m THEN R(f[m - 1]) ELSE f[k]]
  <2>3. \A k \in 0..(m - 1) : g[k] = f[k] /\ f[k] = IF k = 0 THEN s ELSE R(f[k - 1])
    BY <1>2, <2>1, <2>2 DEF Loops
  <2>4. \A k \in 0..m : g[k] = IF k = 0 THEN s ELSE R(g[k - 1])
    <3> SUFFICES ASSUME NEW k \in 0..m PROVE g[k] = IF k = 0 THEN s ELSE R(g[k - 1])
      OBVIOUS
    <3>1. g[m] = R(f[m - 1])
      BY <1>2
    <3> HIDE DEF g, R
    <3>2. CASE k = m
      <4>1. m - 1 \in 0..(m - 1)
        BY <2>1, <1>2
      <4> QED BY <3>1, <3>2, <4>1, <2>3, <1>4
    <3>3. CASE k # m
      <4>1. k \in 0..(m - 1)
        BY <1>2, <3>3
      <4>2. k # 0 => k - 1 \in 0..(m - 1)
        BY <1>2, <3>3
      <4> QED BY <4>1, <4>2, <2>3
    <3> QED BY <3>2, <3>3
  <2>5. g = [k \in 0..m |-> g[k]]
    OBVIOUS
  <2> HIDE DEF g
  <2>6. Loops(g, op, bits, s, m)
    BY <2>4, <2>5 DEF Loops
  <2> QED BY <1>2, <2>6
<1> QED BY <1>3, <1>4

LEMMA RoundsLoop ==
  ASSUME NEW op, NEW bits, NEW s, NEW count \in Nat
  PROVE  \E f : Loops(f, op, bits, s, count) /\ Rounds(op, bits, s, count) = f[count]
<1> DEFINE f[n \in 0..count] == IF n = 0 THEN s ELSE Round(op, bits, f[n - 1])
<1>1. Rounds(op, bits, s, count) = f[count]
  BY DEF Rounds
<1>2. Loops(f, op, bits, s, count)
  <2>1. PICK g : Loops(g, op, bits, s, count)
    BY LoopsExists
  <2>2. \E h : h = [n \in 0..count |-> IF n = 0 THEN s ELSE Round(op, bits, h[n - 1])]
    BY <2>1, Zenon DEF Loops
  <2> QED BY <2>2 DEF Loops
<1> HIDE DEF f
<1> QED BY <1>1, <1>2

\* Induction over the rounds: what holds of the start, and goes from one round
\* to the next, holds at the end.
LEMMA RoundsReach ==
  ASSUME NEW op, NEW bits, NEW s, NEW count \in Nat, NEW G, <<0, s>> \in G,
         \A t : \A n \in Nat : <<n, t>> \in G => <<n + 1, Round(op, bits, t)>> \in G
  PROVE  <<count, Rounds(op, bits, s, count)>> \in G
<1>1. PICK f : Loops(f, op, bits, s, count) /\ Rounds(op, bits, s, count) = f[count]
  BY RoundsLoop
<1>2. f[0] = s /\ \A n \in Nat : n < count => f[n + 1] = Round(op, bits, f[n])
  <2>1. f[0] = s
    BY <1>1 DEF Loops
  <2>2. ASSUME NEW n \in Nat, n < count PROVE f[n + 1] = Round(op, bits, f[n])
    <3>1. n + 1 \in 0..count /\ n + 1 # 0 /\ (n + 1) - 1 = n
      BY <2>2
    <3>2. f[n + 1] = Round(op, bits, f[(n + 1) - 1])
      BY <1>1, <3>1, Zenon DEF Loops
    <3> QED BY <3>1, <3>2
  <2> QED BY <2>1, <2>2
<1> DEFINE T == {n \in Nat : n <= count /\ <<n, f[n]>> \notin G}
<1> SUFFICES ASSUME <<count, f[count]>> \notin G PROVE FALSE
  BY <1>1
<1>3. count \in T
  OBVIOUS
<1>4. PICK m \in T : \A y \in T : m <= y
  BY <1>3, LeastNat
<1>5. m # 0
  BY <1>2, <1>4
<1> DEFINE n == m - 1
<1>6. n \in Nat /\ n < count /\ m = n + 1 /\ n \notin T
  BY <1>4, <1>5
<1>7. <<n, f[n]>> \in G
  BY <1>6
<1> HIDE DEF n
<1>8. <<n + 1, f[n + 1]>> \in G
  BY <1>2, <1>6, <1>7
<1> QED BY <1>4, <1>6, <1>8

\* One round, with the result split into its sign bit and the rest.
LEMMA RoundIs ==
  ASSUME NEW bits \in Nat \ {0}, NEW op \in Shifts, NEW t \in LoopStates(bits)
  PROVE  LET h == Half(bits)
             r == t.result
             top == r \div h
             rest == r % h
             low == r % 2
             out == IF op \in Lefts THEN top ELSE low
             in == CASE op = "ASR" -> top
                     [] op \in Rotates -> out
                     [] op \in Extends -> t.x
                     [] OTHER -> 0
             u == Round(op, bits, t)
         IN /\ h \in Nat \ {0} /\ r \in Nat /\ r < 2 * h /\ rest \in Nat /\ rest < h
            /\ top \in {0, 1} /\ low \in {0, 1} /\ r = h * top + rest
            /\ (top = 1 <=> r >= h)
            /\ u.result = IF op \in Lefts THEN 2 * rest + in ELSE r \div 2 + in * h
            /\ u.last = out
            /\ u.x = IF op \in Extends THEN out ELSE t.x
            /\ u.v = (t.v \/ (op = "ASL" /\ (2 * rest) \div h # top))
            /\ u \in LoopStates(bits)
<1> DEFINE h == Half(bits)
           r == t.result
           top == r \div h
           rest == r % h
           low == r % 2
           out == IF op \in Lefts THEN top ELSE low
           in == CASE op = "ASR" -> top
                   [] op \in Rotates -> out
                   [] op \in Extends -> t.x
                   [] OTHER -> 0
           u == Round(op, bits, t)
<1>1. h \in Nat \ {0} /\ 2^bits = 2 * h
  BY Widths
<1>2. r \in Nat /\ r < 2 * h /\ t.x \in {0, 1} /\ t.v \in BOOLEAN
  BY <1>1, OperandsNat DEF LoopStates
<1> HIDE DEF h, r
<1>3. top \in Int /\ rest \in Nat /\ rest < h /\ r = h * top + rest
  BY <1>1, <1>2, DivMod
<1> HIDE DEF top, rest
<1>4. top \in {0, 1}
  <2>1. CASE top <= -1
    <3>1. h * top <= -h
      BY <1>1, <1>3, <2>1
    <3> QED BY <1>1, <1>2, <1>3, <3>1
  <2>2. CASE top >= 2
    <3>1. h * top >= 2 * h
      BY <1>1, <1>3, <2>2
    <3> QED BY <1>1, <1>2, <1>3, <3>1
  <2> QED BY <1>3, <2>1, <2>2
<1>5. top = 1 <=> r >= h
  BY <1>1, <1>2, <1>3, <1>4
<1>6. low \in {0, 1}
  BY <1>2
<1>7. (2 * r) % 2^bits = 2 * rest
  <2> DEFINE b == 2 * h
             y == 2 * r
             z == 2 * rest
  <2>1. b \in Nat \ {0} /\ y \in Int /\ z \in Int /\ 0 <= z /\ z < b /\ y = b * top + z
    BY <1>1, <1>2, <1>3, <1>4
  <2> HIDE DEF b, y, z
  <2>2. y % b = z
    BY <1>3, <2>1, DivModIs
  <2> QED BY <1>1, <2>2 DEF b, y, z
<1>8. out \in {0, 1}
  BY <1>4, <1>6
<1>9. in \in {0, 1}
  <2> HIDE DEF out
  <2> QED BY <1>2, <1>4, <1>8
<1>10. u = [result |-> IF op \in Lefts THEN 2 * rest + in ELSE r \div 2 + in * h,
            last |-> out,
            x |-> IF op \in Extends THEN out ELSE t.x,
            v |-> t.v \/ (op = "ASL" /\ (2 * rest) \div h # top)]
  <2>1. u = [result |-> IF op \in Lefts THEN ((2 * r) % 2^bits) + in ELSE r \div 2 + in * h,
             last |-> out,
             x |-> IF op \in Extends THEN out ELSE t.x,
             v |-> t.v \/ (op = "ASL" /\ ((2 * r) % 2^bits) \div h # top)]
    BY Zenon DEF Round, h, r, top
  <2> HIDE DEF u, in, out
  <2> QED BY <1>7, <2>1, Zenon
<1> HIDE DEF in, out, u
<1> DEFINE w == IF op \in Lefts THEN 2 * rest + in ELSE r \div 2 + in * h
           v == t.v \/ (op = "ASL" /\ (2 * rest) \div h # top)
           x == IF op \in Extends THEN out ELSE t.x
<1>11. w \in Operands(bits)
  <2>1. 2 * rest + in \in Nat /\ 2 * rest + in < 2 * h
    BY <1>1, <1>3, <1>9
  <2>2. r \div 2 \in Nat /\ r \div 2 < h
    BY <1>1, <1>2
  <2>3. r \div 2 + in * h \in Nat /\ r \div 2 + in * h < 2 * h
    BY <1>1, <1>9, <2>2
  <2>4. w \in Nat /\ w < 2^bits
    BY <1>1, <2>1, <2>3
  <2> HIDE DEF w
  <2> QED BY <2>4, OperandsNat
<1>12. v \in BOOLEAN /\ x \in {0, 1}
  BY <1>2, <1>8
<1> HIDE DEF w, v, x
<1>13. u = [result |-> w, last |-> out, x |-> x, v |-> v]
  BY <1>10 DEF w, v, x
<1>14. u \in LoopStates(bits)
  BY <1>8, <1>11, <1>12, <1>13 DEF LoopStates
<1>15. u.result = w /\ u.last = out /\ u.x = x /\ u.v = v
  BY <1>13
<1> QED
  BY <1>1, <1>2, <1>3, <1>4, <1>5, <1>6, <1>14, <1>15, Zenon
     DEF h, r, top, rest, out, in, u, w, v, x

LoopStart(d, x) == [result |-> d, last |-> 0, x |-> x, v |-> FALSE]

LEMMA LoopStartTyped ==
  ASSUME NEW bits, NEW d \in Operands(bits), NEW x \in {0, 1}
  PROVE  /\ LoopStart(d, x) \in LoopStates(bits)
         /\ LoopStart(d, x).result = d /\ LoopStart(d, x).x = x
         /\ LoopStart(d, x).v = FALSE
BY DEF LoopStart, LoopStates

\* A number that is doubled: the bit that leaves an operand at the top.
LEMMA DoubleResidue ==
  ASSUME NEW h \in Nat \ {0}, NEW y \in Int, NEW top \in {0, 1}, NEW rest \in Nat,
         rest < h, y % (2 * h) = h * top + rest
  PROVE  (2 * y) % (2 * h) = 2 * rest /\ ((2 * y) \div (2 * h)) % 2 = top
<1> DEFINE b == 2 * h
           q == y \div b
           e == 2 * q + top
           z == 2 * rest
           w == 2 * y
<1>1. b \in Nat \ {0}
  OBVIOUS
<1>2. q \in Int /\ y = b * q + (h * top + rest)
  BY <1>1, DivMod
<1> HIDE DEF q
<1>3. w = b * e + z
  <2>1. b * e = 2 * (b * q) + b * top
    BY <1>1, <1>2
  <2>2. b * top = 2 * (h * top)
    OBVIOUS
  <2> QED BY <1>1, <1>2, <2>1, <2>2
<1>4. w \in Int /\ e \in Int /\ z \in Int /\ 0 <= z /\ z < b /\ e % 2 = top
  BY <1>2
<1> HIDE DEF b, e, z, w
<1>5. w % b = z /\ w \div b = e
  BY <1>1, <1>3, <1>4, DivModIs
<1> QED BY <1>4, <1>5 DEF b, z, w

\* LSL and ASL, but for the overflow.
LEMMA LeftShifts ==
  ASSUME NEW bits \in Nat \ {0}, NEW op \in {"LSL", "ASL"}, NEW d \in Operands(bits),
         NEW x \in {0, 1}, NEW count \in Nat
  PROVE  LET t == Rounds(op, bits, LoopStart(d, x), count)
         IN /\ t \in LoopStates(bits) /\ t.result = (d * 2^count) % 2^bits
            /\ count # 0 => t.last = Bit(d * 2^count, bits)
            /\ op = "LSL" => ~t.v
<1> DEFINE P(n, t) == /\ t \in LoopStates(bits) /\ t.result = (d * 2^n) % 2^bits
                      /\ n # 0 => t.last = Bit(d * 2^n, bits)
                      /\ op = "LSL" => ~t.v
           G == {p \in Nat \X LoopStates(bits) : P(p[1], p[2])}
           h == Half(bits)
<1>1. h \in Nat \ {0} /\ 2^bits = 2 * h /\ d \in Nat /\ d < 2 * h
  BY Widths, OperandsNat
<1>2. <<0, LoopStart(d, x)>> \in G
  <2>1. d * 2^0 = d
    BY <1>1
  <2>2. d % 2^bits = d
    BY <1>1, SmallResidue
  <2> QED BY <2>1, <2>2, LoopStartTyped, ZenonT(40)
<1>3. ASSUME NEW n \in Nat, NEW t, P(n, t) PROVE P(n + 1, Round(op, bits, t))
  <2> DEFINE u == Round(op, bits, t)
             top == t.result \div h
             rest == t.result % h
             y == d * 2^n
  <2>1. op \in Shifts /\ op \in Lefts /\ op \notin Rotates /\ op \notin Extends
    BY DEF Shifts, Lefts, Rotates, Extends
  <2>2. /\ rest \in Nat /\ rest < h /\ top \in {0, 1} /\ t.result = h * top + rest
        /\ u.result = 2 * rest + 0 /\ u.last = top /\ u \in LoopStates(bits)
        /\ u.v = (t.v \/ (op = "ASL" /\ (2 * rest) \div h # top))
    BY <1>3, <2>1, RoundIs
  <2>3. 2^n \in Nat /\ 2^(n + 1) = 2 * 2^n
    BY PowerPositive, PowerDoubles
  <2>4. y \in Int /\ d * 2^(n + 1) = 2 * y
    BY <1>1, <2>3
  <2> HIDE DEF u, top, rest, y
  <2>5. y % (2 * h) = h * top + rest
    BY <1>1, <1>3, <2>2 DEF y
  <2>6. (2 * y) % (2 * h) = 2 * rest /\ ((2 * y) \div (2 * h)) % 2 = top
    BY <1>1, <2>2, <2>4, <2>5, DoubleResidue, ZenonT(40)
  <2>7. u.result = (d * 2^(n + 1)) % 2^bits
    <3>1. u.result = 2 * rest
      BY <2>2
    <3> QED BY <1>1, <2>4, <2>6, <3>1
  <2>8. u.last = Bit(d * 2^(n + 1), bits)
    BY <1>1, <2>2, <2>4, <2>6 DEF Bit
  <2>9. op = "LSL" => ~u.v
    BY <1>3, <2>2
  <2> QED BY <2>2, <2>7, <2>8, <2>9 DEF u
<1> HIDE DEF P
<1>4. \A t : \A n \in Nat : <<n, t>> \in G => <<n + 1, Round(op, bits, t)>> \in G
  <2> SUFFICES ASSUME NEW n \in Nat, NEW t, <<n, t>> \in G
               PROVE  <<n + 1, Round(op, bits, t)>> \in G
    OBVIOUS
  <2>1. P(n, t)
    OBVIOUS
  <2>2. P(n + 1, Round(op, bits, t))
    BY <1>3, <2>1
  <2>3. Round(op, bits, t) \in LoopStates(bits)
    BY <2>2 DEF P
  <2> QED BY <2>2, <2>3
<1>5. <<count, Rounds(op, bits, LoopStart(d, x), count)>> \in G
  <2> HIDE DEF G
  <2> QED BY <1>2, <1>4, RoundsReach
<1>6. P(count, Rounds(op, bits, LoopStart(d, x), count))
  BY <1>5
<1> QED BY <1>6 DEF P

\* ASL: a sign that changes in some round is a number that does not fit.
LEMMA LeftOverflow ==
  ASSUME NEW bits \in Nat \ {0}, NEW d \in Operands(bits), NEW x \in {0, 1},
         NEW count \in Nat
  PROVE  LET t == Rounds("ASL", bits, LoopStart(d, x), count)
         IN t.v = ~Fits(bits, Signed(bits, d) * 2^count)
<1> DEFINE s == Signed(bits, d)
           h == Half(bits)
           F(n) == Fits(bits, s * 2^n)
           P(n, t) == /\ t \in LoopStates(bits) /\ t.v = ~F(n)
                      /\ F(n) => Signed(bits, t.result) = s * 2^n
           G == {p \in Nat \X LoopStates(bits) : P(p[1], p[2])}
<1>1. h \in Nat \ {0} /\ 2^bits = 2 * h /\ d \in Nat /\ d < 2 * h
  BY Widths, OperandsNat
<1>2. s \in Int /\ -h <= s /\ s < h
  BY SignedBounds
<1>3. <<0, LoopStart(d, x)>> \in G
  <2>1. s * 2^0 = s
    BY <1>2
  <2>2. F(0)
    BY <1>1, <1>2, <2>1 DEF Fits
  <2>3. LoopStart(d, x) \in LoopStates(bits) /\ LoopStart(d, x).result = d
        /\ LoopStart(d, x).v = FALSE
    BY LoopStartTyped
  <2> HIDE DEF F
  <2>4. P(0, LoopStart(d, x))
    BY <2>1, <2>2, <2>3
  <2> QED BY <2>3, <2>4
<1> HIDE DEF s
<1>4. ASSUME NEW n \in Nat, NEW t, P(n, t) PROVE P(n + 1, Round("ASL", bits, t))
  <2> DEFINE u == Round("ASL", bits, t)
             top == t.result \div h
             rest == t.result % h
             z == s * 2^n
             r == t.result
  <2>1. "ASL" \in Shifts /\ "ASL" \in Lefts /\ "ASL" \notin Rotates /\ "ASL" \notin Extends
    BY DEF Shifts, Lefts, Rotates, Extends
  <2>2. /\ r \in Nat /\ r < 2 * h
        /\ rest \in Nat /\ rest < h /\ top \in {0, 1} /\ r = h * top + rest
        /\ u.result = 2 * rest + 0 /\ u \in LoopStates(bits)
        /\ u.v = (t.v \/ (2 * rest) \div h # top)
    BY <1>4, <2>1, RoundIs
  <2>3. 2^n \in Nat /\ 2^(n + 1) = 2 * 2^n
    BY PowerPositive, PowerDoubles
  <2>4. z \in Int /\ s * 2^(n + 1) = 2 * z
    BY <1>2, <2>3
  <2>5. t.v \in BOOLEAN /\ t.v = ~F(n) /\ (F(n) => Signed(bits, r) = z)
    BY <1>4 DEF LoopStates
  <2>6. /\ Signed(bits, r) = IF r >= h THEN r - 2 * h ELSE r
        /\ Signed(bits, u.result) = IF u.result >= h THEN u.result - 2 * h ELSE u.result
    BY <1>1 DEF Signed
  <2>7. (F(n) <=> -h <= z /\ z < h) /\ (F(n + 1) <=> -h <= 2 * z /\ 2 * z < h)
    BY <2>4 DEF Fits
  <2>8. (2 * rest) \div h = IF 2 * rest >= h THEN 1 ELSE 0
    <3> DEFINE y == 2 * rest
    <3>1. CASE y >= h
      <4>1. y = h * 1 + (y - h) /\ 0 <= y - h /\ y - h < h /\ y - h \in Int /\ y \in Int
        BY <1>1, <2>2, <3>1
      <4> QED BY <1>1, <3>1, <4>1, DivModIs
    <3>2. CASE ~(y >= h)
      <4>1. y = h * 0 + y /\ 0 <= y /\ y < h /\ y \in Int
        BY <1>1, <2>2, <3>2
      <4> QED BY <1>1, <3>2, <4>1, DivModIs
    <3> QED BY <3>1, <3>2
  <2> HIDE DEF u, top, rest, z, r, F, h
  <2> DEFINE e == (2 * rest) \div h
  <2>9. F(n + 1) <=> (F(n) /\ e = top)
    <3>1. CASE ~F(n)
      BY <1>1, <2>4, <2>7, <3>1
    <3>2. CASE F(n)
      <4>1. z = IF top = 1 THEN rest - h ELSE rest
        BY <1>1, <2>2, <2>5, <2>6, <3>2
      <4> QED BY <1>1, <2>2, <2>4, <2>7, <2>8, <3>2, <4>1
    <3> QED BY <3>1, <3>2
  <2>10. F(n) \in BOOLEAN /\ F(n + 1) \in BOOLEAN
    BY DEF F, Fits
  <2>11. u.v = ~F(n + 1)
    <3>1. u.v = (t.v \/ e # top)
      BY <2>2
    <3> HIDE DEF e
    <3> QED BY <2>5, <2>9, <2>10, <3>1
  <2>12. F(n + 1) => Signed(bits, u.result) = 2 * z
    <3> SUFFICES ASSUME F(n + 1) PROVE Signed(bits, u.result) = 2 * z
      OBVIOUS
    <3>1. F(n) /\ e = top
      BY <2>9
    <3>2. z = IF top = 1 THEN rest - h ELSE rest
      BY <1>1, <2>2, <2>5, <2>6, <3>1
    <3>3. u.result = 2 * rest /\ u.result \in Int
      BY <2>2
    <3> QED BY <1>1, <2>2, <2>6, <2>8, <3>1, <3>2, <3>3
  <2> QED BY <2>2, <2>4, <2>11, <2>12 DEF u
<1> HIDE DEF P
<1>5. \A t : \A n \in Nat : <<n, t>> \in G => <<n + 1, Round("ASL", bits, t)>> \in G
  <2> SUFFICES ASSUME NEW n \in Nat, NEW t, <<n, t>> \in G
               PROVE  <<n + 1, Round("ASL", bits, t)>> \in G
    OBVIOUS
  <2>1. P(n, t)
    OBVIOUS
  <2>2. P(n + 1, Round("ASL", bits, t))
    BY <1>4, <2>1
  <2>3. Round("ASL", bits, t) \in LoopStates(bits)
    BY <2>2 DEF P
  <2> QED BY <2>2, <2>3
<1>6. <<count, Rounds("ASL", bits, LoopStart(d, x), count)>> \in G
  <2> HIDE DEF G
  <2> QED BY <1>3, <1>5, RoundsReach
<1>7. P(count, Rounds("ASL", bits, LoopStart(d, x), count))
  BY <1>6
<1> QED BY <1>7 DEF P, s

\* LSR
LEMMA RightShifts ==
  ASSUME NEW bits \in Nat \ {0}, NEW d \in Operands(bits), NEW x \in {0, 1},
         NEW count \in Nat
  PROVE  LET t == Rounds("LSR", bits, LoopStart(d, x), count)
         IN /\ t \in LoopStates(bits) /\ t.result = d \div 2^count
            /\ count # 0 => t.last = Bit(d, count - 1)
            /\ ~t.v
<1> DEFINE P(n, t) == /\ t \in LoopStates(bits) /\ t.result = d \div 2^n
                      /\ n # 0 => t.last = Bit(d, n - 1)
                      /\ ~t.v
           G == {p \in Nat \X LoopStates(bits) : P(p[1], p[2])}
           h == Half(bits)
<1>1. d \in Nat
  BY OperandsNat
<1>2. <<0, LoopStart(d, x)>> \in G
  <2>1. d \div 2^0 = d
    BY <1>1
  <2> QED BY <2>1, LoopStartTyped, ZenonT(40)
<1>3. ASSUME NEW n \in Nat, NEW t, P(n, t) PROVE P(n + 1, Round("LSR", bits, t))
  <2> DEFINE u == Round("LSR", bits, t)
             r == t.result
  <2>1. /\ "LSR" \in Shifts /\ "LSR" \notin Lefts /\ "LSR" \notin Rotates
        /\ "LSR" \notin Extends
    BY DEF Shifts, Lefts, Rotates, Extends
  <2>2. /\ h \in Nat \ {0} /\ r \in Nat /\ u.last = r % 2
        /\ u \in LoopStates(bits) /\ u.v = (t.v \/ FALSE)
    BY <1>3, <2>1, RoundIs
  <2>3. u.result = r \div 2
    <3> DEFINE in == CASE "LSR" = "ASR" -> r \div h
                       [] "LSR" \in Rotates -> r % 2
                       [] "LSR" \in Extends -> t.x
                       [] OTHER -> 0
    <3>1. in = 0
      BY <2>1
    <3>2. u.result = r \div 2 + in * h
      BY <1>3, <2>1, RoundIs
    <3> HIDE DEF in, u, r, h
    <3>3. r \div 2 \in Int
      BY <2>2
    <3> QED BY <2>2, <3>1, <3>2, <3>3
  <2>4. r = d \div 2^n
    BY <1>3
  <2>5. u.result = d \div 2^(n + 1)
    <3>1. d \in Int
      BY <1>1
    <3>2. d \div 2^(n + 1) = (d \div 2^n) \div 2
      BY <3>1, BitStep
    <3> QED BY <2>3, <2>4, <3>2
  <2>6. u.last = Bit(d, (n + 1) - 1)
    BY <2>2, <2>4 DEF Bit
  <2>7. ~u.v
    BY <1>3, <2>2
  <2> QED BY <2>2, <2>5, <2>6, <2>7
<1> HIDE DEF P
<1>4. \A t : \A n \in Nat : <<n, t>> \in G => <<n + 1, Round("LSR", bits, t)>> \in G
  <2> SUFFICES ASSUME NEW n \in Nat, NEW t, <<n, t>> \in G
               PROVE  <<n + 1, Round("LSR", bits, t)>> \in G
    OBVIOUS
  <2>1. P(n, t)
    OBVIOUS
  <2>2. P(n + 1, Round("LSR", bits, t))
    BY <1>3, <2>1
  <2>3. Round("LSR", bits, t) \in LoopStates(bits)
    BY <2>2 DEF P
  <2> QED BY <2>2, <2>3
<1>5. <<count, Rounds("LSR", bits, LoopStart(d, x), count)>> \in G
  <2> HIDE DEF G
  <2> QED BY <1>2, <1>4, RoundsReach
<1>6. P(count, Rounds("LSR", bits, LoopStart(d, x), count))
  BY <1>5
<1> QED BY <1>6 DEF P

\* ASR
LEMMA RightArithmetic ==
  ASSUME NEW bits \in Nat \ {0}, NEW d \in Operands(bits), NEW x \in {0, 1},
         NEW count \in Nat
  PROVE  LET t == Rounds("ASR", bits, LoopStart(d, x), count)
             s == Signed(bits, d)
         IN /\ t \in LoopStates(bits) /\ t.result = Unsigned(bits, s \div 2^count)
            /\ count # 0 => t.last = Bit(s, count - 1)
            /\ ~t.v
<1> DEFINE s == Signed(bits, d)
           h == Half(bits)
           Z(n) == s \div 2^n
           P(n, t) == /\ t \in LoopStates(bits)
                      /\ Z(n) \in Int /\ -h <= Z(n) /\ Z(n) < h
                      /\ t.result = IF Z(n) < 0 THEN Z(n) + 2 * h ELSE Z(n)
                      /\ n # 0 => t.last = Bit(s, n - 1)
                      /\ ~t.v
           G == {p \in Nat \X LoopStates(bits) : P(p[1], p[2])}
<1>1. h \in Nat \ {0} /\ 2^bits = 2 * h /\ d \in Nat /\ d < 2 * h
  BY Widths, OperandsNat
<1>2. s \in Int /\ -h <= s /\ s < h /\ d = IF s < 0 THEN s + 2 * h ELSE s
  <2>1. s = IF d >= h THEN d - 2 * h ELSE d
    BY <1>1 DEF Signed
  <2> HIDE DEF s, h
  <2> QED BY <1>1, <2>1
<1> HIDE DEF s
<1>3. <<0, LoopStart(d, x)>> \in G
  <2>1. Z(0) = s
    BY <1>2
  <2>2. LoopStart(d, x) \in LoopStates(bits) /\ LoopStart(d, x).result = d
        /\ LoopStart(d, x).v = FALSE
    BY LoopStartTyped
  <2> HIDE DEF Z
  <2>3. P(0, LoopStart(d, x))
    BY <1>2, <2>1, <2>2
  <2> QED BY <2>2, <2>3
<1>4. ASSUME NEW n \in Nat, NEW t, P(n, t) PROVE P(n + 1, Round("ASR", bits, t))
  <2> DEFINE u == Round("ASR", bits, t)
             r == t.result
             top == r \div h
             z == Z(n)
  <2>1. /\ "ASR" \in Shifts /\ "ASR" \notin Lefts /\ "ASR" \notin Rotates
        /\ "ASR" \notin Extends
    BY DEF Shifts, Lefts, Rotates, Extends
  <2>2. /\ r \in Nat /\ u.last = r % 2 /\ u.result = r \div 2 + top * h
        /\ top \in {0, 1} /\ (top = 1 <=> r >= h)
        /\ u \in LoopStates(bits) /\ u.v = (t.v \/ FALSE)
    BY <1>4, <2>1, RoundIs
  <2>3. z \in Int /\ -h <= z /\ z < h /\ r = IF z < 0 THEN z + 2 * h ELSE z
    BY <1>4
  <2>4. Z(n + 1) = z \div 2 /\ Bit(s, n) = z % 2
    BY <1>2, BitStep DEF Bit
  <2>5. ~u.v
    BY <1>4, <2>2
  <2> HIDE DEF z, Z, top, r, u, h
  <2>6. z \div 2 \in Int /\ -h <= z \div 2 /\ z \div 2 < h
    BY <1>1, <2>3
  <2>7. r % 2 = z % 2
    BY <1>1, <2>3
  <2>8. u.result = IF z \div 2 < 0 THEN z \div 2 + 2 * h ELSE z \div 2
    <3>1. CASE z < 0
      <4>1. r = z + 2 * h /\ top = 1 /\ z \div 2 < 0
        BY <1>1, <2>2, <2>3, <3>1
      <4>2. r \div 2 = z \div 2 + h
        BY <1>1, <2>3, <4>1
      <4> QED BY <1>1, <2>2, <2>6, <4>1, <4>2
    <3>2. CASE z >= 0
      <4>1. r = z /\ top = 0 /\ ~(z \div 2 < 0)
        BY <1>1, <2>2, <2>3, <3>2
      <4> QED BY <1>1, <2>2, <2>6, <4>1
    <3> QED BY <2>3, <3>1, <3>2
  <2>9. u.last = Bit(s, (n + 1) - 1)
    BY <2>2, <2>4, <2>7
  <2> QED BY <2>2, <2>4, <2>5, <2>6, <2>8, <2>9 DEF u
<1> HIDE DEF P
<1>5. \A t : \A n \in Nat : <<n, t>> \in G => <<n + 1, Round("ASR", bits, t)>> \in G
  <2> SUFFICES ASSUME NEW n \in Nat, NEW t, <<n, t>> \in G
               PROVE  <<n + 1, Round("ASR", bits, t)>> \in G
    OBVIOUS
  <2>1. P(n, t)
    OBVIOUS
  <2>2. P(n + 1, Round("ASR", bits, t))
    BY <1>4, <2>1
  <2>3. Round("ASR", bits, t) \in LoopStates(bits)
    BY <2>2 DEF P
  <2> QED BY <2>2, <2>3
<1>6. <<count, Rounds("ASR", bits, LoopStart(d, x), count)>> \in G
  <2> HIDE DEF G
  <2> QED BY <1>3, <1>5, RoundsReach
<1>7. P(count, Rounds("ASR", bits, LoopStart(d, x), count))
  BY <1>6
<1>8. ASSUME NEW z \in Int, -h <= z, z < h
      PROVE  Unsigned(bits, z) = IF z < 0 THEN z + 2 * h ELSE z
  <2>1. -2 * h <= z /\ z < 4 * h
    BY <1>1, <1>8
  <2>2. Wrap(h, z) = z % (2 * h)
    BY <1>1, <2>1, WrapIsResidue
  <2> QED BY <1>1, <1>8, <2>2 DEF Unsigned, Wrap
<1> QED BY <1>7, <1>8 DEF P, s

\* One more turn to the left: the top bit comes in at the bottom.
LEMMA TurnStep ==
  ASSUME NEW w \in Nat \ {0}, NEW y \in Operands(w), NEW k \in Nat, k < w
  PROVE  LET h == Half(w)
             t == Turn(w, y, k)
         IN /\ t \in Nat /\ t < 2 * h
            /\ Turn(w, y, k + 1) = IF t >= h THEN 2 * t - 2 * h + 1 ELSE 2 * t
<1> DEFINE h == Half(w)
           b == 2 * h
           P == 2^k
           e == 2^(w - (k + 1))
           z == y * P
           Q == z \div b
           S == z % b
           t == Turn(w, y, k)
<1>1. h \in Nat \ {0} /\ 2^w = b /\ y \in Nat /\ y < b
  BY Widths, OperandsNat
<1>2. k + 1 \in Nat /\ k + 1 <= w /\ w - (k + 1) \in Nat
  OBVIOUS
<1>3. P \in Nat \ {0} /\ e \in Nat \ {0} /\ 2^(k + 1) = 2 * P
  BY <1>2, PowerPositive, PowerDoubles
<1>4. h = P * e
  <2>1. 2^w = 2^(k + 1) * e
    BY <1>2, PowerMonotone
  <2> HIDE DEF P, e, h
  <2>2. 2 * h = 2 * (P * e)
    BY <1>1, <1>3, <2>1
  <2> QED BY <1>1, <1>3, <2>2
<1>5. t = S + Q
  BY <1>1 DEF Turn
<1>6. Turn(w, y, k + 1) = ((2 * z) % b) + ((2 * z) \div b)
  <2>1. y * 2^(k + 1) = 2 * z
    BY <1>1, <1>3
  <2> QED BY <1>1, <2>1 DEF Turn
<1> HIDE DEF h, P, e
<1>7. z \in Nat /\ b \in Nat \ {0}
  BY <1>1, <1>3
<1> HIDE DEF b
<1>8. Q \in Int /\ S \in Int /\ 0 <= S /\ S < b /\ z = b * Q + S
  <2>1. z \in Int
    BY <1>7
  <2> HIDE DEF z
  <2> QED BY <1>7, <2>1, DivMod
<1> HIDE DEF Q, S, t
<1>9. 0 <= Q /\ Q < P
  <2>1. CASE Q <= -1
    <3>1. b * Q <= -b
      BY <1>7, <1>8, <2>1
    <3> QED BY <1>7, <1>8, <3>1
  <2>2. CASE Q >= P
    <3>1. b * Q >= b * P
      BY <1>3, <1>7, <1>8, <2>2
    <3>2. y * P < b * P
      BY <1>1, <1>3, <1>7
    <3>3. b * Q >= y * P + 1
      BY <1>1, <1>3, <1>7, <1>8, <3>1, <3>2
    <3> QED BY <1>7, <1>8, <3>3
  <2> QED BY <1>3, <1>8, <2>1, <2>2
<1> DEFINE j == y - 2 * (e * Q)
<1>10. S = P * j /\ j \in Int
  <2>1. b * Q = P * (2 * (e * Q))
    BY <1>3, <1>4, <1>8 DEF b
  <2>2. P * j = P * y - P * (2 * (e * Q))
    BY <1>1, <1>3, <1>8
  <2> QED BY <1>1, <1>3, <1>7, <1>8, <2>1, <2>2
<1> HIDE DEF j
<1>11. S < h => S + P <= h
  <2> SUFFICES ASSUME S < h PROVE S + P <= h
    OBVIOUS
  <2>1. CASE j >= e
    <3>1. P * j >= P * e
      BY <1>3, <1>10, <2>1
    <3> QED BY <1>1, <1>4, <1>8, <1>10, <3>1
  <2>2. CASE j + 1 <= e
    <3>1. P * (j + 1) <= P * e
      BY <1>3, <1>10, <2>2
    <3>2. P * (j + 1) = P * j + P
      BY <1>3, <1>10
    <3> QED BY <1>4, <1>10, <3>1, <3>2
  <2> QED BY <1>3, <1>10, <2>1, <2>2
<1>12. S + P <= b
  <2>0. b = P * (2 * e)
    BY <1>3, <1>4 DEF b
  <2>1. CASE j >= 2 * e
    <3>1. P * j >= P * (2 * e)
      BY <1>3, <1>10, <2>1
    <3> QED BY <1>7, <1>8, <1>10, <2>0, <3>1
  <2>2. CASE j + 1 <= 2 * e
    <3>1. P * (j + 1) <= P * (2 * e)
      BY <1>3, <1>10, <2>2
    <3>2. P * (j + 1) = P * j + P
      BY <1>3, <1>10
    <3> QED BY <1>10, <2>0, <3>1, <3>2
  <2> QED BY <1>3, <1>10, <2>1, <2>2
<1>13. t \in Nat /\ t < b /\ (t >= h <=> S >= h)
  BY <1>1, <1>3, <1>5, <1>8, <1>9, <1>11, <1>12
<1>14. CASE S >= h
  <2> DEFINE f == 2 * Q + 1
             g == 2 * S - b
             v == 2 * z
  <2>1. v = b * f + g
    <3>1. b * f = 2 * (b * Q) + b
      BY <1>7, <1>8
    <3> QED BY <1>7, <1>8, <3>1
  <2>2. f \in Int /\ g \in Int /\ 0 <= g /\ g < b /\ v \in Int
    BY <1>1, <1>7, <1>8, <1>14 DEF b
  <2> HIDE DEF f, g, v
  <2>3. v % b = g /\ v \div b = f
    BY <1>7, <2>1, <2>2, DivModIs
  <2>4. Turn(w, y, k + 1) = g + f
    BY <1>6, <2>3 DEF v
  <2>5. g + f = 2 * t - b + 1
    BY <1>5, <1>7, <1>8 DEF f, g
  <2> QED BY <1>13, <1>14, <2>4, <2>5 DEF b, h, t
<1>15. CASE ~(S >= h)
  <2> DEFINE f == 2 * Q
             g == 2 * S
             v == 2 * z
  <2>1. v = b * f + g
    <3>1. b * f = 2 * (b * Q)
      BY <1>7, <1>8
    <3> QED BY <1>7, <1>8, <3>1
  <2>2. f \in Int /\ g \in Int /\ 0 <= g /\ g < b /\ v \in Int
    BY <1>1, <1>7, <1>8, <1>15 DEF b
  <2> HIDE DEF f, g, v
  <2>3. v % b = g /\ v \div b = f
    BY <1>7, <2>1, <2>2, DivModIs
  <2>4. Turn(w, y, k + 1) = g + f
    BY <1>6, <2>3 DEF v
  <2>5. g + f = 2 * t
    BY <1>5, <1>7, <1>8 DEF f, g
  <2> QED BY <1>13, <1>15, <2>4, <2>5 DEF b, h, t
<1> QED BY <1>14, <1>15

LEMMA TurnEnds ==
  ASSUME NEW w \in Nat \ {0}, NEW y \in Operands(w)
  PROVE  Turn(w, y, 0) = y /\ Turn(w, y, w) = y
<1> DEFINE b == 2^w
<1>1. b \in Nat \ {0} /\ y \in Nat /\ y < b
  BY OperandsNat, PowerPositive
<1>2. y % b = y /\ y \div b = 0
  BY <1>1, SmallResidue
<1>3. y * 2^0 = y
  BY <1>1
<1>4. Turn(w, y, 0) = y
  BY <1>1, <1>2, <1>3 DEF Turn
<1> HIDE DEF b
<1>5. (y * b) % b = 0 /\ (y * b) \div b = y
  <2> DEFINE v == y * b
  <2>1. v \in Int /\ v = b * y + 0
    BY <1>1
  <2> HIDE DEF v
  <2>2. v % b = 0 /\ v \div b = y
    BY <1>1, <2>1, DivModIs
  <2> QED BY <2>2 DEF v
<1>6. Turn(w, y, w) = y
  BY <1>1, <1>5 DEF Turn, b
<1> QED BY <1>4, <1>6

\* The next place of a wheel of w.
LEMMA Wheel ==
  ASSUME NEW w \in Nat \ {0}, NEW n \in Nat
  PROVE  LET k == n % w
         IN /\ k \in Nat /\ k < w
            /\ (n + 1) % w = IF k + 1 = w THEN 0 ELSE k + 1
            /\ (w - k) % w = IF k = 0 THEN 0 ELSE w - k
<1> DEFINE k == n % w
           q == n \div w
<1>1. k \in Nat /\ k < w /\ q \in Int /\ n = w * q + k
  BY DivMod
<1> HIDE DEF k, q
<1>2. (n + 1) % w = IF k + 1 = w THEN 0 ELSE k + 1
  <2>1. CASE k + 1 = w
    <3>1. n + 1 = w * (q + 1) + 0 /\ q + 1 \in Int /\ n + 1 \in Int
      <4>1. w * (q + 1) = w * q + w
        BY <1>1
      <4> QED BY <1>1, <2>1, <4>1
    <3> QED BY <2>1, <3>1, DivModIs
  <2>2. CASE k + 1 # w
    <3>1. n + 1 = w * q + (k + 1) /\ k + 1 \in Int /\ 0 <= k + 1 /\ k + 1 < w /\ n + 1 \in Int
      BY <1>1, <2>2
    <3> QED BY <1>1, <2>2, <3>1, DivModIs
  <2> QED BY <2>1, <2>2
<1>3. (w - k) % w = IF k = 0 THEN 0 ELSE w - k
  <2>1. CASE k = 0
    <3>1. w - k = w * 1 + 0 /\ w - k \in Int
      BY <1>1, <2>1
    <3> QED BY <2>1, <3>1, DivModIs
  <2>2. CASE k # 0
    <3>1. w - k = w * 0 + (w - k) /\ w - k \in Int /\ 0 <= w - k /\ w - k < w
      BY <1>1, <2>2
    <3> QED BY <2>2, <3>1, DivModIs
  <2> QED BY <2>1, <2>2
<1> QED BY <1>1, <1>2, <1>3 DEF k

\* A turn of the wheel in either direction, as the loop makes it.
IsTurned(w, y, n) ==
  LET h == Half(w)
      L(m) == Turn(w, y, m % w)
      R(m) == Turn(w, y, (w - (m % w)) % w)
  IN /\ L(0) = y /\ R(0) = y /\ L(n) \in Nat /\ R(n) \in Nat
     /\ L(n) < 2 * h /\ R(n) < 2 * h
     /\ L(n + 1) = IF L(n) >= h THEN 2 * L(n) - 2 * h + 1 ELSE 2 * L(n)
     /\ R(n) = IF R(n + 1) >= h THEN 2 * R(n + 1) - 2 * h + 1 ELSE 2 * R(n + 1)
     /\ R(n + 1) \in Nat /\ R(n + 1) < 2 * h

LEMMA WheelTurns ==
  ASSUME NEW w \in Nat \ {0}, NEW y \in Operands(w), NEW n \in Nat
  PROVE  IsTurned(w, y, n)
<1> DEFINE h == Half(w)
           k == n % w
           j == (n + 1) % w
           T(m) == Turn(w, y, m)
<1>1. h \in Nat \ {0}
  BY Widths
<1>2. 0 % w = 0 /\ w % w = 0
  <2>1. 0 = w * 0 + 0 /\ w = w * 1 + 0
    OBVIOUS
  <2> QED BY <2>1, DivModIs
<1>3. T(0) = y /\ T(w) = y
  BY TurnEnds
<1>4. \A m \in Nat : m < w =>
        /\ T(m) \in Nat /\ T(m) < 2 * h
        /\ T(m + 1) = IF T(m) >= h THEN 2 * T(m) - 2 * h + 1 ELSE 2 * T(m)
  BY TurnStep
<1>5. /\ k \in Nat /\ k < w /\ j = (IF k + 1 = w THEN 0 ELSE k + 1)
      /\ (w - k) % w = IF k = 0 THEN 0 ELSE w - k
  BY Wheel
<1>6. n + 1 \in Nat /\ j \in Nat /\ j < w /\ (w - j) % w = IF j = 0 THEN 0 ELSE w - j
  <2>1. n + 1 \in Nat
    OBVIOUS
  <2> QED BY <2>1, Wheel
<1> DEFINE a == (w - k) % w
           c == (w - j) % w
<1>7. w - 0 = w
  OBVIOUS
<1>8. /\ Turn(w, y, 0 % w) = y /\ Turn(w, y, (w - (0 % w)) % w) = y
  BY <1>2, <1>3, <1>7
<1> HIDE DEF k, j, T, h
<1>9. /\ T(k) \in Nat /\ T(k) < 2 * h
      /\ T(j) = IF T(k) >= h THEN 2 * T(k) - 2 * h + 1 ELSE 2 * T(k)
  <2>1. CASE k + 1 = w
    BY <1>3, <1>4, <1>5, <2>1
  <2>2. CASE k + 1 # w
    BY <1>4, <1>5, <2>2
  <2> QED BY <2>1, <2>2
<1>10. /\ a \in Nat /\ a < w /\ c \in Nat /\ c < w
       /\ c + 1 = a \/ (c + 1 = w /\ a = 0)
  <2> HIDE DEF a, c
  <2>1. a = IF k = 0 THEN 0 ELSE w - k
    BY <1>5 DEF a
  <2>2. c = IF j = 0 THEN 0 ELSE w - j
    BY <1>6 DEF c
  <2> QED BY <1>5, <1>6, <2>1, <2>2
<1> HIDE DEF a, c
<1>11. /\ T(a) \in Nat /\ T(a) < 2 * h /\ T(c) \in Nat /\ T(c) < 2 * h
       /\ T(a) = IF T(c) >= h THEN 2 * T(c) - 2 * h + 1 ELSE 2 * T(c)
  <2>1. CASE c + 1 = a
    BY <1>4, <1>10, <2>1
  <2>2. CASE c + 1 = w /\ a = 0
    BY <1>3, <1>4, <1>10, <2>2
  <2> QED BY <1>10, <2>1, <2>2
<1> QED BY <1>8, <1>9, <1>11 DEF T, a, c, k, j, h, IsTurned

\* The loops that rotate: the operand, or the operand with X above it, is a
\* wheel that each round turns by one place.
LEMMA RotatesLeft ==
  ASSUME NEW bits \in Nat \ {0}, NEW d \in Operands(bits), NEW x \in {0, 1},
         NEW count \in Nat
  PROVE  LET t == Rounds("ROL", bits, LoopStart(d, x), count)
         IN /\ t \in LoopStates(bits) /\ t.result = Turn(bits, d, count % bits)
            /\ count # 0 => t.last = t.result % 2
            /\ ~t.v
<1> DEFINE L(n) == Turn(bits, d, n % bits)
           P(n, t) == /\ t \in LoopStates(bits) /\ t.result = L(n)
                      /\ n # 0 => t.last = t.result % 2
                      /\ ~t.v
           G == {p \in Nat \X LoopStates(bits) : P(p[1], p[2])}
           h == Half(bits)
<1>1. <<0, LoopStart(d, x)>> \in G
  <2>1. L(0) = d
    BY WheelTurns DEF IsTurned
  <2> HIDE DEF L
  <2> QED BY <2>1, LoopStartTyped
<1>2. ASSUME NEW n \in Nat, NEW t, P(n, t)
      PROVE  P(n + 1, Round("ROL", bits, t))
  <2> DEFINE r == t.result
             top == r \div h
             rest == r % h
             u == Round("ROL", bits, t)
  <2>1. /\ t \in LoopStates(bits) /\ "ROL" \in Shifts /\ "ROL" \in Lefts /\ "ROL" \in Rotates
        /\ "ROL" \notin Extends
    BY <1>2 DEF Shifts, Lefts, Rotates, Extends
  <2>2. /\ h \in Nat \ {0} /\ r \in Nat /\ r < 2 * h /\ rest \in Nat /\ rest < h
        /\ top \in {0, 1} /\ r = h * top + rest /\ (top = 1 <=> r >= h)
        /\ u.result = 2 * rest + top /\ u.last = top
        /\ u.v = (t.v \/ FALSE) /\ u \in LoopStates(bits)
    BY <2>1, RoundIs
  <2>3. L(n + 1) = IF L(n) >= h THEN 2 * L(n) - 2 * h + 1 ELSE 2 * L(n)
    BY WheelTurns DEF IsTurned
  <2>4. L(n) = r /\ ~u.v
    BY <1>2, <2>2
  <2> HIDE DEF r, top, rest, u, h, L
  <2>5. u.result = L(n + 1)
    BY <2>2, <2>3, <2>4
  <2>6. u.last = u.result % 2
    BY <2>2
  <2> QED BY <2>2, <2>4, <2>5, <2>6 DEF u
<1> HIDE DEF P
<1>3. \A t : \A n \in Nat : <<n, t>> \in G => <<n + 1, Round("ROL", bits, t)>> \in G
  <2> SUFFICES ASSUME NEW n \in Nat, NEW t, <<n, t>> \in G
               PROVE  <<n + 1, Round("ROL", bits, t)>> \in G
    OBVIOUS
  <2>1. P(n + 1, Round("ROL", bits, t))
    BY <1>2
  <2>2. Round("ROL", bits, t) \in LoopStates(bits)
    BY <2>1 DEF P
  <2> QED BY <2>1, <2>2
<1>4. <<count, Rounds("ROL", bits, LoopStart(d, x), count)>> \in G
  <2> HIDE DEF G
  <2> QED BY <1>1, <1>3, RoundsReach
<1>5. P(count, Rounds("ROL", bits, LoopStart(d, x), count))
  BY <1>4
<1> QED BY <1>5 DEF P

LEMMA RotatesRight ==
  ASSUME NEW bits \in Nat \ {0}, NEW d \in Operands(bits), NEW x \in {0, 1},
         NEW count \in Nat
  PROVE  LET t == Rounds("ROR", bits, LoopStart(d, x), count)
         IN /\ t \in LoopStates(bits)
            /\ t.result = Turn(bits, d, (bits - (count % bits)) % bits)
            /\ count # 0 => t.last = Bit(t.result, bits - 1)
            /\ ~t.v
<1> DEFINE R(n) == Turn(bits, d, (bits - (n % bits)) % bits)
           P(n, t) == /\ t \in LoopStates(bits) /\ t.result = R(n)
                      /\ n # 0 => t.last = Bit(t.result, bits - 1)
                      /\ ~t.v
           G == {p \in Nat \X LoopStates(bits) : P(p[1], p[2])}
           h == Half(bits)
<1>1. <<0, LoopStart(d, x)>> \in G
  <2>1. R(0) = d
    BY WheelTurns DEF IsTurned
  <2> HIDE DEF R
  <2> QED BY <2>1, LoopStartTyped
<1>2. ASSUME NEW n \in Nat, NEW t, P(n, t)
      PROVE  P(n + 1, Round("ROR", bits, t))
  <2> DEFINE r == t.result
             low == r % 2
             u == Round("ROR", bits, t)
             y == R(n + 1)
  <2>1. /\ t \in LoopStates(bits) /\ "ROR" \in Shifts /\ "ROR" \notin Lefts /\ "ROR" \in Rotates
        /\ "ROR" \notin Extends
    BY <1>2 DEF Shifts, Lefts, Rotates, Extends
  <2>2. /\ h \in Nat \ {0} /\ r \in Nat /\ r < 2 * h
        /\ low \in {0, 1}
        /\ u.result = r \div 2 + low * h /\ u.last = low
        /\ u.v = (t.v \/ FALSE) /\ u \in LoopStates(bits)
    BY <2>1, RoundIs
  <2>3. y \in Nat /\ y < 2 * h /\ R(n) = IF y >= h THEN 2 * y - 2 * h + 1 ELSE 2 * y
    BY WheelTurns DEF IsTurned
  <2>4. R(n) = r /\ ~u.v
    BY <1>2, <2>2
  <2>5. Bit(u.result, bits - 1) = (u.result \div h) % 2
    BY DEF Bit, Half
  <2>6. low = r % 2
    OBVIOUS
  <2> HIDE DEF r, low, u, h, R, y
  <2>7. u.result = y /\ u.last = (u.result \div h) % 2
    <3>1. CASE y >= h
      <4>1. r = 2 * (y - h) + 1
        BY <2>2, <2>3, <2>4, <3>1
      <4>2. low = 1 /\ r \div 2 = y - h
        BY <2>2, <2>3, <2>6, <4>1
      <4>3. u.result = y
        BY <2>2, <2>3, <4>2
      <4>4. y = h * 1 + (y - h) /\ y - h \in Int /\ y \in Int /\ 0 <= y - h /\ y - h < h
        BY <2>2, <2>3, <3>1
      <4>5. y \div h = 1
        BY <2>2, <4>4, DivModIs
      <4> QED BY <2>2, <4>2, <4>3, <4>5
    <3>2. CASE ~(y >= h)
      <4>1. r = 2 * y
        BY <2>2, <2>3, <2>4, <3>2
      <4>2. low = 0 /\ r \div 2 = y
        BY <2>2, <2>3, <2>6, <4>1
      <4>3. u.result = y
        BY <2>2, <2>3, <4>2
      <4>4. y = h * 0 + y /\ y \in Int /\ 0 <= y /\ y < h
        BY <2>2, <2>3, <3>2
      <4>5. y \div h = 0
        BY <2>2, <4>4, DivModIs
      <4> QED BY <2>2, <4>2, <4>3, <4>5
    <3> QED BY <3>1, <3>2
  <2> QED BY <2>2, <2>4, <2>5, <2>7 DEF u, y
<1> HIDE DEF P
<1>3. \A t : \A n \in Nat : <<n, t>> \in G => <<n + 1, Round("ROR", bits, t)>> \in G
  <2> SUFFICES ASSUME NEW n \in Nat, NEW t, <<n, t>> \in G
               PROVE  <<n + 1, Round("ROR", bits, t)>> \in G
    OBVIOUS
  <2>1. P(n + 1, Round("ROR", bits, t))
    BY <1>2
  <2>2. Round("ROR", bits, t) \in LoopStates(bits)
    BY <2>1 DEF P
  <2> QED BY <2>1, <2>2
<1>4. <<count, Rounds("ROR", bits, LoopStart(d, x), count)>> \in G
  <2> HIDE DEF G
  <2> QED BY <1>1, <1>3, RoundsReach
<1>5. P(count, Rounds("ROR", bits, LoopStart(d, x), count))
  BY <1>4
<1> QED BY <1>5 DEF P

WithX(bits, value, x) == value + x * 2^bits

TurnedThroughX(op, bits, d, x, count) ==
  LET wide == bits + 1
      k == count % wide
  IN Turn(wide, WithX(bits, d, x), IF op = "ROXL" THEN k ELSE (wide - k) % wide)

LEMMA RotatesThroughX ==
  ASSUME NEW bits \in Nat \ {0}, NEW op \in Extends, NEW d \in Operands(bits),
         NEW x \in {0, 1}, NEW count \in Nat
  PROVE  LET t == Rounds(op, bits, LoopStart(d, x), count)
         IN /\ t \in LoopStates(bits) /\ ~t.v
            /\ WithX(bits, t.result, t.x) = TurnedThroughX(op, bits, d, x, count)
<1> DEFINE w == bits + 1
           h == Half(bits)
           b == 2^bits
           y0 == d + x * b
           L(n) == Turn(w, y0, n % w)
           R(n) == Turn(w, y0, (w - (n % w)) % w)
           V(n) == IF op = "ROXL" THEN L(n) ELSE R(n)
           P(n, t) == /\ t \in LoopStates(bits) /\ t.result + t.x * b = V(n)
                      /\ ~t.v
           G == {p \in Nat \X LoopStates(bits) : P(p[1], p[2])}
<1>1. h \in Nat \ {0} /\ b = 2 * h /\ w \in Nat \ {0} /\ Half(w) = b /\ 2^w = 2 * b
  <2>1. w - 1 = bits
    OBVIOUS
  <2> QED BY <2>1, Widths DEF Half
<1>2. d \in Nat /\ d < b
  BY OperandsNat
<1>3. y0 \in Operands(w)
  <2>1. y0 \in Nat /\ y0 < 2 * b
    BY <1>1, <1>2
  <2> QED BY <1>1, <2>1, OperandsNat
<1> HIDE DEF w, b, h, y0
<1>4. \A n \in Nat :
        /\ L(0) = y0 /\ R(0) = y0 /\ L(n) \in Nat /\ R(n + 1) \in Nat /\ R(n + 1) < 2 * b
        /\ L(n + 1) = IF L(n) >= b THEN 2 * L(n) - 2 * b + 1 ELSE 2 * L(n)
        /\ R(n) = IF R(n + 1) >= b THEN 2 * R(n + 1) - 2 * b + 1 ELSE 2 * R(n + 1)
  <2> TAKE n \in Nat
  <2>1. LET h2 == Half(w)
        IN /\ L(0) = y0 /\ R(0) = y0 /\ L(n) \in Nat /\ R(n + 1) \in Nat /\ R(n + 1) < 2 * h2
           /\ L(n + 1) = IF L(n) >= h2 THEN 2 * L(n) - 2 * h2 + 1 ELSE 2 * L(n)
           /\ R(n) = IF R(n + 1) >= h2 THEN 2 * R(n + 1) - 2 * h2 + 1 ELSE 2 * R(n + 1)
    <3>1. IsTurned(w, y0, n)
      BY <1>1, <1>3, WheelTurns
    <3> QED BY <3>1 DEF IsTurned
  <2> HIDE DEF L, R
  <2> QED BY <1>1, <2>1
<1>5. op = "ROXL" \/ (op = "ROXR" /\ op # "ROXL")
  BY DEF Extends
<1> HIDE DEF L, R
<1>6. <<0, LoopStart(d, x)>> \in G
  <2>1. LoopStart(d, x).result + LoopStart(d, x).x * b = y0
    BY LoopStartTyped DEF y0
  <2> QED BY <1>4, <2>1, LoopStartTyped
<1>7. ASSUME NEW n \in Nat, NEW t, P(n, t)
      PROVE  P(n + 1, Round(op, bits, t))
  <2> DEFINE r == t.result
             top == r \div h
             rest == r % h
             low == r % 2
             u == Round(op, bits, t)
             e == t.x
  <2>1. /\ t \in LoopStates(bits) /\ op \in Shifts /\ op \notin Rotates
        /\ op \in Lefts <=> op = "ROXL"
    BY <1>5, <1>7 DEF Shifts, Lefts, Rotates
  <2>2. /\ r \in Nat /\ r < 2 * h /\ rest \in Nat /\ rest < h
        /\ top \in {0, 1} /\ low \in {0, 1} /\ r = h * top + rest /\ (top = 1 <=> r >= h)
        /\ u.result = IF op \in Lefts THEN 2 * rest + e ELSE r \div 2 + e * h
        /\ u.x = IF op \in Lefts THEN top ELSE low
        /\ u.v = (t.v \/ FALSE) /\ u \in LoopStates(bits)
    BY <1>5, <2>1, RoundIs DEF h
  <2>3. e \in {0, 1} /\ r + e * b = V(n) /\ ~u.v
    BY <1>7, <2>1, <2>2 DEF LoopStates
  <2>4. low = r % 2
    OBVIOUS
  <2> HIDE DEF r, top, rest, low, u, e
  <2>5. u.result + u.x * b = V(n + 1)
    <3>1. CASE op = "ROXL"
      <4>1. r + e * b = L(n) /\ u.result = 2 * rest + e /\ u.x = top
        BY <2>1, <2>2, <2>3, <3>1
      <4>0. L(n + 1) = IF L(n) >= b THEN 2 * L(n) - 2 * b + 1 ELSE 2 * L(n)
        BY <1>4
      <4>2. u.result + u.x * b = L(n + 1)
        <5>1. CASE e = 0 /\ top = 0
          BY <1>1, <2>2, <4>0, <4>1, <5>1
        <5>2. CASE e = 1 /\ top = 0
          BY <1>1, <2>2, <4>0, <4>1, <5>2
        <5>3. CASE e = 0 /\ top = 1
          BY <1>1, <2>2, <4>0, <4>1, <5>3
        <5>4. CASE e = 1 /\ top = 1
          BY <1>1, <2>2, <4>0, <4>1, <5>4
        <5> QED BY <2>2, <2>3, <5>1, <5>2, <5>3, <5>4
      <4> QED BY <3>1, <4>2
    <3>2. CASE op # "ROXL"
      <4> DEFINE y == R(n + 1)
      <4>1. r + e * b = R(n) /\ u.result = r \div 2 + e * h /\ u.x = low
        BY <2>1, <2>2, <2>3, <3>2
      <4>2. y \in Nat /\ y < 2 * b /\ R(n) = IF y >= b THEN 2 * y - 2 * b + 1 ELSE 2 * y
        BY <1>4
      <4> HIDE DEF y
      <4>3. CASE e = 0
        <5>1. r = IF y >= b THEN 2 * (y - b) + 1 ELSE 2 * y
          BY <1>1, <2>2, <4>1, <4>2, <4>3
        <5>2. r \div 2 = (IF y >= b THEN y - b ELSE y) /\ low = IF y >= b THEN 1 ELSE 0
          BY <1>1, <2>2, <2>4, <4>2, <5>1
        <5>3. u.result + u.x * b = y
          BY <1>1, <2>2, <4>1, <4>2, <4>3, <5>2
        <5> QED BY <3>2, <5>3 DEF y
      <4>4. CASE e = 1
        <5>1. r = IF y >= b THEN 2 * (y - b - h) + 1 ELSE 2 * (y - h)
          BY <1>1, <2>2, <4>1, <4>2, <4>4
        <5>2. r \div 2 = (IF y >= b THEN y - b - h ELSE y - h) /\ low = IF y >= b THEN 1 ELSE 0
          BY <1>1, <2>2, <2>4, <4>2, <5>1
        <5>3. u.result + u.x * b = y
          BY <1>1, <2>2, <4>1, <4>2, <4>4, <5>2
        <5> QED BY <3>2, <5>3 DEF y
      <4> QED BY <2>3, <4>3, <4>4
    <3> QED BY <3>1, <3>2
  <2> QED BY <2>2, <2>3, <2>5 DEF u
<1> HIDE DEF P
<1>8. \A t : \A n \in Nat : <<n, t>> \in G => <<n + 1, Round(op, bits, t)>> \in G
  <2> SUFFICES ASSUME NEW n \in Nat, NEW t, <<n, t>> \in G
               PROVE  <<n + 1, Round(op, bits, t)>> \in G
    OBVIOUS
  <2>1. P(n + 1, Round(op, bits, t))
    BY <1>7
  <2>2. Round(op, bits, t) \in LoopStates(bits)
    BY <2>1 DEF P
  <2> QED BY <2>1, <2>2
<1>9. <<count, Rounds(op, bits, LoopStart(d, x), count)>> \in G
  <2> HIDE DEF G
  <2> QED BY <1>6, <1>8, RoundsReach
<1>10. P(count, Rounds(op, bits, LoopStart(d, x), count))
  BY <1>9
<1> QED BY <1>10 DEF P, L, R, w, b, y0, WithX, TurnedThroughX

\* Beyond the width of the operand more rounds change nothing.
LEMMA LeftSaturates ==
  ASSUME NEW bits \in Nat \ {0}, NEW n \in Nat, n >= bits + 1, NEW d \in Nat,
         NEW s \in Int
  PROVE  /\ (d * 2^n) % 2^bits = 0 /\ Bit(d * 2^n, bits) = 0
         /\ Fits(bits, s * 2^n) <=> s = 0
<1> DEFINE h == Half(bits)
           b == 2^bits
           e == 2^(n - (bits + 1))
<1>1. h \in Nat \ {0} /\ b = 2 * h
  BY Widths
<1>2. bits + 1 \in Nat /\ n - (bits + 1) \in Nat /\ 2^n = 2^(bits + 1) * e /\ 2^(bits + 1) = 2 * b
  BY PowerMonotone, PowerDoubles
<1>3. e \in Nat \ {0}
  BY <1>2, PowerPositive
<1> HIDE DEF e, b, h
<1> DEFINE P == 2^n
<1>4. P = (2 * b) * e /\ P \in Nat \ {0} /\ P >= 2 * b
  <2>1. P = (2 * b) * e
    BY <1>2
  <2> DEFINE f == 2 * b
  <2>2. f \in Nat \ {0} /\ P = f * e
    BY <1>1, <2>1
  <2> HIDE DEF f, P
  <2>3. f * e >= f
    BY <1>3, <2>2
  <2>4. P \in Nat /\ P >= f /\ P # 0
    BY <1>3, <2>2, <2>3
  <2> QED BY <2>1, <2>4 DEF f
<1> DEFINE a == d * e
           q == 2 * a
           v == d * P
<1>5. a \in Nat
  BY <1>3
<1>6. v = b * q + 0
  <2> HIDE DEF P
  <2>1. d * P = d * ((2 * b) * e)
    BY <1>4
  <2>2. d * ((2 * b) * e) = b * (2 * (d * e))
    BY <1>1, <1>3
  <2> QED BY <1>1, <1>3, <2>1, <2>2
<1>7. v \in Int /\ b \in Nat \ {0} /\ q \in Int /\ q % 2 = 0
  <2> HIDE DEF P
  <2>1. v \in Int
    BY <1>4
  <2> HIDE DEF a, v
  <2> QED BY <1>1, <1>5, <2>1
<1>8. v % b = 0 /\ v \div b = q
  <2> HIDE DEF v, q
  <2> QED BY <1>6, <1>7, DivModIs
<1>9. (d * 2^n) % 2^bits = 0 /\ Bit(d * 2^n, bits) = 0
  BY <1>7, <1>8 DEF Bit, b
<1>10. Fits(bits, s * 2^n) <=> s = 0
  <2> DEFINE u == s * P
  <2> HIDE DEF P
  <2>1. CASE s = 0
    <3>1. u = 0
      BY <1>4, <2>1
    <3> QED BY <1>1, <2>1, <3>1 DEF Fits, h, P
  <2>2. CASE s >= 1
    <3>1. u >= P /\ u \in Int
      BY <1>4, <2>2
    <3> HIDE DEF u
    <3>2. ~(u < h)
      BY <1>1, <1>4, <3>1
    <3> QED BY <2>2, <3>2 DEF Fits, h, P, u
  <2>3. CASE s <= -1
    <3>1. u <= -P /\ u \in Int
      BY <1>4, <2>3
    <3> HIDE DEF u
    <3>2. ~(-h <= u)
      BY <1>1, <1>4, <3>1
    <3> QED BY <2>3, <3>2 DEF Fits, h, P, u
  <2> QED BY <2>1, <2>2, <2>3
<1> QED BY <1>9, <1>10

LEMMA RightSaturates ==
  ASSUME NEW bits \in Nat \ {0}, NEW n \in Nat, n >= bits, NEW v \in Int,
         -(2^bits) <= v, v < 2^bits
  PROVE  /\ v \div 2^n = IF v < 0 THEN -1 ELSE 0
         /\ Bit(v, n) = IF v < 0 THEN 1 ELSE 0
<1> DEFINE P == 2^n
           b == 2^bits
<1>1. b \in Nat \ {0} /\ P \in Nat \ {0} /\ b <= P
  BY PowerPositive, PowerMonotone
<1> HIDE DEF P, b
<1>2. -b <= v /\ v < b
  BY DEF b
<1>3. CASE v < 0
  <2>1. v = P * (-1) + (v + P) /\ v + P \in Int /\ 0 <= v + P /\ v + P < P
    BY <1>1, <1>2, <1>3
  <2>2. v \div P = -1
    BY <1>1, <2>1, DivModIs
  <2> DEFINE a == v \div P
  <2>3. Bit(v, n) = a % 2
    BY DEF Bit, P
  <2> HIDE DEF a
  <2>4. a = -1
    BY <2>2 DEF a
  <2>5. a % 2 = 1
    <3>1. a \in Int /\ a = 2 * a + 1
      BY <2>4
    <3> QED BY <3>1, DivModIs
  <2> QED BY <1>3, <2>2, <2>3, <2>5 DEF P
<1>4. CASE v >= 0
  <2>1. v = P * 0 + v /\ 0 <= v /\ v < P
    BY <1>1, <1>2, <1>4
  <2>2. v \div P = 0
    BY <1>1, <2>1, DivModIs
  <2>3. Bit(v, n) = (0) % 2
    BY <2>2 DEF Bit, P
  <2>4. (0) % 2 = 0
    OBVIOUS
  <2> QED BY <1>4, <2>2, <2>3, <2>4 DEF P
<1> QED BY <1>3, <1>4

LEMMA BitOfDouble ==
  ASSUME NEW v \in Int, NEW n \in Nat \ {0}
  PROVE  Bit(2 * v, n) = Bit(v, n - 1)
<1> DEFINE P == 2^(n - 1)
           q == v \div P
           r == v % P
           a == 2 * v
           b == 2 * P
<1>1. n - 1 \in Nat /\ P \in Nat \ {0} /\ 2^n = 2 * P
  <2>1. n - 1 \in Nat /\ (n - 1) + 1 = n
    OBVIOUS
  <2> QED BY <2>1, PowerPositive, PowerDoubles
<1> HIDE DEF P
<1>2. q \in Int /\ r \in Int /\ 0 <= r /\ r < P /\ v = P * q + r
  BY <1>1, DivMod
<1> HIDE DEF q, r
<1>3. a = b * q + 2 * r /\ 2 * r \in Int /\ 0 <= 2 * r /\ 2 * r < b /\ a \in Int /\ b \in Nat \ {0}
  <2>1. b * q = 2 * (P * q)
    BY <1>1, <1>2
  <2> QED BY <1>1, <1>2, <2>1
<1> HIDE DEF a, b
<1>4. a \div b = q
  BY <1>2, <1>3, DivModIs
<1> QED BY <1>1, <1>4 DEF Bit, a, b, q, P

\* The manual counts no further than one bit beyond the operand.
LEMMA LeastRounds ==
  ASSUME NEW bits \in Nat \ {0}, NEW count \in Nat, NEW d \in Operands(bits)
  PROVE  LET m == Least(count, bits + 1)
             s == Signed(bits, d)
         IN /\ (d * 2^m) % 2^bits = (d * 2^count) % 2^bits
            /\ Bit(d * 2^m, bits) = Bit(d * 2^count, bits)
            /\ Fits(bits, s * 2^m) <=> Fits(bits, s * 2^count)
            /\ d \div 2^m = d \div 2^count /\ s \div 2^m = s \div 2^count
            /\ count # 0 => Bit(2 * d, m) = Bit(d, count - 1) /\ Bit(2 * s, m) = Bit(s, count - 1)
<1> DEFINE m == Least(count, bits + 1)
           s == Signed(bits, d)
<1>1. d \in Nat /\ d < 2^bits /\ s \in Int /\ -(2^bits) <= s /\ s < 2^bits
  BY OperandsNat, SignedBounds, Widths
<1> HIDE DEF s
<1>2. CASE count <= bits + 1
  <2>1. m = count
    BY <1>2 DEF Least
  <2> HIDE DEF m
  <2>2. ASSUME count # 0
        PROVE  Bit(2 * d, m) = Bit(d, count - 1) /\ Bit(2 * s, m) = Bit(s, count - 1)
    <3>1. m \in Nat \ {0} /\ d \in Int
      BY <1>1, <2>1, <2>2
    <3> QED BY <1>1, <2>1, <3>1, BitOfDouble
  <2> QED BY <2>1, <2>2 DEF m, s
<1>3. CASE ~(count <= bits + 1)
  <2>1. m = bits + 1 /\ m \in Nat \ {0} /\ count \in Nat \ {0} /\ m - 1 >= bits /\ m >= bits
        /\ count - 1 >= bits /\ count >= bits /\ count >= bits + 1 /\ m - 1 \in Nat /\ count - 1 \in Nat
    BY <1>3 DEF Least
  <2> HIDE DEF m
  <2>2. /\ (d * 2^m) % 2^bits = (d * 2^count) % 2^bits
        /\ Bit(d * 2^m, bits) = Bit(d * 2^count, bits)
        /\ Fits(bits, s * 2^m) <=> Fits(bits, s * 2^count)
    <3>1. /\ (d * 2^m) % 2^bits = 0 /\ Bit(d * 2^m, bits) = 0
          /\ Fits(bits, s * 2^m) <=> s = 0
      BY <1>1, <2>1, LeftSaturates
    <3>2. /\ (d * 2^count) % 2^bits = 0 /\ Bit(d * 2^count, bits) = 0
          /\ Fits(bits, s * 2^count) <=> s = 0
      BY <1>1, <2>1, LeftSaturates
    <3> QED BY <3>1, <3>2
  <2>3. d \in Int /\ -(2^bits) <= d /\ ~(d < 0)
    BY <1>1, Widths
  <2>4. d \div 2^m = d \div 2^count /\ Bit(2 * d, m) = Bit(d, count - 1)
    <3>1. Bit(2 * d, m) = Bit(d, m - 1)
      BY <2>1, <2>3, BitOfDouble
    <3>2. d \div 2^m = 0 /\ d \div 2^count = 0
      BY <1>1, <2>1, <2>3, RightSaturates
    <3>3. Bit(d, m - 1) = 0 /\ Bit(d, count - 1) = 0
      BY <1>1, <2>1, <2>3, RightSaturates
    <3> QED BY <3>1, <3>2, <3>3
  <2>5. s \div 2^m = s \div 2^count /\ Bit(2 * s, m) = Bit(s, count - 1)
    <3>1. Bit(2 * s, m) = Bit(s, m - 1)
      BY <1>1, <2>1, BitOfDouble
    <3>2. s \div 2^m = s \div 2^count
      BY <1>1, <2>1, RightSaturates
    <3>3. Bit(s, m - 1) = Bit(s, count - 1)
      BY <1>1, <2>1, RightSaturates
    <3> QED BY <3>1, <3>2, <3>3
  <2> QED BY <2>2, <2>4, <2>5 DEF m, s
<1> QED BY <1>2, <1>3

\* The codes of a shift, from what it leaves and the last bit that left.
ShiftCodes(op, bits, count, codes, value, out, v) ==
  LET c == out = 1 /\ (op \in Extends \/ count # 0)
  IN [x |-> IF op \in Rotates \/ count = 0 THEN codes.x ELSE c,
      n |-> Signed(bits, value) < 0, z |-> value = 0, v |-> v, c |-> c]

\* The manual's shift is the state of the loop behind its last round.
LEMMA ShiftIsLoop ==
  ASSUME NEW bits \in Nat \ {0}, NEW op \in Shifts, NEW d \in Operands(bits),
         NEW codes \in CCR, NEW count \in Nat
  PROVE  LET t == Rounds(op, bits, LoopStart(d, X(codes)), count)
             m == ManualShift(op, bits, count, d, codes)
             out == IF op \in Extends THEN t.x ELSE t.last
         IN /\ t \in LoopStates(bits) /\ m.value = t.result
            /\ m.codes = ShiftCodes(op, bits, count, codes, t.result, out, t.v)
            /\ DOMAIN m.codes = {"x", "n", "z", "v", "c"}
<1> DEFINE t == Rounds(op, bits, LoopStart(d, X(codes)), count)
           mm == Least(count, bits + 1)
           s == Signed(bits, d)
           wide == bits + 1
           k == count % wide
           turned == Turn(wide, d + X(codes) * 2^bits,
                          IF op = "ROXL" THEN k ELSE (wide - k) % wide)
           value ==
             CASE op \in {"LSL", "ASL"} -> Unsigned(bits, d * 2^mm)
               [] op = "LSR" -> d \div 2^mm
               [] op = "ASR" -> Unsigned(bits, s \div 2^mm)
               [] op = "ROL" -> Turn(bits, d, count % bits)
               [] op = "ROR" -> Turn(bits, d, (bits - (count % bits)) % bits)
               [] op \in Extends -> Unsigned(bits, turned)
           out ==
             CASE op \in Extends -> Bit(turned, bits)
               [] op \in {"LSL", "ASL"} -> Bit(d * 2^mm, bits)
               [] op = "LSR" -> Bit(2 * d, mm)
               [] op = "ASR" -> Bit(2 * s, mm)
               [] op = "ROL" -> Bit(value, 0)
               [] op = "ROR" -> Bit(value, bits - 1)
           v == op = "ASL" /\ ~Fits(bits, s * 2^mm)
           c == out = 1 /\ (op \in Extends \/ count # 0)
<1>1. ManualShift(op, bits, count, d, codes)
        = [value |-> value, codes |-> ShiftCodes(op, bits, count, codes, value, out, v)]
  BY DEF ManualShift, ShiftCodes
<1> HIDE DEF value, out, v, t
<1> DEFINE last == IF op \in Extends THEN t.x ELSE t.last
<1>2. X(codes) \in {0, 1}
  BY DEF X
<1> HIDE DEF mm, s, turned
<1>3. /\ (d * 2^mm) % 2^bits = (d * 2^count) % 2^bits
      /\ Bit(d * 2^mm, bits) = Bit(d * 2^count, bits)
      /\ Fits(bits, s * 2^mm) <=> Fits(bits, s * 2^count)
      /\ d \div 2^mm = d \div 2^count /\ s \div 2^mm = s \div 2^count
      /\ count # 0 => Bit(2 * d, mm) = Bit(d, count - 1) /\ Bit(2 * s, mm) = Bit(s, count - 1)
  BY LeastRounds DEF mm, s
<1>4. /\ t \in LoopStates(bits) /\ value = t.result /\ v = t.v
      /\ (op \in Extends \/ count # 0) => out = last
  <2>1. CASE op \in {"LSL", "ASL"}
    <3>1. /\ t \in LoopStates(bits) /\ t.result = (d * 2^count) % 2^bits
          /\ count # 0 => t.last = Bit(d * 2^count, bits)
          /\ op = "LSL" => ~t.v
      BY <1>2, <2>1, LeftShifts DEF t
    <3>2. op \notin Extends /\ t.v \in BOOLEAN
      BY <2>1, <3>1 DEF Extends, LoopStates
    <3>3. value = Unsigned(bits, d * 2^mm) /\ out = Bit(d * 2^mm, bits)
      BY <2>1, <3>2 DEF value, out
    <3>4. CASE op = "LSL"
      <4>1. v = FALSE
        BY <3>4 DEF v
      <4> QED BY <1>3, <3>1, <3>2, <3>3, <3>4, <4>1 DEF Unsigned
    <3>5. CASE op = "ASL"
      <4>1. v = ~Fits(bits, s * 2^mm)
        BY <3>5 DEF v
      <4>2. t.v = ~Fits(bits, s * 2^count)
        BY <1>2, <3>5, LeftOverflow DEF t, s
      <4> QED BY <1>3, <3>1, <3>2, <3>3, <4>1, <4>2 DEF Unsigned
    <3> QED BY <2>1, <3>4, <3>5
  <2>2. CASE op = "LSR"
    <3>1. /\ t \in LoopStates(bits) /\ t.result = d \div 2^count
          /\ count # 0 => t.last = Bit(d, count - 1)
          /\ ~t.v
      BY <1>2, <2>2, RightShifts DEF t
    <3>2. op \notin Extends /\ t.v \in BOOLEAN
      BY <2>2, <3>1 DEF Extends, LoopStates
    <3>3. value = d \div 2^mm /\ out = Bit(2 * d, mm) /\ v = FALSE
      BY <2>2, <3>2 DEF value, out, v
    <3> QED BY <1>3, <3>1, <3>2, <3>3
  <2>3. CASE op = "ASR"
    <3>1. /\ t \in LoopStates(bits) /\ t.result = Unsigned(bits, s \div 2^count)
          /\ count # 0 => t.last = Bit(s, count - 1)
          /\ ~t.v
      BY <1>2, <2>3, RightArithmetic DEF t, s
    <3>2. op \notin Extends /\ t.v \in BOOLEAN
      BY <2>3, <3>1 DEF Extends, LoopStates
    <3>3. value = Unsigned(bits, s \div 2^mm) /\ out = Bit(2 * s, mm) /\ v = FALSE
      BY <2>3, <3>2 DEF value, out, v
    <3> QED BY <1>3, <3>1, <3>2, <3>3
  <2>4. CASE op = "ROL"
    <3>1. /\ t \in LoopStates(bits) /\ t.result = Turn(bits, d, count % bits)
          /\ count # 0 => t.last = t.result % 2
          /\ ~t.v
      BY <1>2, <2>4, RotatesLeft DEF t
    <3>2. op \notin Extends /\ t.v \in BOOLEAN /\ t.result \in Nat
      BY <2>4, <3>1, OperandsNat DEF Extends, LoopStates
    <3>3. value = t.result /\ out = Bit(value, 0) /\ v = FALSE
      BY <2>4, <3>1, <3>2 DEF value, out, v
    <3>4. Bit(value, 0) = t.result % 2
      <4>1. 2^0 = 1
        OBVIOUS
      <4>2. t.result \div 1 = t.result
        BY <3>2
      <4> QED BY <3>3, <4>1, <4>2 DEF Bit
    <3> QED BY <3>1, <3>2, <3>3, <3>4
  <2>5. CASE op = "ROR"
    <3>1. /\ t \in LoopStates(bits)
          /\ t.result = Turn(bits, d, (bits - (count % bits)) % bits)
          /\ count # 0 => t.last = Bit(t.result, bits - 1)
          /\ ~t.v
      BY <1>2, <2>5, RotatesRight DEF t
    <3>2. op \notin Extends /\ t.v \in BOOLEAN
      BY <2>5, <3>1 DEF Extends, LoopStates
    <3>3. value = t.result /\ out = Bit(value, bits - 1) /\ v = FALSE
      BY <2>5, <3>1, <3>2 DEF value, out, v
    <3> QED BY <3>1, <3>2, <3>3
  <2>6. CASE op \in Extends
    <3>1. /\ t \in LoopStates(bits) /\ t.result + t.x * 2^bits = turned /\ ~t.v
      <4> DEFINE x == X(codes)
                 u == Rounds(op, bits, LoopStart(d, x), count)
      <4>1. x \in {0, 1}
        BY <1>2
      <4> HIDE DEF x
      <4>2. /\ u \in LoopStates(bits) /\ ~u.v
            /\ WithX(bits, u.result, u.x) = TurnedThroughX(op, bits, d, x, count)
        BY <2>6, <4>1, RotatesThroughX
      <4> HIDE DEF u
      <4>3. u = t
        BY DEF u, t, x
      <4>4. u.result + u.x * 2^bits = turned
        BY <4>2 DEF turned, x, WithX, TurnedThroughX
      <4> QED BY <4>2, <4>3, <4>4
    <3>2. t.x \in {0, 1} /\ t.v \in BOOLEAN /\ t.result \in Operands(bits)
      BY <3>1 DEF LoopStates
    <3>3. value = Unsigned(bits, turned) /\ out = Bit(turned, bits) /\ v = FALSE
      BY <2>6 DEF value, out, v, Extends
    <3> DEFINE r == t.result
               e == t.x
               b == 2^bits
    <3>4. r \in Nat /\ r < b /\ b \in Nat \ {0} /\ turned = b * e + r
      BY <3>1, <3>2, OperandsNat
    <3> HIDE DEF r, e, b
    <3>5. turned \in Int /\ e \in {0, 1}
      BY <3>2, <3>4 DEF e
    <3>6. turned % b = r /\ turned \div b = e
      BY <3>4, <3>5, DivModIs
    <3>7. Bit(turned, bits) = e
      <4>1. e % 2 = e
        BY <3>5
      <4> QED BY <3>6, <4>1 DEF Bit, b
    <3> QED BY <2>6, <3>1, <3>2, <3>3, <3>6, <3>7 DEF Unsigned, r, e, b
  <2> QED BY <2>1, <2>2, <2>3, <2>4, <2>5, <2>6 DEF Shifts, Lefts, Extends
<1>5. ShiftCodes(op, bits, count, codes, value, out, v)
        = ShiftCodes(op, bits, count, codes, t.result, last, t.v)
  <2>1. (out = 1 /\ (op \in Extends \/ count # 0)) = (last = 1 /\ (op \in Extends \/ count # 0))
    BY <1>4
  <2> QED BY <1>4, <2>1 DEF ShiftCodes
<1>6. DOMAIN ShiftCodes(op, bits, count, codes, value, out, v) = {"x", "n", "z", "v", "c"}
  BY DEF ShiftCodes
<1> QED BY <1>1, <1>4, <1>5, <1>6 DEF t

LEMMA FewRounds ==
  ASSUME NEW op, NEW bits, NEW s
  PROVE  Rounds(op, bits, s, 0) = s /\ Rounds(op, bits, s, 1) = Round(op, bits, s)
<1>1. Rounds(op, bits, s, 0) = s
  <2>1. PICK f : Loops(f, op, bits, s, 0) /\ Rounds(op, bits, s, 0) = f[0]
    BY RoundsLoop
  <2>2. f[0] = s
    BY <2>1 DEF Loops
  <2> QED BY <2>1, <2>2
<1>2. Rounds(op, bits, s, 1) = Round(op, bits, s)
  <2>1. PICK f : Loops(f, op, bits, s, 1) /\ Rounds(op, bits, s, 1) = f[1]
    BY RoundsLoop
  <2> DEFINE R(t) == Round(op, bits, t)
  <2>2. f = [n \in 0..1 |-> IF n = 0 THEN s ELSE R(f[n - 1])]
    BY <2>1 DEF Loops
  <2> HIDE DEF R
  <2>3. f[0] = s /\ f[1] = R(f[0])
    BY <2>2
  <2> QED BY <2>1, <2>3 DEF R
<1> QED BY <1>1, <1>2

LEMMA ShiftCodesTyped ==
  ASSUME NEW op, NEW bits \in Nat \ {0}, NEW count, NEW codes \in CCR,
         NEW value \in Operands(bits), NEW out, NEW v \in BOOLEAN
  PROVE  ShiftCodes(op, bits, count, codes, value, out, v) \in CCR
<1> DEFINE n == Signed(bits, value) < 0
           z == value = 0
           c == out = 1 /\ (op \in Extends \/ count # 0)
           x == IF op \in Rotates \/ count = 0 THEN codes.x ELSE c
<1>1. n \in BOOLEAN
  BY SignedBounds
<1>2. codes.x \in BOOLEAN
  BY DEF CCR
<1>3. z \in BOOLEAN /\ c \in BOOLEAN
  OBVIOUS
<1>4. x \in BOOLEAN
  BY <1>2, <1>3
<1>5. ShiftCodes(op, bits, count, codes, value, out, v)
        = [x |-> x, n |-> n, z |-> z, v |-> v, c |-> c]
  BY DEF ShiftCodes
<1> HIDE DEF n, z, c, x
<1> QED BY <1>1, <1>3, <1>4, <1>5 DEF CCR

\* emit_shift_rotate_dreg prints the manual's shift, and so does
\* emit_shift_rotate_memory with a count of one.
LEMMA ShiftDregIs ==
  ASSUME NEW bits \in Nat \ {0}, NEW op \in Shifts, NEW d \in Operands(bits),
         NEW codes \in CCR, NEW count \in Nat
  PROVE  LET m == ManualShift(op, bits, count, d, codes)
             o == ShiftDreg(op, bits, count, d, codes)
         IN o.value = m.value /\ o.ccr = m.codes /\ m.codes \in CCR
<1> DEFINE t == Rounds(op, bits, LoopStart(d, X(codes)), count)
           m == ManualShift(op, bits, count, d, codes)
           out == IF op \in Extends THEN t.x ELSE t.last
           o == ShiftDreg(op, bits, count, d, codes)
           c == IF op \in Extends THEN t.x = 1 ELSE t.last = 1
           n == Sign(Half(bits), t.result)
           z == t.result = 0
<1>1. /\ t \in LoopStates(bits) /\ m.value = t.result
      /\ m.codes = ShiftCodes(op, bits, count, codes, t.result, out, t.v)
  BY ShiftIsLoop
<1>2. o = IF count # 0
          THEN Outcome(t.result, IF op \in Rotates THEN codes.x ELSE c, n, z, t.v, c)
          ELSE Outcome(d, codes.x, n, z, FALSE, op \in Extends /\ codes.x)
  BY DEF ShiftDreg, LoopStart
<1> HIDE DEF o, m
<1>3. c = (out = 1) /\ codes.x \in BOOLEAN /\ t.v \in BOOLEAN /\ t.result \in Operands(bits)
  BY <1>1 DEF CCR, LoopStates
<1>4. n = (Signed(bits, t.result) < 0)
  BY <1>3, Widths, SignedNegative DEF Sign
<1>5. m.codes \in CCR
  BY <1>1, <1>3, ShiftCodesTyped
<1>6. CASE count # 0
  <2> HIDE DEF t, n, z, c, out
  <2>1. o.value = t.result /\ o.ccr = [x |-> IF op \in Rotates THEN codes.x ELSE c,
                                       n |-> n, z |-> z, v |-> t.v, c |-> c]
    BY <1>2, <1>6 DEF Outcome
  <2>2. c = (out = 1 /\ (op \in Extends \/ count # 0))
    BY <1>3, <1>6
  <2>3. m.codes = [x |-> IF op \in Rotates THEN codes.x ELSE c,
                   n |-> n, z |-> z, v |-> t.v, c |-> c]
    BY <1>1, <1>4, <1>6, <2>2 DEF ShiftCodes, z
  <2> QED BY <1>1, <1>5, <2>1, <2>3 DEF o, m
<1>7. CASE count = 0
  <2>1. t.result = d /\ t.v = FALSE /\ t.x = X(codes)
    <3>1. t = LoopStart(d, X(codes))
      BY <1>7, FewRounds
    <3> QED BY <3>1 DEF LoopStart
  <2> HIDE DEF t, n, z, c, out
  <2>2. o.value = d /\ o.ccr = [x |-> codes.x, n |-> n, z |-> z, v |-> FALSE,
                                c |-> op \in Extends /\ codes.x]
    BY <1>2, <1>7 DEF Outcome
  <2>3. (op \in Extends /\ codes.x) = (out = 1 /\ (op \in Extends \/ count # 0))
    BY <1>3, <1>7, <2>1 DEF X, out
  <2>4. m.codes = [x |-> codes.x, n |-> n, z |-> z, v |-> FALSE,
                   c |-> op \in Extends /\ codes.x]
    BY <1>1, <1>4, <1>7, <2>1, <2>3 DEF ShiftCodes, z
  <2> QED BY <1>1, <1>5, <2>1, <2>2, <2>4 DEF o, m
<1> QED BY <1>6, <1>7

LEMMA ShiftMemoryIs ==
  ASSUME NEW bits \in Nat \ {0}, NEW op \in Shifts, NEW d \in Operands(bits),
         NEW codes \in CCR
  PROVE  ShiftMemory(op, bits, d, codes) = ShiftDreg(op, bits, 1, d, codes)
<1> DEFINE s == [result |-> d, last |-> 0, x |-> X(codes), v |-> FALSE]
<1>1. Rounds(op, bits, s, 1) = Round(op, bits, s)
  BY FewRounds
<1> QED BY <1>1 DEF ShiftMemory, ShiftDreg

LEMMA ManualOfShift ==
  ASSUME NEW i, i.op \in Shifts, NEW s, NEW d, NEW c
  PROVE  LET m == ManualShift(i.op, i.bits, IF i.memory THEN 1 ELSE s % 64, d % 2^i.bits, c)
         IN Manual(i, s, d, c)
              = [value |-> Keep(i.bits, d, m.value), codes |-> m.codes, trap |-> 0]
BY DEF Manual, Shifts, Lefts, Decimals, BitOps, Divides

\* emit_shift_rotate_dreg and emit_shift_rotate_memory
LEMMA ShiftStep ==
  ASSUME Place, at = 1, ShiftRotate \/ ShiftRotateMemory PROVE After'
<1> DEFINE count == IF Ins.memory THEN 1 ELSE reg[Ins.src] % 64
           m == ManualShift(Ins.op, Ins.bits, count, Dst, ccr)
           o == ShiftDreg(Ins.op, Ins.bits, count, Dst, ccr)
<1>1. Ins.op \in Shifts
  BY DEF ShiftRotate, ShiftRotateMemory, Current, Ins
<1>2. Dst \in Operands(Ins.bits) /\ Ins.bits \in Nat \ {0} /\ ccr \in CCR /\ reg[Ins.src] \in Nat
  BY First, FirstOperands
<1>3. count \in Nat
  <2>1. reg[Ins.src] % 64 \in Nat
    BY <1>2, DivMod
  <2> QED BY <2>1
<1>4. Narrow(o)
  <2>1. CASE ShiftRotate
    BY <2>1 DEF ShiftRotate
  <2>2. CASE ShiftRotateMemory
    <3>1. count = 1 /\ Narrow(ShiftMemory(Ins.op, Ins.bits, Dst, ccr))
      BY <2>2 DEF ShiftRotateMemory
    <3>2. ShiftMemory(Ins.op, Ins.bits, Dst, ccr) = ShiftDreg(Ins.op, Ins.bits, 1, Dst, ccr)
      BY <1>1, <1>2, ShiftMemoryIs
    <3> HIDE DEF count
    <3> QED BY <3>1, <3>2
  <2> QED BY <2>1, <2>2
<1>5. Manual(Ins, reg[Ins.src], reg[Ins.dst], ccr)
        = [value |-> Keep(Ins.bits, reg[Ins.dst], m.value), codes |-> m.codes, trap |-> 0]
  BY <1>1, ManualOfShift DEF Dst
<1> HIDE DEF count
<1>6. o.value = m.value /\ o.ccr = m.codes /\ m.codes \in CCR
  BY <1>1, <1>2, <1>3, ShiftDregIs
<1> HIDE DEF o, m
<1>7. Narrow([value |-> m.value, ccr |-> m.codes])
  BY <1>4, <1>6 DEF Narrow
<1>8. Ins.op \notin {"SUBX", "NEGX"}
  BY <1>1 DEF Shifts, Lefts
<1> QED BY <1>5, <1>6, <1>7, <1>8, PartStep
-----------------------------------------------------------------------------
(* The first instruction of a program, whichever it is.                     *)

LEMMA FirstStep ==
  ASSUME Place, at = 1, Next PROVE After'
<1>1. CASE Arithmetic
  BY <1>1, ArithmeticStep
<1>2. CASE Extended
  BY <1>2, ExtendedStep
<1>3. CASE UnaryRmw
  BY <1>3, NegateStep, NotStep
<1>4. CASE Test
  BY <1>4, TestStep
<1>5. CASE LogicBinary
  BY <1>5, LogicStep
<1>6. CASE PackedDecimal
  BY <1>6, DecimalStep
<1>7. CASE ShiftRotate \/ ShiftRotateMemory
  BY <1>7, ShiftStep
<1>8. CASE BitNumbered
  BY <1>8, BitNumberedStep
<1>9. CASE TestAndSet
  BY <1>9, TestAndSetStep
<1>10. CASE ExtendOrSwap
  BY <1>10, ExtSwapSteps
<1>11. CASE MultiplyWords
  BY <1>11, MultiplyStep
<1>12. CASE DivideLong
  BY <1>12, DivideStep
<1>13. CASE CheckBounds
  BY <1>13, CheckStep
<1> QED
  BY <1>1, <1>2, <1>3, <1>4, <1>5, <1>6, <1>7, <1>8, <1>9, <1>10, <1>11, <1>12, <1>13
     DEF Next
-----------------------------------------------------------------------------
(* The second instruction of a pair: a number of two registers.             *)

\* A number of two parts is at least m of the greater unit just when its high
\* part is.
LEMMA HighPart ==
  ASSUME NEW b \in Nat \ {0}, NEW l \in Int, 0 <= l, l < b, NEW q \in Int, NEW m \in Int
  PROVE  l + b * q >= b * m <=> q >= m
<1> DEFINE e == b * q
           f == b * m
<1>1. e \in Int /\ f \in Int
  OBVIOUS
<1>2. CASE q >= m
  <2>1. e >= f
    BY <1>2
  <2> HIDE DEF e, f
  <2>2. l + e >= f
    BY <1>1, <2>1
  <2> QED BY <1>2, <2>2 DEF e, f
<1>3. CASE q <= m - 1
  <2>1. e <= b * (m - 1)
    BY <1>3
  <2>2. b * (m - 1) = f - b
    OBVIOUS
  <2> HIDE DEF e, f
  <2>3. ~(l + e >= f)
    BY <1>1, <2>1, <2>2
  <2> QED BY <1>3, <2>3 DEF e, f
<1> QED BY <1>2, <1>3

LEMMA DoubleWidth ==
  ASSUME NEW w \in Nat \ {0}
  PROVE  LET b == 2^w
             h == Half(w)
         IN /\ 2 * w \in Nat \ {0} /\ b \in Nat \ {0} /\ h \in Nat \ {0} /\ b = 2 * h
            /\ 2^(2 * w) = b * b /\ Half(2 * w) = b * h
<1>1. 2 * w \in Nat \ {0} /\ 2 * w = w + w /\ 2 * w - 1 = w + (w - 1) /\ w - 1 \in Nat
  OBVIOUS
<1>2. 2^(2 * w) = 2^w * 2^w /\ Half(2 * w) = 2^w * Half(w)
  BY <1>1, PowerSum DEF Half
<1> QED BY <1>1, <1>2, Widths

\* The two parts as one operand of twice the width.
LEMMA TwoParts ==
  ASSUME NEW w \in Nat \ {0}, NEW l \in Operands(w), NEW q \in Int
  PROVE  LET b == 2^w
             W == l + b * q
         IN /\ W \in Int
            /\ W \in Operands(2 * w) <=> q \in Operands(w)
            /\ q \in Operands(w) =>
                 /\ Signed(2 * w, W) < 0 <=> Signed(w, q) < 0
                 /\ Signed(2 * w, W) = l + b * Signed(w, q)
                 /\ W = 0 <=> l = 0 /\ q = 0
            /\ Unsigned(2 * w, W) = l + b * Unsigned(w, q)
            /\ Fits(2 * w, W) <=> Fits(w, q)
<1> DEFINE b == 2^w
           h == Half(w)
           W == l + b * q
           B == b * b
           H == b * h
<1>1. /\ 2 * w \in Nat \ {0} /\ b \in Nat \ {0} /\ h \in Nat \ {0} /\ b = 2 * h
      /\ 2^(2 * w) = B /\ Half(2 * w) = H
  BY DoubleWidth
<1>2. l \in Nat /\ l < b
  BY OperandsNat
<1> HIDE DEF b, h
<1>3. B \in Nat \ {0} /\ H \in Nat \ {0} /\ B = 2 * H
  <2>1. B \in Nat /\ B # 0
    BY <1>1
  <2>2. H \in Nat /\ H # 0
    BY <1>1
  <2>3. b * b = b * (2 * h)
    BY <1>1
  <2>4. b * (2 * h) = 2 * (b * h)
    BY <1>1
  <2> QED BY <2>1, <2>2, <2>3, <2>4
<1>4. /\ W >= b * 0 <=> q >= 0
      /\ W >= B <=> q >= b
      /\ W >= H <=> q >= h
      /\ W >= b * (-h) <=> q >= -h
  BY <1>1, <1>2, HighPart
<1>5. W \in Int /\ b * 0 = 0 /\ b * (-h) = -H
  BY <1>1, <1>2
<1>6. W \in Operands(2 * w) <=> q \in Operands(w)
  <2>1. W \in Operands(2 * w) <=> W \in Nat /\ W < B
    BY <1>1, OperandsNat
  <2>2. q \in Operands(w) <=> q \in Nat /\ q < b
    BY OperandsNat DEF b
  <2> HIDE DEF W, B
  <2> QED BY <1>1, <1>3, <1>4, <1>5, <2>1, <2>2
<1>7. Fits(2 * w, W) <=> Fits(w, q)
  <2>1. Fits(2 * w, W) <=> -H <= W /\ W < H
    BY <1>1 DEF Fits
  <2>2. Fits(w, q) <=> -h <= q /\ q < h
    BY DEF Fits, h
  <2> HIDE DEF W, H
  <2> QED BY <1>1, <1>3, <1>4, <1>5, <2>1, <2>2
<1>8. ASSUME q \in Operands(w)
      PROVE  /\ Signed(2 * w, W) < 0 <=> Signed(w, q) < 0
             /\ Signed(2 * w, W) = l + b * Signed(w, q)
             /\ W = 0 <=> l = 0 /\ q = 0
  <2>1. q \in Nat /\ q < b /\ W \in Nat /\ W < B
    BY <1>1, <1>6, <1>8, OperandsNat DEF b
  <2>2. Signed(2 * w, W) = IF W >= H THEN W - B ELSE W
    BY <1>1 DEF Signed
  <2>3. Signed(w, q) = IF q >= h THEN q - b ELSE q
    BY DEF Signed, b, h
  <2>4. W = 0 <=> l = 0 /\ q = 0
    <3>1. CASE q >= 1
      <4>1. b * q >= b
        BY <1>1, <3>1
      <4> DEFINE e == b * q
      <4>2. e >= b /\ e \in Int /\ W = l + e
        BY <1>1, <4>1
      <4> HIDE DEF e, W
      <4> QED BY <1>1, <1>2, <3>1, <4>2
    <3>2. CASE q = 0
      <4>1. W = l
        BY <1>1, <1>2, <3>2
      <4> QED BY <3>2, <4>1
    <3> QED BY <2>1, <3>1, <3>2
  <2>5. CASE q >= h
    <3>1. Signed(2 * w, W) = W - B /\ Signed(w, q) = q - b
      BY <1>4, <2>2, <2>3, <2>5
    <3>2. b * (q - b) = b * q - B
      BY <1>1
    <3>3. W - B < 0 /\ q - b < 0
      <4> HIDE DEF W, B
      <4> QED BY <1>1, <1>3, <2>1
    <3>4. W - B = l + (b * q - B)
      BY <1>1, <1>2
    <3> QED BY <2>4, <3>1, <3>2, <3>3, <3>4
  <2>6. CASE ~(q >= h)
    <3>1. Signed(2 * w, W) = W /\ Signed(w, q) = q
      BY <1>4, <2>2, <2>3, <2>6
    <3>2. ~(W < 0) /\ ~(q < 0)
      <4> HIDE DEF W
      <4> QED BY <2>1
    <3> QED BY <2>4, <3>1, <3>2
  <2> QED BY <2>5, <2>6
<1>9. Unsigned(2 * w, W) = l + b * Unsigned(w, q)
  <2> DEFINE r == q % b
             k == q \div b
             V == l + b * r
  <2>1. r \in Int /\ k \in Int /\ 0 <= r /\ r < b /\ q = b * k + r
    BY <1>1, DivMod
  <2> HIDE DEF r, k
  <2>2. V \in Int /\ 0 <= V /\ V < B
    <3>1. /\ V >= b * 0 <=> r >= 0
          /\ V >= B <=> r >= b
      BY <1>1, <1>2, <2>1, HighPart
    <3>2. V \in Int
      BY <1>1, <1>2, <2>1
    <3> HIDE DEF V, B
    <3> QED BY <1>1, <1>3, <1>5, <2>1, <3>1, <3>2
  <2>3. W = B * k + V
    <3>1. b * q = b * (b * k + r)
      BY <2>1
    <3>2. b * (b * k + r) = (b * b) * k + b * r
      BY <1>1, <2>1
    <3> QED BY <1>1, <1>2, <2>1, <3>1, <3>2
  <2> HIDE DEF W, V, B
  <2>4. W % B = V
    BY <1>3, <1>5, <2>1, <2>2, <2>3, DivModIs
  <2>5. Unsigned(2 * w, W) = W % B
    BY <1>1 DEF Unsigned
  <2>6. Unsigned(w, q) = r
    BY DEF Unsigned, r, b
  <2> QED BY <2>4, <2>5, <2>6 DEF V
<1> QED BY <1>5, <1>6, <1>7, <1>8, <1>9 DEF b

\* The low part of a sum, and the carry or borrow that X takes to the high one.
LEMMA LowPart ==
  ASSUME NEW w \in Nat \ {0}, NEW op \in {"ADD", "SUB", "NEG"},
         NEW s \in Operands(w), NEW d \in Operands(w), NEW codes \in CCR
  PROVE  LET m == ManualSum(op, w, s, d, codes)
             u == Exact(op, s, d, X(codes))
         IN /\ m.value \in Operands(w) /\ m.codes.x \in BOOLEAN
            /\ m.codes.z = (m.value = 0)
            /\ ~m.codes.x => u = m.value
            /\ m.codes.x /\ op = "ADD" => u = m.value + 2^w
            /\ m.codes.x /\ op # "ADD" => u = m.value - 2^w
<1> DEFINE m == ManualSum(op, w, s, d, codes)
           u == Exact(op, s, d, X(codes))
           b == 2^w
           v == Unsigned(w, u)
           c == u \notin Operands(w)
<1>1. s \in Nat /\ s < b /\ d \in Nat /\ d < b /\ b \in Nat \ {0}
  BY OperandsNat
<1>2. m.value = v /\ m.codes.x = c /\ m.codes.z = (v = 0)
  <2>1. op # "CMP" /\ op \notin {"ADDX", "SUBX", "NEGX"}
    OBVIOUS
  <2> HIDE DEF u, v, c
  <2> QED BY <2>1 DEF ManualSum, u, v, c
<1>3. /\ op = "ADD" => u = d + s
      /\ op = "SUB" => u = d - s
      /\ op = "NEG" => u = -d
  BY DEF Exact
<1>4. c <=> ~(u \in Nat /\ u < b)
  BY OperandsNat
<1>5. v = u % b
  BY DEF Unsigned
<1> HIDE DEF m, u, b, v, c
<1>6. u \in Int /\ (op = "ADD" => 0 <= u /\ u < 2 * b) /\ (op # "ADD" => -b < u /\ u < b)
  BY <1>1, <1>3
<1>7. CASE ~c
  <2>1. u = b * 0 + u /\ 0 <= u /\ u < b
    BY <1>1, <1>4, <1>6, <1>7
  <2>2. v = u
    BY <1>1, <1>5, <1>6, <2>1, DivModIs
  <2>3. v \in Operands(w)
    BY <1>1, <1>6, <2>1, <2>2, OperandsNat DEF b
  <2>4. m.codes.x = FALSE
    BY <1>2, <1>7
  <2> QED BY <1>2, <2>2, <2>3, <2>4 DEF m, u
<1>8. CASE c
  <2> DEFINE k == IF op = "ADD" THEN 1 ELSE -1
             g == IF op = "ADD" THEN u - b ELSE u + b
  <2>1. u = b * k + g /\ g \in Int /\ 0 <= g /\ g < b
    BY <1>1, <1>4, <1>6, <1>8
  <2>2. k \in Int
    OBVIOUS
  <2>3. v = g
    <3> HIDE DEF k, g
    <3> QED BY <1>1, <1>5, <1>6, <2>1, <2>2, DivModIs
  <2>4. v \in Operands(w)
    BY <2>1, <2>3, OperandsNat DEF b
  <2>5. m.codes.x = TRUE
    BY <1>2, <1>8
  <2>6. u = IF op = "ADD" THEN v + b ELSE v - b
    BY <1>1, <1>6, <2>3
  <2> QED BY <1>2, <2>4, <2>5, <2>6 DEF m, u, b
<1> QED BY <1>7, <1>8

\* The sum of twice the width, from the sums of the two parts: codes are those
\* before the first of them and c those before the second.
IsLongSum(op, w, s0, d0, s1, d1, codes, c) ==
  LET l == ManualSum(op, w, s0, d0, codes).value
      n == ManualSum(Extension(op), w, s1, d1, c)
      m == ManualSum(op, 2 * w, s0 + 2^w * s1, d0 + 2^w * d1, codes)
  IN /\ m.value = l + 2^w * n.value
     /\ m.codes.x = n.codes.x /\ m.codes.n = n.codes.n /\ m.codes.z = n.codes.z
     /\ m.codes.c = n.codes.c /\ m.codes.v = n.codes.v

LEMMA LongSum ==
  ASSUME NEW w \in Nat \ {0}, NEW op \in {"ADD", "SUB", "NEG"},
         NEW s0 \in Operands(w), NEW d0 \in Operands(w),
         NEW s1 \in Operands(w), NEW d1 \in Operands(w), NEW codes \in CCR, NEW c \in CCR,
         c.x = ManualSum(op, w, s0, d0, codes).codes.x,
         c.z = ManualSum(op, w, s0, d0, codes).codes.z
  PROVE  IsLongSum(op, w, s0, d0, s1, d1, codes, c)
<1> DEFINE l == ManualSum(op, w, s0, d0, codes).value
           n == ManualSum(Extension(op), w, s1, d1, c)
           s == s0 + 2^w * s1
           d == d0 + 2^w * d1
           m == ManualSum(op, 2 * w, s, d, codes)
           b == 2^w
           u == Exact(op, s0, d0, X(codes))
           q == Exact(Extension(op), s1, d1, X(c))
           U == Exact(op, s, d, X(codes))
<1>1. /\ s0 \in Nat /\ s0 < b /\ d0 \in Nat /\ d0 < b /\ b \in Nat \ {0}
      /\ s1 \in Nat /\ s1 < b /\ d1 \in Nat /\ d1 < b
  BY OperandsNat
<1>2. /\ l \in Operands(w) /\ c.x \in BOOLEAN /\ c.z = (l = 0)
      /\ u = IF op = "ADD" THEN l + b * X(c) ELSE l - b * X(c)
  <2>1. /\ l \in Operands(w) /\ c.x \in BOOLEAN /\ c.z = (l = 0)
        /\ ~c.x => u = l
        /\ c.x /\ op = "ADD" => u = l + b
        /\ c.x /\ op # "ADD" => u = l - b
    <3> DEFINE M == ManualSum(op, w, s0, d0, codes)
    <3>1. /\ M.value \in Operands(w) /\ M.codes.x \in BOOLEAN
          /\ M.codes.z = (M.value = 0)
          /\ ~M.codes.x => u = M.value
          /\ M.codes.x /\ op = "ADD" => u = M.value + 2^w
          /\ M.codes.x /\ op # "ADD" => u = M.value - 2^w
      BY LowPart
    <3>2. l = M.value /\ c.x = M.codes.x /\ c.z = M.codes.z
      OBVIOUS
    <3> HIDE DEF M, l, u
    <3> QED BY <3>1, <3>2
  <2>2. l \in Nat
    BY <2>1, OperandsNat
  <2> HIDE DEF l, u, b
  <2>3. CASE c.x
    <3>1. X(c) = 1
      BY <2>3 DEF X
    <3>2. b * X(c) = b
      BY <1>1, <3>1
    <3> QED BY <2>1, <2>3, <3>2
  <2>4. CASE ~c.x
    <3>1. X(c) = 0
      BY <2>4 DEF X
    <3>2. l + b * X(c) = l /\ l - b * X(c) = l
      BY <1>1, <2>2, <3>1
    <3> QED BY <2>1, <2>4, <3>2
  <2> QED BY <2>3, <2>4
<1>3. X(c) \in {0, 1}
  BY DEF X
<1>4. /\ op = "ADD" => u = d0 + s0 /\ q = d1 + s1 + X(c) /\ U = d + s
      /\ op = "SUB" => u = d0 - s0 /\ q = d1 - s1 - X(c) /\ U = d - s
      /\ op = "NEG" => u = -d0 /\ q = -d1 - X(c) /\ U = -d
  BY DEF Exact, Extension
<1>5. s = s0 + b * s1 /\ d = d0 + b * d1
  OBVIOUS
<1>6. l \in Nat
  BY <1>2, OperandsNat
<1>7. /\ n.value = Unsigned(w, q) /\ n.codes.x = (q \notin Operands(w))
      /\ n.codes.c = (q \notin Operands(w)) /\ n.codes.n = (Signed(w, n.value) < 0)
      /\ n.codes.z = (n.value = 0 /\ c.z)
      /\ n.codes.v = ManualOverflow(Extension(op), w, s1, d1, c)
  <2>1. Extension(op) # "CMP" /\ Extension(op) \in {"ADDX", "SUBX", "NEGX"}
    BY DEF Extension
  <2> HIDE DEF q
  <2> QED BY <2>1 DEF ManualSum, q
<1>8. /\ m.value = Unsigned(2 * w, U) /\ m.codes.x = (U \notin Operands(2 * w))
      /\ m.codes.c = (U \notin Operands(2 * w)) /\ m.codes.n = (Signed(2 * w, m.value) < 0)
      /\ m.codes.z = (m.value = 0)
      /\ m.codes.v = ManualOverflow(op, 2 * w, s, d, codes)
  <2>1. op # "CMP" /\ op \notin {"ADDX", "SUBX", "NEGX"}
    OBVIOUS
  <2> HIDE DEF U, s, d
  <2> QED BY <2>1 DEF ManualSum, U
<1> HIDE DEF l, n, m, s, d, b, u, q, U
<1> DEFINE x == X(c)
           P == b * s1
           R == b * d1
<1>9. q \in Int
  BY <1>1, <1>3, <1>4
<1>10. U = l + b * q
  <2>1. P \in Int /\ R \in Int /\ s = s0 + P /\ d = d0 + R
    BY <1>1, <1>5
  <2>2. CASE op = "ADD"
    <3> DEFINE e == b * x
    <3>1. b * (d1 + s1 + x) = R + P + e
      BY <1>1, <1>3
    <3>2. u = l + e /\ u = d0 + s0 /\ q = d1 + s1 + x /\ U = d + s /\ e \in Int
      BY <1>1, <1>2, <1>3, <1>4, <2>2
    <3> HIDE DEF x, P, R, e
    <3> DEFINE f == b * q
    <3>3. f = R + P + e
      BY <3>1, <3>2
    <3> HIDE DEF f
    <3>4. U = l + f
      BY <1>1, <1>6, <2>1, <3>2, <3>3
    <3> QED BY <3>4 DEF f
  <2>3. CASE op = "SUB"
    <3> DEFINE e == b * x
    <3>1. b * (d1 - s1 - x) = R - P - e
      BY <1>1, <1>3
    <3>2. u = l - e /\ u = d0 - s0 /\ q = d1 - s1 - x /\ U = d - s /\ e \in Int
      BY <1>1, <1>2, <1>3, <1>4, <2>3
    <3> HIDE DEF x, P, R, e
    <3> DEFINE f == b * q
    <3>3. f = R - P - e
      BY <3>1, <3>2
    <3> HIDE DEF f
    <3>4. U = l + f
      BY <1>1, <1>6, <2>1, <3>2, <3>3
    <3> QED BY <3>4 DEF f
  <2>4. CASE op = "NEG"
    <3> DEFINE e == b * x
    <3>1. b * (-d1 - x) = -R - e
      BY <1>1, <1>3
    <3>2. u = l - e /\ u = -d0 /\ q = -d1 - x /\ U = -d /\ e \in Int
      BY <1>1, <1>2, <1>3, <1>4, <2>4
    <3> HIDE DEF x, P, R, e
    <3> DEFINE f == b * q
    <3>3. f = -R - e
      BY <3>1, <3>2
    <3> HIDE DEF f
    <3>4. U = l + f
      BY <1>1, <1>6, <2>1, <3>2, <3>3
    <3> QED BY <3>4 DEF f
  <2> QED BY <2>2, <2>3, <2>4
<1> DEFINE r == Unsigned(w, q)
<1>11. r \in Operands(w)
  <2>1. r \in Int /\ 0 <= r /\ r < b
    BY <1>1, <1>9, DivMod DEF Unsigned, b
  <2> HIDE DEF r
  <2> QED BY <2>1, OperandsNat DEF b
<1>12. /\ U \in Operands(2 * w) <=> q \in Operands(w)
       /\ Unsigned(2 * w, U) = l + b * r
  <2> DEFINE y == l + 2^w * q
  <2>1. /\ y \in Operands(2 * w) <=> q \in Operands(w)
        /\ Unsigned(2 * w, y) = l + 2^w * Unsigned(w, q)
    BY <1>2, <1>9, TwoParts, SMTT(30)
  <2>2. y = U
    BY <1>10 DEF b
  <2> HIDE DEF y
  <2> QED BY <2>1, <2>2 DEF b
<1>13. m.value = l + b * n.value /\ n.value = r
  BY <1>7, <1>8, <1>12
<1>14. /\ Signed(2 * w, m.value) < 0 <=> Signed(w, r) < 0
       /\ m.value = 0 <=> l = 0 /\ r = 0
  <2> HIDE DEF r
  <2>1. r \in Int
    BY <1>11, OperandsNat
  <2> DEFINE y == l + 2^w * r
  <2>2. /\ Signed(2 * w, y) < 0 <=> Signed(w, r) < 0
        /\ y = 0 <=> l = 0 /\ r = 0
    BY <1>2, <1>11, <2>1, TwoParts
  <2>3. y = m.value
    BY <1>13 DEF b
  <2> HIDE DEF y
  <2> QED BY <2>2, <2>3
<1>15. Signed(2 * w, m.value) \in Int /\ Signed(w, r) \in Int
  <2>1. m.value \in Operands(2 * w) /\ 2 * w \in Nat \ {0}
    <3>0. r \in Int
      BY <1>11, OperandsNat
    <3> HIDE DEF r
    <3> QED BY <1>2, <1>11, <1>13, <3>0, TwoParts DEF b
  <2> HIDE DEF r
  <2> QED BY <1>11, <2>1, SignedBounds
<1>16. m.codes.x = n.codes.x /\ m.codes.c = n.codes.c
  BY <1>7, <1>8, <1>12
<1>17. m.codes.n = n.codes.n
  <2>1. (Signed(2 * w, m.value) < 0) = (Signed(w, n.value) < 0)
    BY <1>13, <1>14, <1>15
  <2> QED BY <1>7, <1>8, <2>1
<1>18. m.codes.z = n.codes.z
  <2>1. (m.value = 0) = (n.value = 0 /\ c.z)
    BY <1>2, <1>13, <1>14
  <2> QED BY <1>7, <1>8, <2>1
<1>19. m.codes.v = n.codes.v
  <2> DEFINE a1 == Signed(w, s1)
             a2 == Signed(w, d1)
             q2 == Exact(Extension(op), a1, a2, x)
             A1 == Signed(2 * w, s)
             A2 == Signed(2 * w, d)
             Q2 == Exact(op, A1, A2, X(codes))
  <2>1. A1 = s0 + b * a1 /\ A2 = d0 + b * a2 /\ a1 \in Int /\ a2 \in Int
    <3>1. s1 \in Int /\ d1 \in Int
      BY <1>1
    <3> QED BY <1>5, <3>1, TwoParts, SignedBounds DEF b
  <2>2. ManualOverflow(op, 2 * w, s, d, codes) = ~Fits(2 * w, Q2)
    BY DEF ManualOverflow
  <2>3. ManualOverflow(Extension(op), w, s1, d1, c) = ~Fits(w, q2)
    BY DEF ManualOverflow
  <2>e. /\ op = "ADD" => q2 = a2 + a1 + x /\ Q2 = A2 + A1
        /\ op = "SUB" => q2 = a2 - a1 - x /\ Q2 = A2 - A1
        /\ op = "NEG" => q2 = -a2 - x /\ Q2 = -A2
    BY DEF Exact, Extension
  <2> HIDE DEF a1, a2, A1, A2, x, q2, Q2
  <2>4. Q2 = l + b * q2 /\ q2 \in Int
    <3>0. x \in Int
      BY <1>3 DEF x
    <3>5. q2 \in Int
      BY <2>1, <2>e, <3>0
    <3> DEFINE e1 == b * a1
               e2 == b * a2
               e3 == b * x
    <3>3. e1 \in Int /\ e2 \in Int /\ e3 \in Int
      BY <1>1, <2>1, <3>0
    <3>4. A1 = s0 + e1 /\ A2 = d0 + e2
      BY <2>1
    <3>6. CASE op = "ADD"
      <4>1. b * (a2 + a1 + x) = e2 + e1 + e3
        BY <1>1, <2>1, <3>0
      <4>2. u = l + e3 /\ u = d0 + s0
        BY <1>2, <1>4, <3>6 DEF x
      <4>3. b * q2 = e2 + e1 + e3 /\ Q2 = A2 + A1
        BY <2>e, <3>6, <4>1
      <4> HIDE DEF e1, e2, e3
      <4> QED BY <1>1, <1>6, <3>3, <3>4, <3>5, <4>2, <4>3
    <3>7. CASE op = "SUB"
      <4>1. b * (a2 - a1 - x) = e2 - e1 - e3
        BY <1>1, <2>1, <3>0
      <4>2. u = l - e3 /\ u = d0 - s0
        BY <1>2, <1>4, <3>7 DEF x
      <4>3. b * q2 = e2 - e1 - e3 /\ Q2 = A2 - A1
        BY <2>e, <3>7, <4>1
      <4> HIDE DEF e1, e2, e3
      <4> QED BY <1>1, <1>6, <3>3, <3>4, <3>5, <4>2, <4>3
    <3>8. CASE op = "NEG"
      <4>1. b * (-a2 - x) = -e2 - e3
        BY <1>1, <2>1, <3>0
      <4>2. u = l - e3 /\ u = -d0
        BY <1>2, <1>4, <3>8 DEF x
      <4>3. b * q2 = -e2 - e3 /\ Q2 = -A2
        BY <2>e, <3>8, <4>1
      <4> HIDE DEF e1, e2, e3
      <4> QED BY <1>1, <1>6, <3>3, <3>4, <3>5, <4>2, <4>3
    <3> HIDE DEF e1, e2, e3
    <3> QED BY <3>6, <3>7, <3>8
  <2>5. Fits(2 * w, l + b * q2) <=> Fits(w, q2)
    BY <1>2, <2>4, TwoParts DEF b
  <2>6. (~Fits(2 * w, Q2)) = (~Fits(w, q2))
    BY <2>4, <2>5
  <2> QED BY <1>7, <1>8, <2>2, <2>3, <2>6
<1> QED BY <1>13, <1>16, <1>17, <1>18, <1>19 DEF l, n, m, b, s, d, IsLongSum

\* A shift left by one, without and with X.
IsOneLeft(op, bits, d, codes) ==
  LET h == Half(bits)
      m == ManualShift(op, bits, 1, d, codes)
  IN /\ m.value = 2 * (d % h) + (IF op = "ROXL" THEN X(codes) ELSE 0)
     /\ m.value \in Operands(bits)
     /\ m.codes.c = (d \div h = 1) /\ m.codes.x = (d \div h = 1)
     /\ m.codes.n = (Signed(bits, m.value) < 0)
     /\ d \div h \in {0, 1} /\ d % h \in Nat /\ d % h < h /\ d = h * (d \div h) + (d % h)

LEMMA OneLeft ==
  ASSUME NEW bits \in Nat \ {0}, NEW op \in {"LSL", "ROXL"}, NEW d \in Operands(bits),
         NEW codes \in CCR
  PROVE  IsOneLeft(op, bits, d, codes)
<1> DEFINE s == LoopStart(d, X(codes))
           u == Round(op, bits, s)
           m == ManualShift(op, bits, 1, d, codes)
           h == Half(bits)
           out == IF op \in Extends THEN u.x ELSE u.last
<1>1. /\ op \in Shifts /\ op \in Lefts /\ op \notin Rotates /\ op # "ASR"
      /\ op \in Extends <=> op = "ROXL"
  BY DEF Shifts, Lefts, Rotates, Extends
<1>2. X(codes) \in {0, 1}
  BY DEF X
<1>3. s \in LoopStates(bits) /\ s.result = d /\ s.x = X(codes)
  BY <1>2, LoopStartTyped
<1>4. Rounds(op, bits, s, 1) = u
  BY FewRounds
<1>5. /\ u \in LoopStates(bits) /\ m.value = u.result
      /\ m.codes = ShiftCodes(op, bits, 1, codes, u.result, out, u.v)
  <2> DEFINE t == Rounds(op, bits, s, 1)
  <2>1. /\ t \in LoopStates(bits) /\ m.value = t.result
        /\ m.codes = ShiftCodes(op, bits, 1, codes, t.result,
                                IF op \in Extends THEN t.x ELSE t.last, t.v)
    BY <1>1, ShiftIsLoop
  <2>2. t = u
    BY <1>4
  <2> HIDE DEF t, u, m
  <2> QED BY <2>1, <2>2
<1> HIDE DEF s
<1>6. LET r == s.result
      IN /\ r \div h \in {0, 1} /\ r % h \in Nat /\ r % h < h /\ r = h * (r \div h) + (r % h)
         /\ u.result = 2 * (r % h) + (IF op \in Extends THEN s.x ELSE 0)
         /\ u.last = r \div h /\ u.x = IF op \in Extends THEN r \div h ELSE s.x
  BY <1>1, <1>3, RoundIs
<1>7. /\ d \div h \in {0, 1} /\ d % h \in Nat /\ d % h < h /\ d = h * (d \div h) + (d % h)
      /\ u.result = 2 * (d % h) + (IF op = "ROXL" THEN X(codes) ELSE 0)
      /\ out = d \div h
  BY <1>1, <1>3, <1>6
<1>8. u.result \in Operands(bits)
  BY <1>5 DEF LoopStates
<1> HIDE DEF u, m, out
<1>9. /\ m.codes.c = (out = 1) /\ m.codes.x = (out = 1)
      /\ m.codes.n = (Signed(bits, u.result) < 0)
  <2>1. (out = 1 /\ (op \in Extends \/ 1 # 0)) = (out = 1)
    OBVIOUS
  <2>2. ~(op \in Rotates \/ 1 = 0)
    BY <1>1
  <2> QED BY <1>5, <2>1, <2>2 DEF ShiftCodes
<1> QED BY <1>5, <1>7, <1>8, <1>9 DEF m, IsOneLeft

\* The same of a shift by one.
IsLongShift(w, d0, d1, codes, c) ==
  LET l == ManualShift("LSL", w, 1, d0, codes).value
      n == ManualShift("ROXL", w, 1, d1, c)
      m == ManualShift("LSL", 2 * w, 1, d0 + 2^w * d1, codes)
  IN /\ m.value = l + 2^w * n.value
     /\ m.codes.x = n.codes.x /\ m.codes.n = n.codes.n /\ m.codes.c = n.codes.c

LEMMA LongShift ==
  ASSUME NEW w \in Nat \ {0}, NEW d0 \in Operands(w), NEW d1 \in Operands(w),
         NEW codes \in CCR, NEW c \in CCR,
         c.x = ManualShift("LSL", w, 1, d0, codes).codes.x
  PROVE  IsLongShift(w, d0, d1, codes, c)
<1> DEFINE l == ManualShift("LSL", w, 1, d0, codes).value
           n == ManualShift("ROXL", w, 1, d1, c)
           d == d0 + 2^w * d1
           m == ManualShift("LSL", 2 * w, 1, d, codes)
           h == Half(w)
           b == 2^w
           H == Half(2 * w)
           t0 == d0 \div h
           r0 == d0 % h
           t1 == d1 \div h
           r1 == d1 % h
           T == d \div H
           R == d % H
<1>1. 2 * w \in Nat \ {0} /\ b \in Nat \ {0} /\ h \in Nat \ {0} /\ b = 2 * h /\ H = b * h
  BY DoubleWidth
<1>2. d0 \in Nat /\ d0 < b /\ d1 \in Nat /\ d1 < b
  BY OperandsNat
<1>3. d \in Operands(2 * w)
  BY <1>2, TwoParts
<1>4. /\ l = 2 * r0 + 0 /\ l \in Operands(w) /\ c.x = (t0 = 1)
      /\ t0 \in {0, 1} /\ r0 \in Nat /\ r0 < h /\ d0 = h * t0 + r0
  BY OneLeft DEF IsOneLeft
<1>5. /\ n.value = 2 * r1 + X(c) /\ n.value \in Operands(w)
      /\ n.codes.c = (t1 = 1) /\ n.codes.x = (t1 = 1)
      /\ n.codes.n = (Signed(w, n.value) < 0)
      /\ t1 \in {0, 1} /\ r1 \in Nat /\ r1 < h /\ d1 = h * t1 + r1
  BY OneLeft DEF IsOneLeft
<1>6. /\ m.value = 2 * R + 0 /\ m.codes.c = (T = 1) /\ m.codes.x = (T = 1)
      /\ m.codes.n = (Signed(2 * w, m.value) < 0)
      /\ T \in {0, 1} /\ R \in Nat /\ R < H /\ d = H * T + R
  <2> HIDE DEF d
  <2>1. IsOneLeft("LSL", 2 * w, d, codes)
    BY <1>1, <1>3, OneLeft
  <2> QED BY <2>1 DEF IsOneLeft
<1>7. X(c) = t0
  BY <1>4 DEF X
<1>8. d = d0 + b * d1
  OBVIOUS
<1> HIDE DEF l, n, d, m, h, b, H, t0, r0, t1, r1, T, R
<1> DEFINE S == d0 + b * r1
<1>9. T = t1 /\ R = S
  <2>1. d = H * t1 + S
    <3>1. b * d1 = b * (h * t1 + r1)
      BY <1>5
    <3>2. b * (h * t1 + r1) = (b * h) * t1 + b * r1
      BY <1>1, <1>5
    <3> QED BY <1>1, <1>2, <1>5, <1>8, <3>1, <3>2
  <2>2. S \in Int /\ 0 <= S /\ S < H /\ H \in Nat \ {0} /\ d \in Int
    <3>1. b * r1 <= b * (h - 1)
      BY <1>1, <1>5
    <3>2. b * (h - 1) = H - b
      BY <1>1
    <3>3. b * r1 \in Int /\ 0 <= b * r1 /\ H \in Nat \ {0}
      BY <1>1, <1>5
    <3> DEFINE e == b * r1
    <3>4. e <= H - b /\ e \in Int /\ 0 <= e /\ S = d0 + e
      BY <3>1, <3>2, <3>3
    <3>5. d \in Int
      BY <1>3, <1>1, OperandsNat
    <3> HIDE DEF e, S
    <3> QED BY <1>1, <1>2, <3>3, <3>4, <3>5
  <2> HIDE DEF S
  <2>3. t1 \in Int
    BY <1>5
  <2> QED BY <2>1, <2>2, <2>3, DivModIs DEF T, R
<1>10. m.value = l + b * n.value
  <2>1. 2 * d0 = b * t0 + 2 * r0
    <3>1. 2 * (h * t0) = b * t0
      BY <1>1, <1>4
    <3> QED BY <1>1, <1>4, <3>1
  <2>2. b * n.value = 2 * (b * r1) + b * t0
    <3>1. b * (2 * r1 + t0) = 2 * (b * r1) + b * t0
      BY <1>1, <1>4, <1>5
    <3> QED BY <1>5, <1>7, <3>1
  <2> DEFINE e == b * r1
             f == b * t0
             g == b * n.value
  <2>3. e \in Int /\ f \in Int /\ g = 2 * e + f /\ 2 * d0 = f + 2 * r0 /\ R = d0 + e
    BY <1>1, <1>4, <1>5, <1>9, <2>1, <2>2
  <2> HIDE DEF e, f, g
  <2>4. m.value = l + g
    BY <1>2, <1>4, <1>6, <2>3
  <2> QED BY <2>4 DEF g
<1>11. m.codes.n = n.codes.n
  <2> DEFINE v == n.value
             y == l + 2^w * v
  <2>0. v \in Int /\ v \in Operands(w)
    BY <1>5, OperandsNat
  <2> HIDE DEF v
  <2>1. /\ Signed(2 * w, y) < 0 <=> Signed(w, v) < 0
        /\ y \in Operands(2 * w)
    BY <1>4, <2>0, TwoParts
  <2>2. y = m.value
    BY <1>10 DEF b, v
  <2> HIDE DEF y
  <2>3. Signed(2 * w, y) \in Int /\ Signed(w, v) \in Int
    BY <1>1, <2>0, <2>1, SignedBounds
  <2>4. (Signed(2 * w, y) < 0) = (Signed(w, v) < 0)
    BY <2>1, <2>3
  <2> QED BY <1>5, <1>6, <2>2, <2>4 DEF v
<1>12. m.codes.x = n.codes.x /\ m.codes.c = n.codes.c
  BY <1>5, <1>6, <1>9
<1> QED BY <1>10, <1>11, <1>12 DEF l, n, m, d, b, IsLongShift

\* And of the decimal sums.
IsLongDecimal(op, s0, d0, s1, d1, codes, c) ==
  LET l == ManualDecimal(op, s0, d0, 100, codes).decimal
      n == ManualDecimal(op, s1, d1, 100, c)
      m == ManualDecimal(op, s0 + 100 * s1, d0 + 100 * d1, 10000, codes)
  IN /\ m.decimal = l + 100 * n.decimal
     /\ m.codes.x = n.codes.x /\ m.codes.z = n.codes.z /\ m.codes.c = n.codes.c

LEMMA LongDecimal ==
  ASSUME NEW op \in {"ABCD", "SBCD"}, NEW s0 \in 0..99, NEW d0 \in 0..99, NEW s1 \in 0..99,
         NEW d1 \in 0..99, NEW codes \in CCR, NEW c \in CCR,
         c.x = ManualDecimal(op, s0, d0, 100, codes).codes.x,
         c.z = ManualDecimal(op, s0, d0, 100, codes).codes.z
  PROVE  IsLongDecimal(op, s0, d0, s1, d1, codes, c)
<1> DEFINE Sum(s, d, x) == IF op = "ABCD" THEN d + s + x ELSE d - s - x
           u == Sum(s0, d0, X(codes))
           q == Sum(s1, d1, X(c))
           U == Sum(s0 + 100 * s1, d0 + 100 * d1, X(codes))
           l == ManualDecimal(op, s0, d0, 100, codes)
           n == ManualDecimal(op, s1, d1, 100, c)
           m == ManualDecimal(op, s0 + 100 * s1, d0 + 100 * d1, 10000, codes)
<1>1. ASSUME NEW s, NEW d, NEW span, NEW k
      PROVE  LET o == ManualDecimal(op, s, d, span, k)
                 e == Sum(s, d, X(k))
             IN /\ o.decimal = e % span /\ o.codes.x = (e < 0 \/ e >= span)
                /\ o.codes.c = (e < 0 \/ e >= span) /\ o.codes.z = (k.z /\ (e % span) = 0)
  BY DEF ManualDecimal
<1>2. X(codes) \in {0, 1} /\ X(c) \in {0, 1}
  BY DEF X
<1>3. /\ l.decimal = u % 100 /\ c.x = (u < 0 \/ u >= 100) /\ c.z = (codes.z /\ (u % 100) = 0)
  <2> HIDE DEF Sum
  <2> QED BY <1>1
<1>4. /\ n.decimal = q % 100 /\ n.codes.x = (q < 0 \/ q >= 100)
      /\ n.codes.c = (q < 0 \/ q >= 100) /\ n.codes.z = (c.z /\ (q % 100) = 0)
  <2> HIDE DEF Sum
  <2> QED BY <1>1
<1>5. /\ m.decimal = U % 10000 /\ m.codes.x = (U < 0 \/ U >= 10000)
      /\ m.codes.c = (U < 0 \/ U >= 10000) /\ m.codes.z = (codes.z /\ (U % 10000) = 0)
  <2> HIDE DEF Sum
  <2> QED BY <1>1
<1>6. X(c) = IF u < 0 \/ u >= 100 THEN 1 ELSE 0
  BY <1>3 DEF X
<1>7. /\ op = "ABCD" => u = d0 + s0 + X(codes) /\ q = d1 + s1 + X(c)
      /\ op = "SBCD" => u = d0 - s0 - X(codes) /\ q = d1 - s1 - X(c)
      /\ U = IF op = "ABCD" THEN u + 100 * (d1 + s1) ELSE u + 100 * (d1 - s1)
  BY <1>2
<1> HIDE DEF u, q, U, l, n, m
<1> DEFINE r == u % 100
           g == q % 100
<1>8. /\ u \in Int /\ q \in Int /\ -100 <= u /\ u < 200 /\ -100 <= q /\ q < 200
      /\ op = "ABCD" => 0 <= u
      /\ op = "SBCD" => u < 100
  <2>1. X(codes) \in 0..1 /\ X(c) \in 0..1
    BY <1>2
  <2>2. CASE op = "ABCD"
    BY <1>7, <2>1, <2>2
  <2>3. CASE op = "SBCD"
    BY <1>7, <2>1, <2>3
  <2> QED BY <2>2, <2>3
<1>9. r \in Int /\ 0 <= r /\ r < 100 /\ g \in Int /\ 0 <= g /\ g < 100
      /\ r = (IF u < 0 THEN u + 100 ELSE IF u >= 100 THEN u - 100 ELSE u)
      /\ g = (IF q < 0 THEN q + 100 ELSE IF q >= 100 THEN q - 100 ELSE q)
  BY <1>8
<1> HIDE DEF r, g
<1>12. U = r + 100 * q
  <2>1. CASE op = "ABCD"
    <3>1. U = u + 100 * (d1 + s1) /\ q = d1 + s1 + X(c)
      BY <1>7, <2>1
    <3>2. X(c) = (IF u >= 100 THEN 1 ELSE 0) /\ r = (IF u >= 100 THEN u - 100 ELSE u)
      BY <1>6, <1>8, <1>9, <2>1
    <3> QED BY <1>8, <3>1, <3>2
  <2>2. CASE op = "SBCD"
    <3>1. U = u + 100 * (d1 - s1) /\ q = d1 - s1 - X(c)
      BY <1>7, <2>2
    <3>2. X(c) = (IF u < 0 THEN 1 ELSE 0) /\ r = (IF u < 0 THEN u + 100 ELSE u)
      BY <1>6, <1>8, <1>9, <2>2
    <3> QED BY <1>8, <3>1, <3>2
  <2> QED BY <2>1, <2>2
<1>13. U % 10000 = r + 100 * g
  <2> DEFINE k == IF q < 0 THEN -1 ELSE IF q >= 100 THEN 1 ELSE 0
             y == r + 100 * g
  <2>1. U = 10000 * k + y /\ k \in Int /\ y \in Int /\ 0 <= y /\ y < 10000 /\ U \in Int
    BY <1>8, <1>9, <1>12
  <2> HIDE DEF k, y
  <2>2. U % 10000 = y
    BY <2>1, DivModIs
  <2> QED BY <2>2 DEF y
<1>10. (U < 0 \/ U >= 10000) = (q < 0 \/ q >= 100)
  BY <1>8, <1>9, <1>12
<1>11. (codes.z /\ (U % 10000) = 0) = (c.z /\ g = 0)
  <2>0. r \in Int /\ 0 <= r /\ g \in Int /\ 0 <= g
    BY <1>9
  <2>1. (U % 10000 = 0) = (r = 0 /\ g = 0)
    <3>1. CASE r = 0 /\ g = 0
      <4>1. U % 10000 = 0
        BY <1>13, <3>1
      <4> QED BY <3>1, <4>1
    <3>2. CASE ~(r = 0 /\ g = 0)
      <4>1. r + 100 * g # 0
        BY <2>0, <3>2
      <4> QED BY <1>13, <3>2, <4>1
    <3> QED BY <3>1, <3>2
  <2>2. c.z = (codes.z /\ r = 0)
    BY <1>3 DEF r
  <2>3. codes.z \in BOOLEAN
    BY DEF CCR
  <2> DEFINE a == U % 10000 = 0
             e == r = 0
             f == g = 0
  <2>4. a = (e /\ f) /\ c.z = (codes.z /\ e) /\ a \in BOOLEAN /\ e \in BOOLEAN /\ f \in BOOLEAN
    BY <2>1, <2>2
  <2> HIDE DEF a, e, f
  <2>5. (codes.z /\ a) = (c.z /\ f)
    BY <2>3, <2>4
  <2> QED BY <2>5 DEF a, f
<1> QED BY <1>3, <1>4, <1>5, <1>13, <1>10, <1>11 DEF l, n, m, r, g, IsLongDecimal

LEMMA WholeOperand ==
  ASSUME NEW w \in Nat \ {0}, NEW d \in Operands(w)
  PROVE  d % 2^w = d /\ \A v \in Int : Keep(w, d, v) = v
<1>1. d \in Nat /\ d < 2^w /\ 2^w \in Nat \ {0}
  BY OperandsNat
<1>2. d % 2^w = d /\ d \div 2^w = 0
  BY <1>1, SmallResidue
<1>3. 0 * 2^w = 0
  BY <1>1
<1> QED BY <1>2, <1>3 DEF Keep

\* Where the second instruction finds the registers, and where it leaves them.
LEMMA Second ==
  ASSUME Place, After, at = 2, Next
  PROVE  /\ code \in Chains /\ Len(code) = 2 /\ Ins = code[2]
         /\ TwoInstructions(code[1], code[2])
         /\ start.reg \in Inputs(code) /\ start.ccr \in CCR /\ ccr \in CCR
         /\ AsManual(code[1], start.reg, start.ccr, reg["D0"], ccr, trap)
         /\ reg["D1"] = start.reg["D1"] /\ reg["S1"] = start.reg["S1"]
         /\ code' = code /\ start' = start /\ at' = 3 /\ reg'["D0"] = reg["D0"]
         /\ \A v, c, t : Retire(v, c, t) => reg'["D1"] = v /\ ccr' = c
<1>1. at <= Len(code) /\ \E v, c, t : Retire(v, c, t)
  BY NextShape
<1>2. code \in Chains /\ Len(code) = 2 /\ TwoInstructions(code[1], code[2])
  BY <1>1, CodeLength DEF Place
<1>3. /\ code[1].dst = "D0" /\ Ins = code[2] /\ Ins.dst = "D1"
  BY <1>2 DEF TwoInstructions, Ins
<1>4. start.reg \in Inputs(code) /\ start.ccr \in CCR
  BY StartCodesTyped DEF Place
<1>5. start.reg = [k \in Registers |-> start.reg[k]]
  BY <1>2, <1>4, ChainInputs
<1>6. /\ AsManual(code[1], start.reg, start.ccr, reg["D0"], ccr, trap)
      /\ reg = [start.reg EXCEPT !["D0"] = reg["D0"]]
  BY <1>3 DEF After
<1>7. ccr \in CCR
  BY <1>6 DEF AsManual
<1>8. /\ reg["D1"] = start.reg["D1"] /\ reg["S1"] = start.reg["S1"]
      /\ reg = [k \in Registers |-> reg[k]]
  BY <1>5, <1>6 DEF Registers
<1>9. ASSUME NEW v, NEW c, NEW t, Retire(v, c, t)
      PROVE  /\ code' = code /\ start' = start /\ at' = 3 /\ reg'["D0"] = reg["D0"]
             /\ reg'["D1"] = v /\ ccr' = c
  <2>1. /\ reg' = [reg EXCEPT !["D1"] = v] /\ ccr' = c /\ at' = at + 1
        /\ code' = code /\ start' = start
    BY <1>3, <1>9 DEF Retire
  <2>2. reg'["D0"] = reg["D0"] /\ reg'["D1"] = v
    BY <1>8, <2>1 DEF Registers
  <2> QED BY <2>1, <2>2
<1> QED BY <1>1, <1>2, <1>3, <1>4, <1>6, <1>7, <1>8, <1>9

\* What the second instruction of a pair may be.
LEMMA SecondAction ==
  ASSUME Place, After, at = 2, Next
  PROVE  LET first == code[1].op
         IN \/ /\ first \in {"ADD", "SUB", "NEG"} /\ Ins.op = Extension(first)
               /\ Narrow(SumOutcome(Ins.op, Half(Ins.bits), Src, Dst, ccr))
            \/ /\ first = "LSL" /\ Ins.op = "ROXL"
               /\ Narrow(ShiftDreg(Ins.op, Ins.bits, reg[Ins.src] % 64, Dst, ccr))
            \/ /\ first \in {"ABCD", "SBCD"} /\ Ins.op = first
               /\ Narrow(DecimalOutcome(Ins.op, Src, Dst, ccr))
<1> DEFINE first == code[1].op
<1>1. TwoInstructions(code[1], code[2]) /\ Ins = code[2]
  BY Second
<1>2. /\ \/ first \in {"ADD", "SUB", "NEG"} /\ Ins.op = Extension(first)
         \/ first = "LSL" /\ Ins.op = "ROXL"
         \/ first \in {"ABCD", "SBCD"} /\ Ins.op = first
      /\ ~Ins.memory
  <2>1. <<first, Ins.op>> \in Pairs /\ ~Ins.memory
    BY <1>1 DEF TwoInstructions
  <2> QED BY <2>1 DEF Pairs, Extension
<1>3. Ins.op \in {"ADDX", "SUBX", "NEGX", "ROXL", "ABCD", "SBCD"}
  BY <1>2 DEF Extension
<1>4. Extended \/ UnaryRmw \/ PackedDecimal \/ ShiftRotate
  BY <1>2, <1>3 DEF Next, Current, Ins, Arithmetic, Extended, UnaryRmw, Test, LogicBinary,
       PackedDecimal, ShiftRotate, ShiftRotateMemory, BitNumbered, TestAndSet,
       ExtendOrSwap, MultiplyWords, DivideLong, CheckBounds, BitOps, Products, Divides
<1>5. CASE Extended
  <2>1. Ins.op \in {"ADDX", "SUBX"}
    BY <1>5 DEF Extended, Current, Ins
  <2>2. Narrow(SumOutcome(Ins.op, Half(Ins.bits), Src, Dst, ccr))
    BY <1>5, <2>1 DEF Extended, SumOutcome
  <2> QED BY <1>2, <2>1, <2>2
<1>6. CASE UnaryRmw
  <2>1. Ins.op = "NEGX"
    BY <1>3, <1>6 DEF UnaryRmw, Current, Ins
  <2>2. Narrow(SumOutcome(Ins.op, Half(Ins.bits), Src, Dst, ccr))
    BY <1>6, <2>1 DEF UnaryRmw, SumOutcome
  <2> QED BY <1>2, <2>1, <2>2
<1>7. CASE PackedDecimal
  <2>1. Ins.op \in {"ABCD", "SBCD"}
    BY <1>3, <1>7 DEF PackedDecimal, Current, Ins, Decimals
  <2>2. Narrow(DecimalOutcome(Ins.op, Src, Dst, ccr))
    BY <1>7, <2>1 DEF PackedDecimal, DecimalOutcome
  <2>3. first \in {"ABCD", "SBCD"} /\ Ins.op = first
    BY <1>2, <2>1 DEF Extension
  <2> QED BY <2>2, <2>3
<1>8. CASE ShiftRotate
  <2>1. Ins.op = "ROXL"
    BY <1>3, <1>8 DEF ShiftRotate, Current, Ins, Shifts, Lefts
  <2>2. Narrow(ShiftDreg(Ins.op, Ins.bits, reg[Ins.src] % 64, Dst, ccr))
    BY <1>8 DEF ShiftRotate
  <2> QED BY <1>2, <2>1, <2>2 DEF Extension
<1> QED BY <1>4, <1>5, <1>6, <1>7, <1>8

\* What the first instruction left, part by part.
LEMMA FirstLeft ==
  ASSUME NEW i, NEW r, NEW c, NEW value, NEW codes, NEW vector, NEW v, NEW k, NEW name,
         AsManual(i, r, c, value, codes, vector), i.op \notin {"SUBX", "NEGX"},
         Manual(i, r[i.src], r[i.dst], c) = [value |-> v, codes |-> k, trap |-> 0],
         name \in DOMAIN k
  PROVE  value = v /\ codes[name] = k[name]
BY DEF AsManual, Defined, OverflowSlips

LEMMA SecondSum ==
  ASSUME Place, After, at = 2, Next, code[1].op \in {"ADD", "SUB", "NEG"} PROVE WideExact'
<1> DEFINE op == code[1].op
           w == Word
           b == 2^w
           c0 == start.ccr
           d0 == start.reg["D0"]
           s0 == start.reg["S0"]
           d1 == start.reg["D1"]
           s1 == start.reg["S1"]
           l == ManualSum(op, w, s0, d0, c0)
           n == ManualSum(Extension(op), w, s1, d1, ccr)
           m == ManualSum(op, 2 * w, s0 + b * s1, d0 + b * d1, c0)
           o == SumOutcome(Ins.op, Half(Ins.bits), Src, Dst, ccr)
           slips == OverflowSlips(Extension(op), w, s1, d1, ccr.x)
<1>1. op \notin Decimals /\ op \in Sums /\ op \notin {"SUBX", "NEGX"} /\ op # "LSL"
  BY DEF Decimals, Sums
<1>2. /\ code \in Chains /\ Len(code) = 2 /\ Ins = code[2] /\ w \in Nat \ {0}
      /\ TwoInstructions(code[1], code[2]) /\ start.reg \in Inputs(code)
      /\ c0 \in CCR /\ ccr \in CCR
      /\ AsManual(code[1], start.reg, c0, reg["D0"], ccr, trap)
      /\ reg["D1"] = d1 /\ reg["S1"] = s1
      /\ code' = code /\ start' = start /\ at' = 3 /\ reg'["D0"] = reg["D0"]
      /\ \A v, c, t : Retire(v, c, t) => reg'["D1"] = v /\ ccr' = c
  BY Second, WidthsOfUnit
<1>3. d0 \in Operands(w) /\ s0 \in Operands(w) /\ d1 \in Operands(w) /\ s1 \in Operands(w)
  BY <1>1, <1>2, ChainInputs DEF Registers
<1>4. /\ code[1].bits = w /\ code[1].dst = "D0" /\ code[1].src = "S0"
      /\ Ins.bits = w /\ Ins.dst = "D1" /\ Ins.src = "S1"
  BY <1>1, <1>2 DEF TwoInstructions
<1>5. Ins.op = Extension(op) /\ Narrow(o)
  BY <1>1, SecondAction
<1> HIDE DEF w
<1>6. Src = s1 /\ Dst = d1
  BY <1>2, <1>3, <1>4, WholeOperand DEF Src, Dst
<1>7. /\ o.value = n.value /\ o.ccr \in CCR
      /\ o.ccr["x"] = n.codes["x"] /\ o.ccr["n"] = n.codes["n"]
      /\ o.ccr["z"] = n.codes["z"] /\ o.ccr["c"] = n.codes["c"]
      /\ slips \/ o.ccr["v"] = n.codes["v"]
  <2> DEFINE K == Codes(Extension(op), w, s1, d1, ccr.x)
  <2>1. Extension(op) \in Sums /\ {"x", "n", "z", "c"} \subseteq K
        /\ (slips \/ "v" \in K)
    BY DEF Extension, Sums, Codes
  <2>2. SumAsManual(Extension(op), w, s1, d1, ccr, o)
    <3> HIDE DEF op, s1, d1
    <3> QED BY <1>2, <1>3, <1>4, <1>5, <1>6, <2>1, SumLeaves
  <2> HIDE DEF o, n, op, slips
  <2>3. \A k \in K : o.ccr[k] = n.codes[k]
    BY <2>2 DEF SumAsManual, n
  <2> HIDE DEF K
  <2> QED BY <2>1, <2>2, <2>3 DEF SumAsManual, n
<1>8. n.value \in Int /\ l.value \in Int
  <2>1. l.value = Unsigned(w, Exact(op, s0, d0, X(c0))) /\ Exact(op, s0, d0, X(c0)) \in Int
    <3>1. d0 \in Int /\ s0 \in Int /\ X(c0) \in Int
      BY <1>2, <1>3, OperandsNat DEF X
    <3>2. Exact(op, s0, d0, X(c0)) \in Int
      BY <1>1, <3>1 DEF Exact
    <3>3. op # "CMP"
      OBVIOUS
    <3> QED BY <3>2, <3>3 DEF ManualSum
  <2>2. n.value = Unsigned(w, Exact(Extension(op), s1, d1, X(ccr)))
        /\ Exact(Extension(op), s1, d1, X(ccr)) \in Int
    <3>1. d1 \in Int /\ s1 \in Int /\ X(ccr) \in Int
      BY <1>2, <1>3, OperandsNat DEF X
    <3>2. Exact(Extension(op), s1, d1, X(ccr)) \in Int
      BY <1>1, <3>1 DEF Exact, Extension
    <3>3. Extension(op) # "CMP"
      BY DEF Extension
    <3> QED BY <3>2, <3>3 DEF ManualSum
  <2>3. \A u \in Int : Unsigned(w, u) \in Int
    BY <1>2, OperandsNat, DivMod DEF Unsigned
  <2> HIDE DEF l, n
  <2> QED BY <2>1, <2>2, <2>3
<1>9. reg["D0"] = l.value /\ ccr["x"] = l.codes["x"] /\ ccr["z"] = l.codes["z"]
  <2> DEFINE k == Manual(code[1], s0, d0, c0)
  <2>1. k = [value |-> Keep(w, d0, l.value), codes |-> l.codes, trap |-> 0]
    <3>1. s0 % 2^w = s0 /\ d0 % 2^w = d0
      BY <1>2, <1>3, WholeOperand
    <3>2. LET e == ManualSum(op, w, s0 % 2^w, d0 % 2^w, c0)
          IN k = [value |-> Keep(w, d0, e.value), codes |-> e.codes, trap |-> 0]
      BY <1>1, <1>4, ManualOfSum
    <3> HIDE DEF k
    <3> QED BY <3>1, <3>2
  <2>2. Keep(w, d0, l.value) = l.value
    <3> HIDE DEF l
    <3> QED BY <1>2, <1>3, <1>8, WholeOperand
  <2>3. "x" \in DOMAIN l.codes /\ "z" \in DOMAIN l.codes
    BY SumCodes
  <2>4. Manual(code[1], start.reg[code[1].src], start.reg[code[1].dst], c0)
          = [value |-> l.value, codes |-> l.codes, trap |-> 0]
    <3> HIDE DEF l
    <3> QED BY <1>4, <2>1, <2>2
  <2> HIDE DEF l, k
  <2> QED BY <1>1, <1>2, <2>3, <2>4, FirstLeft
<1>10. reg'["D1"] = n.value /\ ccr' = o.ccr
  <2>1. Retire(Keep(Ins.bits, reg[Ins.dst], o.value), o.ccr, 0)
    BY <1>5 DEF Narrow
  <2>2. Keep(w, d1, o.value) = n.value
    <3> HIDE DEF o, n
    <3> QED BY <1>2, <1>3, <1>7, <1>8, WholeOperand
  <2> HIDE DEF o, n
  <2> QED BY <1>2, <1>4, <2>1, <2>2
<1>11. /\ m.value = l.value + b * n.value
       /\ m.codes.x = n.codes.x /\ m.codes.n = n.codes.n /\ m.codes.z = n.codes.z
       /\ m.codes.c = n.codes.c /\ m.codes.v = n.codes.v
  <2>1. ccr.x = l.codes.x /\ ccr.z = l.codes.z
    BY <1>9
  <2> HIDE DEF op, s0, d0, s1, d1, c0
  <2>2. op \in {"ADD", "SUB", "NEG"}
    BY DEF op
  <2>3. IsLongSum(op, w, s0, d0, s1, d1, c0, ccr)
    BY <1>2, <1>3, <2>1, <2>2, LongSum
  <2> QED BY <2>3 DEF IsLongSum
<1>12. /\ reg'["D0"] + b * reg'["D1"] = m.value
       /\ \A k \in {"x", "n", "z", "c"} : ccr'[k] = m.codes[k]
       /\ slips \/ \A k \in {"v"} : ccr'[k] = m.codes[k]
  <2> HIDE DEF l, n, m, o, op, slips
  <2>1. reg'["D0"] + b * reg'["D1"] = m.value
    BY <1>2, <1>9, <1>10, <1>11
  <2>2. /\ ccr'["x"] = m.codes["x"] /\ ccr'["n"] = m.codes["n"] /\ ccr'["z"] = m.codes["z"]
        /\ ccr'["c"] = m.codes["c"] /\ (slips \/ ccr'["v"] = m.codes["v"])
    BY <1>7, <1>10, <1>11
  <2> QED BY <2>1, <2>2
<1>13. code'[1].op = op /\ code'[1].bits = w /\ start'.reg = start.reg /\ start'.ccr = c0
  BY <1>2, <1>4
<1> HIDE DEF w, op
<1>14. WideSum(code'[1], start', reg', ccr')
  <2> DEFINE i == code'[1]
  <2>1. m = ManualSum(i.op, 2 * i.bits, Wide(start'.reg, "S0", "S1", 2^i.bits),
                      Wide(start'.reg, "D0", "D1", 2^i.bits), start'.ccr)
    BY <1>13 DEF Wide
  <2>2. /\ Wide(reg', "D0", "D1", 2^i.bits) = m.value
        /\ Same(ccr', m, {"x", "n", "z", "c"})
        /\ slips \/ Same(ccr', m, {"v"})
    <3> HIDE DEF m, slips
    <3> QED BY <1>12, <1>13 DEF Wide, Same
  <2>3. slips <=> OverflowSlips(Extension(i.op), i.bits, start'.reg["S1"], start'.reg["D1"],
                    ManualSum(i.op, i.bits, start'.reg["S0"], start'.reg["D0"],
                              start'.ccr).codes.x)
    BY <1>9, <1>13
  <2> HIDE DEF m, i, slips
  <2> QED BY <2>1, <2>2, <2>3, Zenon DEF WideSum, i
<1>15. WideShift(code'[1], start', reg', ccr') /\ WideDecimal(code'[1], start', reg', ccr')
  <2>1. code'[1].op # "LSL" /\ code'[1].op \notin Decimals
    BY <1>1, <1>13
  <2> QED BY <2>1 DEF WideShift, WideDecimal
<1> QED BY <1>14, <1>15 DEF WideExact


LEMMA SecondShift ==
  ASSUME Place, After, at = 2, Next, code[1].op = "LSL" PROVE WideExact'
<1> DEFINE w == Word
           b == 2^w
           c0 == start.ccr
           d0 == start.reg["D0"]
           d1 == start.reg["D1"]
           l == ManualShift("LSL", w, 1, d0, c0)
           n == ManualShift("ROXL", w, 1, d1, ccr)
           m == ManualShift("LSL", 2 * w, 1, d0 + b * d1, c0)
           o == ShiftDreg("ROXL", w, 1, d1, ccr)
<1>1. /\ "LSL" \notin Decimals /\ "LSL" \notin {"SUBX", "NEGX"} /\ "LSL" \notin {"ADD", "SUB", "NEG"}
      /\ "LSL" \notin {"ABCD", "SBCD"} /\ "LSL" \in Shifts /\ "ROXL" \in Shifts
  BY DEF Decimals, Shifts, Lefts
<1>2. /\ code \in Chains /\ Len(code) = 2 /\ Ins = code[2] /\ w \in Nat \ {0}
      /\ TwoInstructions(code[1], code[2]) /\ start.reg \in Inputs(code)
      /\ c0 \in CCR /\ ccr \in CCR
      /\ AsManual(code[1], start.reg, c0, reg["D0"], ccr, trap)
      /\ reg["D1"] = d1 /\ reg["S1"] = start.reg["S1"]
      /\ code' = code /\ start' = start /\ at' = 3 /\ reg'["D0"] = reg["D0"]
      /\ \A v, c, t : Retire(v, c, t) => reg'["D1"] = v /\ ccr' = c
  BY Second, WidthsOfUnit
<1>3. /\ d0 \in Operands(w) /\ d1 \in Operands(w)
      /\ start.reg["S0"] = 1 /\ start.reg["S1"] = 1
  BY <1>1, <1>2, ChainInputs DEF Registers
<1>4. /\ code[1].bits = w /\ code[1].dst = "D0" /\ code[1].src = "S0" /\ ~code[1].memory
      /\ Ins.bits = w /\ Ins.dst = "D1" /\ Ins.src = "S1"
  BY <1>1, <1>2 DEF TwoInstructions
<1>0. 1 % 64 = 1
  OBVIOUS
<1>5. Narrow(o)
  <2>1. Ins.op = "ROXL" /\ Narrow(ShiftDreg(Ins.op, Ins.bits, reg[Ins.src] % 64, Dst, ccr))
    BY <1>1, SecondAction
  <2> HIDE DEF w
  <2>2. Dst = d1
    BY <1>2, <1>3, <1>4, WholeOperand DEF Dst
  <2>3. reg[Ins.src] % 64 = 1
    BY <1>0, <1>2, <1>3, <1>4
  <2> QED BY <1>4, <2>1, <2>2, <2>3
<1> HIDE DEF w
<1>6. /\ o.value = n.value /\ o.ccr = n.codes
      /\ n.value \in Operands(w) /\ l.value \in Operands(w)
  <2>1. o.value = n.value /\ o.ccr = n.codes
    BY <1>1, <1>2, <1>3, ShiftDregIs
  <2>2. n.value \in Operands(w)
    BY <1>2, <1>3, OneLeft DEF IsOneLeft
  <2>3. l.value \in Operands(w)
    BY <1>2, <1>3, OneLeft DEF IsOneLeft
  <2> QED BY <2>1, <2>2, <2>3
<1>7. n.value \in Int /\ l.value \in Int
  <2> HIDE DEF n, l
  <2> QED BY <1>2, <1>6, OperandsNat
<1>8. reg["D0"] = l.value /\ ccr["x"] = l.codes["x"]
  <2> DEFINE k == Manual(code[1], start.reg["S0"], d0, c0)
  <2>1. k = [value |-> Keep(w, d0, l.value), codes |-> l.codes, trap |-> 0]
    <3>1. d0 % 2^w = d0
      BY <1>2, <1>3, WholeOperand
    <3>2. LET e == ManualShift(code[1].op, code[1].bits,
                               IF code[1].memory THEN 1 ELSE start.reg["S0"] % 64,
                               d0 % 2^(code[1].bits), c0)
          IN k = [value |-> Keep(code[1].bits, d0, e.value), codes |-> e.codes, trap |-> 0]
      BY <1>1, ManualOfShift
    <3>3. (IF code[1].memory THEN 1 ELSE start.reg["S0"] % 64) = 1
      BY <1>0, <1>3, <1>4
    <3> HIDE DEF k
    <3> QED BY <1>4, <3>1, <3>2, <3>3
  <2>2. Keep(w, d0, l.value) = l.value
    <3> HIDE DEF l
    <3> QED BY <1>2, <1>3, <1>7, WholeOperand
  <2>3. "x" \in DOMAIN l.codes
    BY <1>1, <1>2, <1>3, ShiftIsLoop
  <2>4. Manual(code[1], start.reg[code[1].src], start.reg[code[1].dst], c0)
          = [value |-> l.value, codes |-> l.codes, trap |-> 0]
    <3> HIDE DEF l
    <3> QED BY <1>4, <2>1, <2>2
  <2> HIDE DEF l, k
  <2> QED BY <1>1, <1>2, <2>3, <2>4, FirstLeft
<1>9. reg'["D1"] = n.value /\ ccr' = n.codes
  <2>1. Retire(Keep(Ins.bits, reg[Ins.dst], o.value), o.ccr, 0)
    BY <1>5 DEF Narrow
  <2>2. Keep(w, d1, o.value) = n.value
    <3> HIDE DEF o, n
    <3> QED BY <1>2, <1>3, <1>6, <1>7, WholeOperand
  <2> HIDE DEF o, n
  <2> QED BY <1>2, <1>4, <1>6, <2>1, <2>2
<1>10. IsLongShift(w, d0, d1, c0, ccr)
  <2>1. ccr.x = l.codes.x
    BY <1>8
  <2> HIDE DEF d0, d1, c0
  <2> QED BY <1>2, <1>3, <2>1, LongShift
<1>11. /\ reg'["D0"] + b * reg'["D1"] = m.value
       /\ \A k \in {"x", "n", "c"} : ccr'[k] = m.codes[k]
  <2>1. /\ m.value = l.value + b * n.value
        /\ m.codes.x = n.codes.x /\ m.codes.n = n.codes.n /\ m.codes.c = n.codes.c
    BY <1>10 DEF IsLongShift
  <2> HIDE DEF l, n, m, o
  <2> QED BY <1>2, <1>8, <1>9, <2>1
<1>12. code'[1].op = "LSL" /\ code'[1].bits = w /\ start'.reg = start.reg /\ start'.ccr = c0
  BY <1>2, <1>4
<1> HIDE DEF w
<1>13. WideShift(code'[1], start', reg', ccr')
  <2> DEFINE i == code'[1]
  <2>1. m = ManualShift(i.op, 2 * i.bits, 1, Wide(start'.reg, "D0", "D1", 2^i.bits), start'.ccr)
    BY <1>12 DEF Wide
  <2>2. /\ Wide(reg', "D0", "D1", 2^i.bits) = m.value
        /\ Same(ccr', m, {"x", "n", "c"})
    <3> HIDE DEF m
    <3> QED BY <1>11, <1>12 DEF Wide, Same
  <2> HIDE DEF m, i
  <2> QED BY <2>1, <2>2, Zenon DEF WideShift, i
<1>14. WideSum(code'[1], start', reg', ccr') /\ WideDecimal(code'[1], start', reg', ccr')
  <2>1. code'[1].op \notin {"ADD", "SUB", "NEG"} /\ code'[1].op \notin Decimals
    BY <1>1, <1>12
  <2> QED BY <2>1 DEF WideSum, WideDecimal
<1> QED BY <1>13, <1>14 DEF WideExact

LEMMA SecondDecimal ==
  ASSUME Place, After, at = 2, Next, code[1].op \in {"ABCD", "SBCD"} PROVE WideExact'
<1> DEFINE op == code[1].op
           c0 == start.ccr
           d0 == start.reg["D0"]
           s0 == start.reg["S0"]
           d1 == start.reg["D1"]
           s1 == start.reg["S1"]
           l == ManualDecimal(op, FromBcd(s0), FromBcd(d0), 100, c0)
           n == ManualDecimal(op, FromBcd(s1), FromBcd(d1), 100, ccr)
           m == ManualDecimal(op, FromBcd(s0) + 100 * FromBcd(s1),
                              FromBcd(d0) + 100 * FromBcd(d1), 10000, c0)
           o == DecimalOutcome(op, s1, d1, ccr)
<1>1. /\ op \in Decimals /\ op \notin {"SUBX", "NEGX"} /\ op \notin {"ADD", "SUB", "NEG"}
      /\ op # "LSL" /\ op # "NBCD"
  BY DEF Decimals
<1>2. /\ code \in Chains /\ Len(code) = 2 /\ Ins = code[2]
      /\ TwoInstructions(code[1], code[2]) /\ start.reg \in Inputs(code)
      /\ c0 \in CCR /\ ccr \in CCR
      /\ AsManual(code[1], start.reg, c0, reg["D0"], ccr, trap)
      /\ reg["D1"] = d1 /\ reg["S1"] = s1
      /\ code' = code /\ start' = start /\ at' = 3 /\ reg'["D0"] = reg["D0"]
      /\ \A v, c, t : Retire(v, c, t) => reg'["D1"] = v /\ ccr' = c
  BY Second
<1>3. d0 \in Digits /\ s0 \in Digits /\ d1 \in Digits /\ s1 \in Digits
  BY <1>1, <1>2, ChainInputs
<1>4. /\ code[1].bits = 8 /\ code[1].dst = "D0" /\ code[1].src = "S0"
      /\ Ins.bits = 8 /\ Ins.dst = "D1" /\ Ins.src = "S1"
  BY <1>1, <1>2 DEF TwoInstructions
<1>5. /\ FromBcd(d0) \in 0..99 /\ FromBcd(s0) \in 0..99
      /\ FromBcd(d1) \in 0..99 /\ FromBcd(s1) \in 0..99
      /\ d0 % 2^8 = d0 /\ s0 % 2^8 = s0 /\ d1 % 2^8 = d1 /\ s1 % 2^8 = s1
      /\ d0 \div 2^8 = 0 /\ d1 \div 2^8 = 0
  BY <1>3, DigitsFacts
<1>6. \A v \in Int : Keep(8, d0, v) = v /\ Keep(8, d1, v) = v
  <2>1. 2^8 \in Int
    BY WidthsOfUnit, PowerPositive
  <2>2. 0 * 2^8 = 0
    BY <2>1
  <2> QED BY <1>5, <2>2 DEF Keep
<1>7. Narrow(o)
  <2>1. Ins.op = op /\ Narrow(DecimalOutcome(Ins.op, Src, Dst, ccr))
    BY <1>1, SecondAction
  <2>2. Src = s1 /\ Dst = d1
    BY <1>2, <1>4, <1>5 DEF Src, Dst
  <2> QED BY <2>1, <2>2
<1> HIDE DEF op, d0, s0, d1, s1, c0
<1>8. /\ n.decimal \in 0..99 /\ o.value = ToBcd(n.decimal)
      /\ o.ccr.x = n.codes.x /\ o.ccr.z = n.codes.z /\ o.ccr.c = n.codes.c
  BY <1>1, <1>2, <1>5, DecimalIs
<1>9. /\ l.decimal \in 0..99 /\ DOMAIN l.codes = {"x", "z", "c"}
  BY <1>1, <1>2, <1>5, DecimalIs
<1>10. /\ ToBcd(n.decimal) \in Int /\ FromBcd(ToBcd(n.decimal)) = n.decimal
       /\ ToBcd(l.decimal) \in Int /\ FromBcd(ToBcd(l.decimal)) = l.decimal
  <2> DEFINE a == n.decimal
             e == l.decimal
  <2>1. a \in 0..99 /\ e \in 0..99
    BY <1>8, <1>9
  <2> HIDE DEF a, e
  <2>2. /\ ToBcd(a) \in 0..255 /\ FromBcd(ToBcd(a)) = a
        /\ ToBcd(e) \in 0..255 /\ FromBcd(ToBcd(e)) = e
    BY <2>1, BcdBack
  <2>3. ToBcd(a) \in Int /\ ToBcd(e) \in Int
    BY <2>2
  <2> QED BY <2>2, <2>3 DEF a, e
<1>11. reg["D0"] = ToBcd(l.decimal) /\ ccr["x"] = l.codes["x"] /\ ccr["z"] = l.codes["z"]
  <2> DEFINE k == Manual(code[1], s0, d0, c0)
             e == ManualDecimal(code[1].op, FromBcd(s0 % 2^(code[1].bits)),
                                FromBcd(d0 % 2^(code[1].bits)), 100, c0)
  <2>1. k = [value |-> Keep(code[1].bits, d0, ToBcd(e.decimal)), codes |-> e.codes, trap |-> 0]
    BY <1>1, ManualOfDecimal DEF op
  <2>2. e = l
    BY <1>4, <1>5 DEF op
  <2> HIDE DEF l, k, e
  <2>3. k = [value |-> ToBcd(l.decimal), codes |-> l.codes, trap |-> 0]
    BY <1>4, <1>6, <1>10, <2>1, <2>2
  <2>4. Manual(code[1], start.reg[code[1].src], start.reg[code[1].dst], start.ccr)
          = [value |-> ToBcd(l.decimal), codes |-> l.codes, trap |-> 0]
    BY <1>4, <2>3 DEF k, s0, d0, c0
  <2>5. AsManual(code[1], start.reg, start.ccr, reg["D0"], ccr, trap) /\ code[1].op \notin {"SUBX", "NEGX"}
    BY <1>1, <1>2 DEF op, c0
  <2>6. "x" \in DOMAIN l.codes /\ "z" \in DOMAIN l.codes
    BY <1>9
  <2> QED BY <2>4, <2>5, <2>6, FirstLeft
<1>12. reg'["D1"] = ToBcd(n.decimal) /\ ccr' = o.ccr
  <2>1. Retire(Keep(Ins.bits, reg[Ins.dst], o.value), o.ccr, 0)
    BY <1>7 DEF Narrow
  <2>2. Keep(8, d1, o.value) = ToBcd(n.decimal)
    <3> HIDE DEF o, n
    <3> QED BY <1>6, <1>8, <1>10
  <2> HIDE DEF o, n
  <2> QED BY <1>2, <1>4, <2>1, <2>2
<1>13. IsLongDecimal(op, FromBcd(s0), FromBcd(d0), FromBcd(s1), FromBcd(d1), c0, ccr)
  <2>1. ccr.x = l.codes.x /\ ccr.z = l.codes.z
    BY <1>11
  <2>2. op \in {"ABCD", "SBCD"}
    BY DEF op
  <2> QED BY <1>2, <1>5, <2>1, <2>2, LongDecimal
<1>14. /\ FromBcd(reg'["D0"]) + 100 * FromBcd(reg'["D1"]) = m.decimal
       /\ \A k \in {"x", "z", "c"} : ccr'[k] = m.codes[k]
  <2>1. /\ m.decimal = l.decimal + 100 * n.decimal
        /\ m.codes.x = n.codes.x /\ m.codes.z = n.codes.z /\ m.codes.c = n.codes.c
    BY <1>13 DEF IsLongDecimal
  <2> HIDE DEF l, n, m, o
  <2> QED BY <1>2, <1>8, <1>10, <1>11, <1>12, <2>1
<1>15. code'[1].op = op /\ start'.reg = start.reg /\ start'.ccr = c0
  BY <1>2 DEF op, c0
<1> HIDE DEF op
<1>16. WideDecimal(code'[1], start', reg', ccr')
  <2> DEFINE i == code'[1]
             r == start'.reg
  <2>1. m = ManualDecimal(i.op, FromBcd(r["S0"]) + 100 * FromBcd(r["S1"]),
                          FromBcd(r["D0"]) + 100 * FromBcd(r["D1"]), 10000, start'.ccr)
    <3>1. /\ i.op = op /\ start'.ccr = c0
          /\ r["S0"] = s0 /\ r["S1"] = s1 /\ r["D0"] = d0 /\ r["D1"] = d1
      BY <1>15 DEF s0, s1, d0, d1
    <3> HIDE DEF i, r, s0, s1, d0, d1, c0
    <3> QED BY <3>1
  <2>2. /\ FromBcd(reg'["D0"]) + 100 * FromBcd(reg'["D1"]) = m.decimal
        /\ Same(ccr', m, {"x", "z", "c"})
    <3> HIDE DEF m
    <3> QED BY <1>14 DEF Same
  <2> HIDE DEF m
  <2> QED BY <2>1, <2>2 DEF WideDecimal
<1>17. WideSum(code'[1], start', reg', ccr') /\ WideShift(code'[1], start', reg', ccr')
  <2>1. code'[1].op \notin {"ADD", "SUB", "NEG"} /\ code'[1].op # "LSL"
    BY <1>1, <1>15
  <2> QED BY <2>1 DEF WideSum, WideShift
<1> QED BY <1>16, <1>17 DEF WideExact
-----------------------------------------------------------------------------
(* The invariant, and the properties of the run.                            *)

Exactly == Place /\ After /\ WideExact

LEMMA ExactlyInit == Init => Exactly
<1> SUFFICES ASSUME Init PROVE Exactly
  OBVIOUS
<1>1. Place /\ at = 1
  BY PlaceInit DEF Init
<1>2. After
  BY <1>1 DEF After
<1>3. WideExact
  BY <1>1 DEF WideExact, Done
<1> QED BY <1>1, <1>2, <1>3 DEF Exactly

LEMMA ExactlyStep == Exactly /\ [Next]_vars => Exactly'
<1> SUFFICES ASSUME Exactly, [Next]_vars PROVE Exactly'
  OBVIOUS
<1>1. Place /\ After /\ WideExact
  BY DEF Exactly
<1>2. Place'
  BY <1>1, PlaceStep
<1>3. CASE UNCHANGED vars
  <2>1. After'
    BY <1>1, <1>3 DEF After, vars
  <2>2. WideExact'
    BY <1>1, <1>3 DEF WideExact, vars, Done
  <2> QED BY <1>2, <2>1, <2>2 DEF Exactly
<1>4. CASE Next
  <2>1. at <= Len(code) /\ at' = at + 1 /\ code' = code /\ Len(code) \in {1, 2} /\ at \in {1, 2}
    <3>1. at <= Len(code) /\ at' = at + 1 /\ code' = code
      BY <1>4, NextShape DEF Retire
    <3>2. Len(code) \in {1, 2} /\ at \in 1 .. Len(code) + 1
      BY <1>1, CodeLength DEF Place
    <3>3. at \in {1, 2}
      <4>1. CASE Len(code) = 1
        BY <3>1, <3>2, <4>1
      <4>2. CASE Len(code) = 2
        BY <3>1, <3>2, <4>2
      <4> QED BY <3>2, <4>1, <4>2
    <3> QED BY <3>1, <3>2, <3>3
  <2>2. CASE at = 1
    <3>1. After'
      BY <1>1, <1>4, <2>2, FirstStep
    <3>2. WideExact'
      BY <2>1, <2>2 DEF WideExact, Done
    <3> QED BY <1>2, <3>1, <3>2 DEF Exactly
  <2>3. CASE at = 2
    <3>1. After'
      BY <2>1, <2>3 DEF After
    <3>2. \/ code[1].op \in {"ADD", "SUB", "NEG"}
          \/ code[1].op = "LSL"
          \/ code[1].op \in {"ABCD", "SBCD"}
      BY <1>1, <1>4, <2>3, SecondAction
    <3>3. WideExact'
      BY <1>1, <1>4, <2>3, <3>2, SecondSum, SecondShift, SecondDecimal
    <3> QED BY <1>2, <3>1, <3>3 DEF Exactly
  <2> QED BY <2>1, <2>2, <2>3
<1> QED BY <1>3, <1>4

LEMMA ExactlyImplies == Exactly => ArithmeticExact
<1> SUFFICES ASSUME Exactly PROVE InstructionExact
  BY DEF Exactly, ArithmeticExact
<1> SUFFICES ASSUME Done, Len(code) = 1
             PROVE  LET i == code[1]
                        m == Manual(i, start.reg[i.src], start.reg[i.dst], start.ccr)
                    IN /\ reg[i.dst] = m.value
                       /\ trap = m.trap
                       /\ \A k \in Defined(i, start.reg[i.src], start.reg[i.dst],
                                           start.ccr, m) : ccr[k] = m.codes[k]
  BY DEF InstructionExact
<1>1. at = 2
  BY DEF Exactly, Place, Done
<1> QED BY <1>1 DEF Exactly, After, AsManual

\* Every instruction c_emitter.c prints for the arithmetic, the logic, the bits,
\* the shifts, the multiply and divide and the decimal digits leaves the value,
\* the codes and the trap of the MC68000's manual, and the pairs that carry X
\* and Z make one number of two registers: for every width of a byte, every
\* shift count and every operand.  One code is excepted, and only there: V
\* behind SUBX or NEGX of the greatest signed source with X set
\* (OverflowSlips), which the printed C gets wrong.
THEOREM ArithmeticIsExact == Spec => []ArithmeticExact
<1>1. Init => Exactly
  BY ExactlyInit
<1>2. Exactly /\ [Next]_vars => Exactly'
  BY ExactlyStep
<1>3. Exactly => ArithmeticExact
  BY ExactlyImplies
<1> QED BY <1>1, <1>2, <1>3, PTL DEF Spec

LEMMA CompareLeaves == Exactly => ConditionsOrder
<1> SUFFICES ASSUME Exactly, Done, code[1].op = "CMP"
             PROVE  LET bits == code[1].bits
                    IN Ordered(Half(bits), start.reg["S0"] % 2^bits,
                               start.reg["D0"] % 2^bits, ccr)
  BY DEF ConditionsOrder
<1> DEFINE i == code[1]
           bits == i.bits
           s == start.reg["S0"]
           d == start.reg["D0"]
           c == start.ccr
           src == s % 2^bits
           dst == d % 2^bits
           o == Cmp(Half(bits), src, dst, c)
           e == ManualSum("CMP", bits, src, dst, c)
<1>1. Place /\ After
  BY DEF Exactly
<1>2. code \in Singles
  <2>1. code \notin Chains
    <3> SUFFICES ASSUME code \in Chains PROVE FALSE
      OBVIOUS
    <3>1. <<code[1].op, code[2].op>> \in Pairs
      BY ChainFacts DEF TwoInstructions
    <3> QED BY <3>1 DEF Pairs
  <2> QED BY <1>1, <2>1 DEF Place
<1>3. Len(code) = 1 /\ OneInstruction(i) /\ at = 2
  <2>1. Len(code) = 1 /\ OneInstruction(i)
    BY <1>2, SingleFacts
  <2>2. at \in 1 .. Len(code) + 1 /\ at > Len(code)
    BY <1>1 DEF Place, Done
  <2> QED BY <2>1, <2>2
<1>4. bits \in Nat \ {0} /\ i.dst = "D0" /\ i.src = "S0"
  <2>1. bits \in {Byte, Word} /\ i.dst = "D0" /\ i.src = "S0"
    BY <1>3 DEF OneInstruction, Decimals, Products, Divides, Shifts, Lefts, BitOps
  <2> QED BY <2>1, WidthsOfUnit
<1>5. c \in CCR /\ s \in Nat /\ d \in Nat
  BY <1>1, <1>2, SingleInputs, StartCodesTyped DEF Place
<1>6. AsManual(i, start.reg, c, reg["D0"], ccr, trap)
  BY <1>1, <1>3, <1>4 DEF After
<1>7. src \in Operands(bits) /\ dst \in Operands(bits)
  <2> HIDE DEF bits, s, d
  <2> QED BY <1>4, <1>5, ResidueOperand
<1>8. SumAsManual("CMP", bits, src, dst, c, o)
  <2>1. SumOutcome("CMP", Half(bits), src, dst, c) = o
    BY DEF SumOutcome
  <2>2. "CMP" \in Sums
    BY DEF Sums
  <2> HIDE DEF bits, src, dst, o, c
  <2> QED BY <1>4, <1>5, <1>7, <2>1, <2>2, SumLeaves
<1>9. Manual(i, s, d, c) = [value |-> Keep(bits, d, e.value), codes |-> e.codes, trap |-> 0]
  <2>1. i.op \in Sums
    BY DEF Sums
  <2>2. LET m == ManualSum(i.op, i.bits, s % 2^i.bits, d % 2^i.bits, c)
        IN Manual(i, s, d, c)
             = [value |-> Keep(i.bits, d, m.value), codes |-> m.codes, trap |-> 0]
    <3> HIDE DEF i, s, d, c, bits
    <3> QED BY <2>1, ManualOfSum
  <2> QED BY <2>2
<1>10. ccr \in CCR /\ \A k \in {"x", "n", "z", "v", "c"} : ccr[k] = e.codes[k]
  <2>1. DOMAIN e.codes = {"x", "n", "z", "v", "c"}
    BY SumCodes
  <2>2. Manual(i, start.reg[i.src], start.reg[i.dst], c)
          = [value |-> Keep(bits, d, e.value), codes |-> e.codes, trap |-> 0]
    <3> HIDE DEF e
    <3> QED BY <1>4, <1>9
  <2>3. i.op \notin {"SUBX", "NEGX"}
    OBVIOUS
  <2> HIDE DEF e, i, c, d, bits
  <2>4. \A k \in {"x", "n", "z", "v", "c"} : ccr[k] = e.codes[k]
    BY <1>6, <2>1, <2>2, <2>3, FirstLeft
  <2> QED BY <1>6, <2>4 DEF AsManual
<1>11. o.ccr \in CCR /\ \A k \in {"x", "n", "z", "v", "c"} : o.ccr[k] = e.codes[k]
  <2> HIDE DEF o, e
  <2> QED BY <1>8 DEF SumAsManual, Codes, OverflowSlips, e
<1>12. ccr = o.ccr
  <2> HIDE DEF o, e
  <2> QED BY <1>10, <1>11 DEF CCR
<1>13. Ordered(Half(bits), src, dst, o.ccr)
  <2>1. Half(bits) \in Nat \ {0} /\ src \in Value(Half(bits)) /\ dst \in Value(Half(bits))
    BY <1>4, <1>7, Widths
  <2> HIDE DEF bits, src, dst, c
  <2> QED BY <1>5, <2>1, CompareOrders
<1> HIDE DEF o
<1> QED BY <1>12, <1>13

\* A branch behind CMP is taken just when the operands stand in the relation
\* its condition is named for, as unsigned and as signed numbers: for every
\* width and every operand.
THEOREM BranchesOrder == Spec => []ConditionsOrder
<1>1. Init => Exactly
  BY ExactlyInit
<1>2. Exactly /\ [Next]_vars => Exactly'
  BY ExactlyStep
<1>3. Exactly => ConditionsOrder
  BY CompareLeaves
<1> QED BY <1>1, <1>2, <1>3, PTL DEF Spec
=============================================================================

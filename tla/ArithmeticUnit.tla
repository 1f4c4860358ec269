--------------------------- MODULE ArithmeticUnit ---------------------------
(***************************************************************************)
(* Generated code at work on data registers: a few instructions one behind *)
(* the other, each the C that c_emitter.c prints for it, on registers of    *)
(* 4 * ByteBits bits.  What they leave is compared with what the MC68000's  *)
(* manual says of them, put in terms of whole numbers: one instruction      *)
(* (Singles), a number of two registers (Chains), a compare before a        *)
(* branch.                                                                  *)
(***************************************************************************)
EXTENDS M68kShift, FiniteSets, Sequences

CONSTANTS ByteBits,   \* the bits of a byte; a word has two, a long four of them
          Counts,     \* the shift counts
          Digits      \* the packed decimal bytes

ASSUME UnitAssumption ==
    /\ ByteBits \in Nat \ {0} /\ Counts \subseteq Nat
    /\ Digits \subseteq 0..255
    /\ \A b \in Digits : b \div 16 <= 9 /\ (b % 16) <= 9

Byte == ByteBits
Word == 2 * ByteBits
Long == 4 * ByteBits

Registers == {"D0", "D1", "S0", "S1"}

VARIABLES code,   \* the instructions
          at,     \* the one that is next
          reg,    \* g_ng_m68k.d
          ccr,    \* the condition codes of g_ng_m68k.sr
          trap,   \* the exception that was taken, or 0
          start   \* reg and ccr at the beginning

vars == <<code, at, reg, ccr, trap, start>>

-----------------------------------------------------------------------------
(* The programs, and the register contents each is run with.               *)

Instr(op, bits, dst, src) ==
    [op |-> op, bits |-> bits, dst |-> dst, src |-> src, memory |-> FALSE]

\* A word in memory, shifted in place; D0 stands for it.
MemoryShift(op) == <<[Instr(op, Word, "D0", "S0") EXCEPT !.memory = TRUE]>>

Binary   == {"ADD", "SUB", "CMP", "ADDX", "SUBX", "AND", "OR", "EOR"}
Unary    == {"NEG", "NEGX", "NOT", "TST"}
Decimals == {"ABCD", "SBCD", "NBCD"}
Products == {"MULU", "MULS"}
Divides  == {"DIVU", "DIVS"}
BitOps   == {"BTST", "BCHG", "BCLR", "BSET"}

Single(op, bits) == <<Instr(op, bits, "D0", "S0")>>

Singles ==
    {Single(op, bits) : op \in Binary \cup Unary, bits \in {Byte, Word}}
      \cup {Single(op, 8) : op \in Decimals}
      \cup {Single(op, Word) : op \in Products \cup Divides \cup {"CHK"}}
      \cup {Single(op, bits) : op \in Shifts, bits \in {Byte, Word}}
      \cup {MemoryShift(op) : op \in Shifts}
      \cup {Single(op, bits) : op \in BitOps, bits \in {Byte, Long}}
      \cup {Single("TAS", Byte), Single("EXT", Word), Single("EXT", Long),
            Single("SWAP", Long)}

\* The low part of a number in D0, the high one in D1: the carry goes from
\* one to the other in X.
Chain(first, second, bits) ==
    <<Instr(first, bits, "D0", "S0"), Instr(second, bits, "D1", "S1")>>

Chains ==
    {Chain("ADD", "ADDX", Word), Chain("SUB", "SUBX", Word),
     Chain("NEG", "NEGX", Word), Chain("LSL", "ROXL", Word),
     Chain("ABCD", "ABCD", 8), Chain("SBCD", "SBCD", 8)}

Operands(bits) == 0 .. 2^bits - 1

\* A register whose part beyond the operand is not nought.
Dirty(bits) == {v + u * 2^bits : v \in Operands(bits), u \in {0, 1}}

RegisterSets(d0, s0, d1, s1) ==
    {[D0 |-> a, S0 |-> b, D1 |-> c, S1 |-> d] :
        a \in d0, b \in s0, c \in d1, d \in s1}

Inputs(prog) ==
    LET i == prog[1]
        wide == Len(prog) = 2
        d == CASE i.op \in Decimals -> Digits
               [] i.op \in Divides \cup {"SWAP", "EXT"} \cup BitOps -> Operands(Long)
               [] wide /\ i.op \notin Decimals -> Operands(i.bits)
               [] OTHER -> Dirty(i.bits)
        s == CASE i.op \in Decimals \ {"NBCD"} -> Digits
               [] i.op \in Shifts -> IF wide \/ i.memory THEN {1} ELSE Counts
               [] i.op \in BitOps -> Counts
               [] i.op \in Binary \cup Products \cup Divides \cup {"CHK"} ->
                    Operands(i.bits)
               [] OTHER -> {0}
    IN IF wide THEN RegisterSets(d, s, d, s) ELSE RegisterSets(d, s, {0}, {0})

\* Codes that would show if an instruction left one behind, or forgot one.
AllCodes(x, b) == [x |-> x, n |-> b, z |-> b, v |-> b, c |-> b]
VariedCodes == {AllCodes(x, b) : x \in BOOLEAN, b \in BOOLEAN}
StartCodes(prog) ==
    IF prog[1].op \in Decimals \/ Len(prog) = 1
    THEN VariedCodes
    ELSE {AllCodes(TRUE, TRUE)}

Init ==
    /\ code \in Singles \cup Chains
    /\ reg \in Inputs(code)
    /\ ccr \in StartCodes(code)
    /\ at = 1 /\ trap = 0
    /\ start = [reg |-> reg, ccr |-> ccr]

-----------------------------------------------------------------------------
(* The instructions.  A destination narrower than its register leaves the  *)
(* rest of it (ng_dreg_keep_mask).                                          *)

Current(ops) == at <= Len(code) /\ trap = 0 /\ code[at].op \in ops

Ins == code[at]
Src == reg[Ins.src] % 2^Ins.bits
Dst == reg[Ins.dst] % 2^Ins.bits

Retire(value, codes, vector) ==
    /\ reg' = [reg EXCEPT ![Ins.dst] = value]
    /\ ccr' = codes
    /\ trap' = vector
    /\ at' = at + 1
    /\ UNCHANGED <<code, start>>

Narrow(o) == Retire(Keep(Ins.bits, reg[Ins.dst], o.value), o.ccr, 0)

\* emit_alu_ea_to_dreg and the other forms of ADD, SUB and CMP
Arithmetic ==
    /\ Current({"ADD", "SUB", "CMP"})
    /\ LET h == Half(Ins.bits)
       IN Narrow(CASE Ins.op = "ADD" -> Add(h, Src, Dst)
                   [] Ins.op = "SUB" -> Sub(h, Src, Dst)
                   [] Ins.op = "CMP" -> Cmp(h, Src, Dst, ccr))

\* emit_addsubx
Extended ==
    /\ Current({"ADDX", "SUBX"})
    /\ LET h == Half(Ins.bits)
       IN Narrow(IF Ins.op = "ADDX" THEN Addx(h, Src, Dst, ccr)
                 ELSE Subx(h, Src, Dst, ccr))

\* emit_unary_rmw_generic
UnaryRmw ==
    /\ Current({"NEG", "NEGX", "NOT"})
    /\ LET h == Half(Ins.bits)
       IN Narrow(CASE Ins.op = "NEG"  -> Neg(h, Dst)
                   [] Ins.op = "NEGX" -> Negx(h, Dst, ccr)
                   [] Ins.op = "NOT"  -> ng_set_nz(h, Complement(Ins.bits, Dst), ccr))

\* emit_tst_generic, and the codes of every MOVE
Test ==
    /\ Current({"TST"})
    /\ Narrow(ng_set_nz(Half(Ins.bits), Dst, ccr))

\* emit_logic_binary_generic, emit_logical_imm_generic
LogicBinary ==
    /\ Current({"AND", "OR", "EOR"})
    /\ Narrow(Logic(Ins.op, Ins.bits, Src, Dst, ccr))

\* emit_abcd_sbcd, emit_nbcd_core
PackedDecimal ==
    /\ Current(Decimals)
    /\ Narrow(CASE Ins.op = "ABCD" -> Abcd(Src, Dst, ccr)
                [] Ins.op = "SBCD" -> Sbcd(Src, Dst, ccr)
                [] Ins.op = "NBCD" -> Nbcd(Dst, ccr))

\* emit_shift_rotate_dreg: the count is the register's low six bits.
ShiftRotate ==
    /\ Current(Shifts) /\ ~Ins.memory
    /\ Narrow(ShiftDreg(Ins.op, Ins.bits, reg[Ins.src] % 64, Dst, ccr))

\* emit_shift_rotate_memory
ShiftRotateMemory ==
    /\ Current(Shifts) /\ Ins.memory
    /\ Narrow(ShiftMemory(Ins.op, Ins.bits, Dst, ccr))

\* emit_bit_imm_generic
BitNumbered ==
    /\ Current(BitOps)
    /\ Narrow(BitOp(Ins.op, Ins.bits, reg[Ins.src], Dst, ccr))

\* emit_tas_generic
TestAndSet ==
    /\ Current({"TAS"})
    /\ Narrow(Tas(Ins.bits, Dst, ccr))

ExtendOrSwap ==
    /\ Current({"EXT", "SWAP"})
    /\ Narrow(IF Ins.op = "EXT" THEN Ext(Ins.bits, Dst, ccr)
              ELSE Swap(Ins.bits, Dst, ccr))

\* emit_multiply
MultiplyWords ==
    /\ Current(Products)
    /\ LET o == Multiply(Ins.op, Ins.bits, Src, reg[Ins.dst], ccr)
       IN Retire(o.value, o.ccr, 0)

\* emit_divide
DivideLong ==
    /\ Current(Divides)
    /\ LET o == Divide(Ins.op, Ins.bits, Src, reg[Ins.dst], ccr)
       IN Retire(o.value, o.ccr, o.trap)

\* emit_chk
CheckBounds ==
    /\ Current({"CHK"})
    /\ LET o == Chk(Ins.bits, Src, reg[Ins.dst], ccr)
       IN Retire(o.value, o.ccr, o.trap)

Next ==
    \/ Arithmetic \/ Extended \/ UnaryRmw \/ Test \/ LogicBinary
    \/ PackedDecimal \/ ShiftRotate \/ ShiftRotateMemory \/ BitNumbered
    \/ TestAndSet \/ ExtendOrSwap \/ MultiplyWords \/ DivideLong \/ CheckBounds

Spec == Init /\ [][Next]_vars

-----------------------------------------------------------------------------
(* What the manual says, in whole numbers: the value an instruction leaves *)
(* and the codes it defines, as a function of the codes' names.            *)

Fits(bits, n) == -Half(bits) <= n /\ n < Half(bits)
Least(a, b) == IF a < b THEN a ELSE b

\* A sum before it is cut to the operand's width.
Exact(op, src, dst, x) ==
    CASE op = "ADD"  -> dst + src
      [] op = "ADDX" -> dst + src + x
      [] op \in {"SUB", "CMP"} -> dst - src
      [] op = "SUBX" -> dst - src - x
      [] op = "NEG"  -> -dst
      [] op = "NEGX" -> -dst - x

ManualOverflow(op, bits, src, dst, codes) ==
    ~Fits(bits, Exact(op, Signed(bits, src), Signed(bits, dst), X(codes)))

ManualSum(op, bits, src, dst, codes) ==
    LET u == Exact(op, src, dst, X(codes))
        value == Unsigned(bits, u)
        c == u \notin Operands(bits)
    IN [value |-> IF op = "CMP" THEN dst ELSE value,
        codes |-> [x |-> IF op = "CMP" THEN codes.x ELSE c,
                   n |-> Signed(bits, value) < 0,
                   z |-> value = 0 /\ (op \in {"ADDX", "SUBX", "NEGX"} => codes.z),
                   v |-> ManualOverflow(op, bits, src, dst, codes),
                   c |-> c]]

\* bits bits of y, turned left by k.
Turn(bits, y, k) == ((y * 2^k) % 2^bits) + ((y * 2^k) \div 2^bits)

ManualShift(op, bits, count, d, codes) ==
    LET m == Least(count, bits + 1)       \* more rounds change nothing
        s == Signed(bits, d)
        wide == bits + 1                  \* with X above the operand
        k == count % wide
        turned == Turn(wide, d + X(codes) * 2^bits,
                       IF op = "ROXL" THEN k ELSE (wide - k) % wide)
        value ==
            CASE op \in {"LSL", "ASL"} -> Unsigned(bits, d * 2^m)
              [] op = "LSR" -> d \div 2^m
              [] op = "ASR" -> Unsigned(bits, s \div 2^m)
              [] op = "ROL" -> Turn(bits, d, count % bits)
              [] op = "ROR" -> Turn(bits, d, (bits - (count % bits)) % bits)
              [] op \in Extends -> Unsigned(bits, turned)
        out ==                            \* the last bit that left
            CASE op \in Extends -> Bit(turned, bits)
              [] op \in {"LSL", "ASL"} -> Bit(d * 2^m, bits)
              [] op = "LSR" -> Bit(2 * d, m)
              [] op = "ASR" -> Bit(2 * s, m)
              [] op = "ROL" -> Bit(value, 0)
              [] op = "ROR" -> Bit(value, bits - 1)
        c == out = 1 /\ (op \in Extends \/ count # 0)
    IN [value |-> value,
        codes |-> [x |-> IF op \in Rotates \/ count = 0 THEN codes.x ELSE c,
                   n |-> Signed(bits, value) < 0,
                   z |-> value = 0,
                   v |-> op = "ASL" /\ ~Fits(bits, s * 2^m),
                   c |-> c]]

\* dst and src are below span, a hundred for each byte; N and V are
\* undefined.
ManualDecimal(op, src, dst, span, codes) ==
    LET exact == CASE op = "ABCD" -> dst + src + X(codes)
                   [] op = "SBCD" -> dst - src - X(codes)
                   [] op = "NBCD" -> -dst - X(codes)
        carry == exact < 0 \/ exact >= span
    IN [decimal |-> exact % span,
        codes |-> [x |-> carry, c |-> carry,
                   z |-> codes.z /\ (exact % span) = 0]]

NZ(bits, value, codes) ==
    [x |-> codes.x, n |-> Signed(bits, value) < 0, z |-> value = 0,
     v |-> FALSE, c |-> FALSE]

\* The quotient and the remainder that a division is defined by, if they fit.
IsQuotient(a, b, q, r) ==
    /\ a = q * b + r /\ Abs(r) < Abs(b)
    /\ r = 0 \/ (r < 0) = (a < 0)

ManualDivide(op, src, dst, codes) ==
    LET signed == op = "DIVS"
        a == IF signed THEN Signed(Long, dst) ELSE dst
        b == IF signed THEN Signed(Word, src) ELSE src
        quotients == IF signed THEN -Half(Word) .. Half(Word) - 1 ELSE Operands(Word)
        fitting == {q \in quotients : IsQuotient(a, b, q, a - q * b)}
        q == CHOOSE q \in fitting : TRUE
    IN IF b = 0 THEN [value |-> dst, trap |-> 5, codes |-> [x |-> codes.x]]
       ELSE IF fitting = {}
       THEN [value |-> dst, trap |-> 0,
             codes |-> [x |-> codes.x, v |-> TRUE, c |-> FALSE]]
       ELSE [value |-> Unsigned(Word, q) + 2^Word * Unsigned(Word, a - q * b),
             trap |-> 0, codes |-> NZ(Word, Unsigned(Word, q), codes)]

\* The number whose bits are those of the operands, joined one by one.
Joined(op, d, s) ==
    CASE op = "AND" -> d /\ s [] op = "OR" -> d \/ s
      [] op = "EOR" -> d # s  [] op = "NOT" -> ~d

ManualLogic(op, bits, src, dst) ==
    CHOOSE v \in Operands(bits) :
        \A k \in 0..(bits - 1) :
            (Bit(v, k) = 1) = Joined(op, Bit(dst, k) = 1, Bit(src, k) = 1)

\* One instruction on the whole register d: what it leaves there.
Manual(i, s, d, codes) ==
    LET src == s % 2^i.bits
        dst == d % 2^i.bits
        Part(m) == [value |-> Keep(i.bits, d, m.value), codes |-> m.codes, trap |-> 0]
        Plain(v) == Part([value |-> v, codes |-> NZ(i.bits, v, codes)])
    IN CASE i.op \in {"ADD", "ADDX", "SUB", "SUBX", "CMP", "NEG", "NEGX"} ->
              Part(ManualSum(i.op, i.bits, src, dst, codes))
         [] i.op \in Shifts ->
              Part(ManualShift(i.op, i.bits, IF i.memory THEN 1 ELSE s % 64, dst, codes))
         [] i.op \in Decimals ->
              LET m == ManualDecimal(i.op, FromBcd(src), FromBcd(dst), 100, codes)
              IN Part([value |-> ToBcd(m.decimal), codes |-> m.codes])
         [] i.op \in {"AND", "OR", "EOR", "NOT"} ->
              Plain(ManualLogic(i.op, i.bits, src, dst))
         [] i.op = "TST" -> Plain(dst)
         [] i.op \in BitOps ->
              LET k == s % i.bits
                  other == IF Bit(dst, k) = 1 THEN dst - 2^k ELSE dst + 2^k
                  want == CASE i.op = "BTST" -> Bit(dst, k)
                            [] i.op = "BCHG" -> 1 - Bit(dst, k)
                            [] i.op = "BCLR" -> 0
                            [] i.op = "BSET" -> 1
              IN Part([value |-> IF Bit(dst, k) = want THEN dst ELSE other,
                       codes |-> [codes EXCEPT !.z = Bit(dst, k) = 0]])
         [] i.op = "TAS" ->
              Part([value |-> IF dst < Half(i.bits) THEN dst + Half(i.bits) ELSE dst,
                    codes |-> NZ(i.bits, dst, codes)])
         [] i.op = "EXT" ->
              Plain(Unsigned(i.bits, Signed(i.bits \div 2, dst % 2^(i.bits \div 2))))
         [] i.op = "SWAP" -> Plain((dst % 2^Word) * 2^Word + (dst \div 2^Word))
         [] i.op = "MULU" ->
              [value |-> dst * src, codes |-> NZ(Long, dst * src, codes), trap |-> 0]
         [] i.op = "MULS" ->
              LET v == Unsigned(Long, Signed(Word, dst) * Signed(Word, src))
              IN [value |-> v, codes |-> NZ(Long, v, codes), trap |-> 0]
         [] i.op \in Divides -> ManualDivide(i.op, src, d, codes)
         [] i.op = "CHK" ->
              LET v == Signed(Word, dst)
              IN IF 0 <= v /\ v <= Signed(Word, src)
                 THEN [value |-> d, codes |-> [x |-> codes.x], trap |-> 0]
                 ELSE [value |-> d, codes |-> [x |-> codes.x, n |-> v < 0], trap |-> 6]

\* The one place where the printed C is not the MC68000: emit_addsubx and
\* emit_unary_rmw_generic take the sign of the source with X already added in,
\* so that with X set the greatest signed source turns negative, and V of SUBX
\* and of NEGX is wrong.  There V is not compared; everywhere else it is.
OverflowSlips(op, bits, src, dst, x) ==
    /\ x
    /\ \/ op = "SUBX" /\ src = Half(bits) - 1
       \/ op = "NEGX" /\ dst = Half(bits) - 1

\* The codes that the manual defines and the generated code gets right.
Defined(i, s, d, codes, m) ==
    DOMAIN m.codes
      \ (IF OverflowSlips(i.op, i.bits, s % 2^i.bits, d % 2^i.bits, codes.x)
         THEN {"v"} ELSE {})

-----------------------------------------------------------------------------
(* Properties.                                                             *)

Done == at > Len(code)

\* One instruction: each instruction leaves the value, the rest of the register,
\* the codes X, N, Z, V and C and the trap that the MC68000 leaves, on every
\* operand: the carries, the shift loops beyond the operand's width and with a
\* count of nought, the quotients that do not fit, the digits that borrow.  The
\* exception is V where OverflowSlips: SUBX of the greatest signed source, and
\* NEGX of it, with X set.
InstructionExact ==
    Done /\ Len(code) = 1
      => LET i == code[1]
             m == Manual(i, start.reg[i.src], start.reg[i.dst], start.ccr)
         IN /\ reg[i.dst] = m.value
            /\ trap = m.trap
            /\ \A k \in Defined(i, start.reg[i.src], start.reg[i.dst], start.ccr, m) :
                 ccr[k] = m.codes[k]

\* The number in two registers: its low part and its high part.
Wide(regs, low, high, span) == regs[low] + span * regs[high]

Same(codes, m, names) == \A k \in names : codes[k] = m.codes[k]

\* The instruction that goes on with the sum in the high part.
Extension(op) == [ADD |-> "ADDX", SUB |-> "SUBX", NEG |-> "NEGX"][op]

\* ADD and ADDX on the two parts are one addition of twice the width, and so are
\* the subtraction and the negation, save V where the extended instruction slips.
WideSum(i, from, regs, codes) ==
    i.op \in {"ADD", "SUB", "NEG"} =>
      LET span == 2^i.bits
          m == ManualSum(i.op, 2 * i.bits, Wide(from.reg, "S0", "S1", span),
                         Wide(from.reg, "D0", "D1", span), from.ccr)
          low == ManualSum(i.op, i.bits, from.reg["S0"], from.reg["D0"], from.ccr)
      IN /\ Wide(regs, "D0", "D1", span) = m.value
         /\ Same(codes, m, {"x", "n", "z", "c"})
         /\ \/ OverflowSlips(Extension(i.op), i.bits, from.reg["S1"],
                             from.reg["D1"], low.codes.x)
            \/ Same(codes, m, {"v"})

\* LSL and ROXL by one are one shift of twice the width.
WideShift(i, from, regs, codes) ==
    i.op = "LSL" =>
      LET span == 2^i.bits
          m == ManualShift(i.op, 2 * i.bits, 1, Wide(from.reg, "D0", "D1", span), from.ccr)
      IN /\ Wide(regs, "D0", "D1", span) = m.value
         /\ Same(codes, m, {"x", "n", "c"})

\* Two decimal sums on two digits each are one on four.
WideDecimal(i, from, regs, codes) ==
    i.op \in Decimals =>
      LET Hundreds(r, low, high) == FromBcd(r[low]) + 100 * FromBcd(r[high])
          m == ManualDecimal(i.op, Hundreds(from.reg, "S0", "S1"),
                             Hundreds(from.reg, "D0", "D1"), 10000, from.ccr)
      IN /\ Hundreds(regs, "D0", "D1") = m.decimal
         /\ Same(codes, m, {"x", "z", "c"})

\* A long number: the extended instructions carry X, and Z, from one part of a
\* long number to the next.  A generated program computes its long numbers this
\* way.
WideExact ==
    Done /\ Len(code) = 2
      => /\ WideSum(code[1], start, reg, ccr)
         /\ WideShift(code[1], start, reg, ccr)
         /\ WideDecimal(code[1], start, reg, ccr)

\* The generated arithmetic is the MC68000's: no value, code or trap is wrong
\* after one instruction, and none after the pairs that carry X and Z from the
\* low part of a number to its high part.  The one exception is named: V behind
\* SUBX or NEGX when X is set and the source is the greatest signed number
\* (OverflowSlips), where the code's V is not the manual's.
ArithmeticExact == InstructionExact /\ WideExact

\* A branch behind a compare is taken exactly when the operands, as unsigned
\* or as signed numbers, stand in the relation the condition is named for.
ConditionsOrder ==
    Done /\ code[1].op = "CMP"
      => LET bits == code[1].bits
         IN Ordered(Half(bits), start.reg["S0"] % 2^bits,
                    start.reg["D0"] % 2^bits, ccr)

=============================================================================

------------------------------ MODULE M68kShift ------------------------------
(***************************************************************************)
(* The C that c_emitter.c prints for the instructions that work on bits:    *)
(* the loops of the shifts and rotates, the logical operations, the bit     *)
(* tests, and the multiply and divide that join and split a long.  bits is  *)
(* the width of the operand.                                                *)
(***************************************************************************)
EXTENDS M68kAlu

Half(bits) == 2^(bits - 1)
Mask(bits) == 2^bits - 1

\* (reg & keep_mask) | value
Keep(bits, reg, value) == (reg \div 2^bits) * 2^bits + value

\* A number as the unsigned value of its low bits, and back.
Unsigned(bits, v) == v % 2^bits
Signed(bits, v) == IF v >= Half(bits) THEN v - 2^bits ELSE v

-----------------------------------------------------------------------------
(* Shifts and rotates: one round of the loop on ng_result, ng_last, ng_x    *)
(* and ng_v.                                                                *)

Lefts   == {"ASL", "LSL", "ROXL", "ROL"}
Rotates == {"ROL", "ROR"}
Extends == {"ROXL", "ROXR"}
Shifts  == Lefts \cup {"ASR", "LSR", "ROXR", "ROR"}

Round(op, bits, s) ==
    LET top  == s.result \div Half(bits)          \* the sign bit, leaving left
        low  == s.result % 2                      \* the bit leaving right
        left == (2 * s.result) % 2^bits
        out  == IF op \in Lefts THEN top ELSE low
        in   == CASE op = "ASR" -> top
                  [] op \in Rotates -> out
                  [] op \in Extends -> s.x
                  [] OTHER -> 0
    IN [result |-> IF op \in Lefts THEN left + in
                   ELSE s.result \div 2 + in * Half(bits),
        last   |-> out,
        x      |-> IF op \in Extends THEN out ELSE s.x,
        v      |-> s.v \/ (op = "ASL" /\ left \div Half(bits) # top)]

Rounds(op, bits, s, count) ==
    LET f[n \in 0..count] == IF n = 0 THEN s ELSE Round(op, bits, f[n - 1])
    IN f[count]

\* emit_shift_rotate_dreg: a count of nought still sets N, Z, V and C, and
\* leaves X.
ShiftDreg(op, bits, count, value, ccr) ==
    LET s == Rounds(op, bits,
                    [result |-> value, last |-> 0, x |-> X(ccr), v |-> FALSE],
                    count)
        c == IF op \in Extends THEN s.x = 1 ELSE s.last = 1
        n == Sign(Half(bits), s.result)
        z == s.result = 0
    IN IF count # 0
       THEN Outcome(s.result, IF op \in Rotates THEN ccr.x ELSE c, n, z, s.v, c)
       ELSE Outcome(value, ccr.x, n, z, FALSE, op \in Extends /\ ccr.x)

\* emit_shift_rotate_memory: one round, on a word.
ShiftMemory(op, bits, value, ccr) ==
    LET s == Round(op, bits,
                   [result |-> value, last |-> 0, x |-> X(ccr), v |-> FALSE])
        c == IF op \in Extends THEN s.x = 1 ELSE s.last = 1
    IN Outcome(s.result, IF op \in Rotates THEN ccr.x ELSE c,
               Sign(Half(bits), s.result), s.result = 0,
               s.v, c)

-----------------------------------------------------------------------------
(* Logic and single bits.                                                  *)

\* (n >> k) & 1
Bit(n, k) == (n \div 2^k) % 2

\* The operator of C on a bit of each operand.
ng_logic_operator(op, a, b) ==
    CASE op = "AND" -> a * b
      [] op = "EOR" -> (a + b) % 2
      [] op = "OR"  -> IF a + b = 0 THEN 0 ELSE 1

\* The same on operands, from their lowest bit up.
LogicValue(op, bits, a, b) ==
    LET f[k \in 0..bits] ==
            IF k = 0 THEN 0
            ELSE f[k - 1] + 2^(k - 1) * ng_logic_operator(op, Bit(a, k - 1), Bit(b, k - 1))
    IN f[bits]

Logic(op, bits, src, dst, ccr) ==
    ng_set_nz(Half(bits), LogicValue(op, bits, dst, src), ccr)

\* ~ng_value
Complement(bits, value) == Mask(bits) - value

\* The bit is numbered modulo the width: & 31 in a register, & 7 in memory.
BitOp(op, bits, number, value, ccr) ==
    LET mask == 2^(number % bits)
        set  == (value \div mask) % 2 = 1
    IN [value |-> CASE op = "BTST" -> value
                    [] op = "BCHG" -> IF set THEN value - mask ELSE value + mask
                    [] op = "BCLR" -> IF set THEN value - mask ELSE value
                    [] op = "BSET" -> IF set THEN value ELSE value + mask,
        ccr   |-> [ccr EXCEPT !.z = ~set]]

\* The codes are those of the byte as it was.
Tas(bits, value, ccr) ==
    [value |-> LogicValue("OR", bits, value, Half(bits)),
     ccr   |-> ng_set_nz(Half(bits), value, ccr).ccr]

\* (uint16_t)(int16_t)(int8_t)
SignExtend(from, to, value) == Unsigned(to, Signed(from, value % 2^from))

Ext(bits, reg, ccr) ==
    ng_set_nz(Half(bits), SignExtend(bits \div 2, bits, reg), ccr)

Swap(bits, reg, ccr) ==
    LET half == bits \div 2
    IN ng_set_nz(Half(bits), ((reg * 2^half) % 2^bits) + (reg \div 2^half), ccr)

-----------------------------------------------------------------------------
(* Multiply and divide: bits is the width of the word, the register has two *)
(* of them.  trap is the vector that is taken instead, or 0.                *)

Multiply(op, bits, src, reg, ccr) ==
    LET a == reg % 2^bits
    IN ng_set_nz(Half(2 * bits),
                 IF op = "MULU" THEN a * src
                 ELSE Unsigned(2 * bits, Signed(bits, a) * Signed(bits, src)),
                 ccr)

\* The quotient of C, rounded towards zero, and its remainder.
Abs(n) == IF n < 0 THEN -n ELSE n
Quotient(a, b) ==
    LET q == Abs(a) \div Abs(b) IN IF (a < 0) = (b < 0) THEN q ELSE -q
Remainder(a, b) == a - b * Quotient(a, b)

ZeroDivide == 5

Untrapped(o) == [trap |-> 0, value |-> o.value, ccr |-> o.ccr]

Divide(op, bits, src, reg, ccr) ==
    LET dividend == IF op = "DIVS" THEN Signed(2 * bits, reg) ELSE reg
        divisor  == IF op = "DIVS" THEN Signed(bits, src) ELSE src
        q == Quotient(dividend, divisor)
        tooLarge == IF op = "DIVS" THEN q < -Half(bits) \/ q > Half(bits) - 1
                    ELSE q > Mask(bits)
    IN IF divisor = 0 THEN [trap |-> ZeroDivide, value |-> reg, ccr |-> ccr]
       ELSE IF tooLarge
       THEN Untrapped(Outcome(reg, ccr.x, FALSE, FALSE, TRUE, FALSE))
       ELSE Untrapped(
              Outcome(Unsigned(bits, Remainder(dividend, divisor)) * 2^bits
                        + Unsigned(bits, q),
                      ccr.x,
                      IF op = "DIVS" THEN q < 0 ELSE Sign(Half(bits), q),
                      q = 0, FALSE, FALSE))

CheckTrap == 6

\* CHK: only N is touched, and only when the register is out of bounds.
Chk(bits, bound, reg, ccr) ==
    LET value == Signed(bits, reg % 2^bits)
    IN IF value < 0 \/ value > Signed(bits, bound)
       THEN [trap |-> CheckTrap, value |-> reg,
             ccr |-> [ccr EXCEPT !.n = value < 0]]
       ELSE [trap |-> 0, value |-> reg, ccr |-> ccr]

=============================================================================

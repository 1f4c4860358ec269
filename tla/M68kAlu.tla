------------------------------- MODULE M68kAlu -------------------------------
(***************************************************************************)
(* The arithmetic of the C that c_emitter.c prints: what a generated        *)
(* instruction makes of its operands and of the condition codes.            *)
(*                                                                         *)
(* The C is the same text for bytes, words and longs with another sign_mask *)
(* and value_mask; h is the sign_mask, 2h - 1 the value_mask, and an        *)
(* operand is a number below 2h.  The formulas on sign bits                 *)
(* ((a ^ b) & sign_mask) compare the two sign bits here.                    *)
(***************************************************************************)
EXTENDS Integers

CCR == [x : BOOLEAN, n : BOOLEAN, z : BOOLEAN, v : BOOLEAN, c : BOOLEAN]

Value(h) == 0 .. 2 * h - 1

\* value & sign_mask
Sign(h, v) == v >= h

\* The conversion to the unsigned type of the operand, of a number that one
\* addition or subtraction of two operands and X can give.
Wrap(h, v) ==
    IF v < 0 THEN v + 2 * h ELSE IF v >= 2 * h THEN v - 2 * h ELSE v

X(ccr) == IF ccr.x THEN 1 ELSE 0

Outcome(value, x, n, z, v, c) ==
    [value |-> value, ccr |-> [x |-> x, n |-> n, z |-> z, v |-> v, c |-> c]]

\* ng_set_nz8, ng_set_nz16, ng_set_nz32
ng_set_nz(h, value, ccr) ==
    Outcome(value, ccr.x, Sign(h, value), value = 0, FALSE, FALSE)

-----------------------------------------------------------------------------
(* Binary arithmetic: the destination is what was dst (0xFFE0 clears the   *)
(* five codes, 0xFFF0 leaves X, 0xFFE4 leaves Z for the extended forms).   *)

Add(h, src, dst) ==
    LET full   == dst + src
        result == Wrap(h, full)
        carry  == full > 2 * h - 1
    IN Outcome(result, carry, Sign(h, result), result = 0,
               /\ Sign(h, dst) = Sign(h, src)
               /\ Sign(h, dst) # Sign(h, result),
               carry)

Sub(h, src, dst) ==
    LET result == Wrap(h, dst - src)
        borrow == src > dst
    IN Outcome(result, borrow, Sign(h, result), result = 0,
               /\ Sign(h, dst) # Sign(h, src)
               /\ Sign(h, dst) # Sign(h, result),
               borrow)

\* Mutation: the overflow is left out, so N alone orders the operands.
CmpNoOverflow(h, src, dst, ccr) ==
    LET result == Wrap(h, dst - src)
    IN Outcome(dst, ccr.x, Sign(h, result), result = 0, FALSE, src > dst)

\* The compares write nothing and leave X.
Cmp(h, src, dst, ccr) ==
    LET result == Wrap(h, dst - src)
    IN Outcome(dst, ccr.x, Sign(h, result), result = 0,
               /\ Sign(h, dst) # Sign(h, src)
               /\ Sign(h, dst) # Sign(h, result),
               src > dst)

\* Mutation: Z is set by the last digit alone, as by ADD.
AddxFreshZero(h, src, dst, ccr) ==
    LET full   == dst + src + X(ccr)
        result == Wrap(h, full)
        carry  == full > 2 * h - 1
    IN Outcome(result, carry, Sign(h, result), result = 0,
               /\ Sign(h, dst) = Sign(h, src)
               /\ Sign(h, dst) # Sign(h, result),
               carry)

Addx(h, src, dst, ccr) ==
    LET full   == dst + src + X(ccr)
        result == Wrap(h, full)
        carry  == full > 2 * h - 1
    IN Outcome(result, carry, Sign(h, result), ccr.z /\ result = 0,
               /\ Sign(h, dst) = Sign(h, src)
               /\ Sign(h, dst) # Sign(h, result),
               carry)

\* ng_src_full carries X, and V is taken from its sign bit, ng_src_v.
Subx(h, src, dst, ccr) ==
    LET full   == src + X(ccr)
        src_v  == Wrap(h, full)
        result == Wrap(h, dst - full)
        borrow == full > dst
    IN Outcome(result, borrow, Sign(h, result), ccr.z /\ result = 0,
               /\ Sign(h, dst) # Sign(h, src_v)
               /\ Sign(h, dst) # Sign(h, result),
               borrow)

Neg(h, value) ==
    LET result == Wrap(h, 0 - value)
    IN Outcome(result, value # 0, Sign(h, result), result = 0,
               value = h, value # 0)

Negx(h, value, ccr) ==
    LET src    == Wrap(h, value + X(ccr))
        result == Wrap(h, 0 - value - X(ccr))
        borrow == value # 0 \/ ccr.x
    IN Outcome(result, borrow, Sign(h, result), ccr.z /\ result = 0,
               Sign(h, src) /\ Sign(h, result), borrow)

-----------------------------------------------------------------------------
(* Packed decimal: bytes of two digits, through their value below a hundred. *)

FromBcd(byte) == (byte \div 16) * 10 + (byte % 16)
ToBcd(n) == (n \div 10) * 16 + (n % 10)

Decimal(n, borrow, ccr) ==
    LET result == ToBcd(n)
    IN Outcome(result, borrow, Sign(128, result), ccr.z /\ result = 0,
               FALSE, borrow)

Abcd(src, dst, ccr) ==
    LET sum == FromBcd(dst) + FromBcd(src) + X(ccr)
    IN Decimal(sum % 100, sum > 99, ccr)

Sbcd(src, dst, ccr) ==
    LET full == FromBcd(src) + X(ccr)
    IN Decimal((100 + FromBcd(dst) - full) % 100, full > FromBcd(dst), ccr)

Nbcd(value, ccr) ==
    Decimal((100 - FromBcd(value) - X(ccr)) % 100,
            FromBcd(value) + X(ccr) # 0, ccr)

-----------------------------------------------------------------------------
\* ng_condition_expr, with the conditions 0 and 1 that its callers print
\* themselves (emit_branch_condition, Scc, DBcc).
Condition(cond, ccr) ==
    \/ cond = 0
    \/ cond = 2  /\ ~ccr.c /\ ~ccr.z
    \/ cond = 3  /\ (ccr.c \/ ccr.z)
    \/ cond = 4  /\ ~ccr.c
    \/ cond = 5  /\ ccr.c
    \/ cond = 6  /\ ~ccr.z
    \/ cond = 7  /\ ccr.z
    \/ cond = 8  /\ ~ccr.v
    \/ cond = 9  /\ ccr.v
    \/ cond = 10 /\ ~ccr.n
    \/ cond = 11 /\ ccr.n
    \/ cond = 12 /\ ccr.n = ccr.v
    \/ cond = 13 /\ ccr.n # ccr.v
    \/ cond = 14 /\ ~ccr.z /\ ccr.n = ccr.v
    \/ cond = 15 /\ (ccr.z \/ ccr.n # ccr.v)

-----------------------------------------------------------------------------
(* What the manual means by the conditions, of codes that compare d with s. *)

\* An operand as a signed number.
SignedAt(h, v) == IF v >= h THEN v - 2 * h ELSE v

FitsAt(h, n) == -h <= n /\ n < h

Ordered(h, s, d, ccr) ==
    LET ss == SignedAt(h, s)
        sd == SignedAt(h, d)
    IN /\ Condition(2, ccr) <=> d > s            \* HI
       /\ Condition(3, ccr) <=> d <= s           \* LS
       /\ Condition(4, ccr) <=> d >= s           \* CC
       /\ Condition(5, ccr) <=> d < s            \* CS
       /\ Condition(6, ccr) <=> d # s            \* NE
       /\ Condition(7, ccr) <=> d = s            \* EQ
       /\ Condition(8, ccr) <=> FitsAt(h, sd - ss)
       /\ Condition(9, ccr) <=> ~FitsAt(h, sd - ss)
       /\ Condition(10, ccr) <=> ~Condition(11, ccr)
       /\ Condition(12, ccr) <=> sd >= ss        \* GE
       /\ Condition(13, ccr) <=> sd < ss         \* LT
       /\ Condition(14, ccr) <=> sd > ss         \* GT
       /\ Condition(15, ccr) <=> sd <= ss        \* LE

=============================================================================

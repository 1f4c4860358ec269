----------------------------- MODULE M68kDecode -----------------------------
(***************************************************************************)
(* ng_m68k_decode: the instruction record of each 16-bit opcode            *)
(* (recompiler/src/m68k_decode.c).                                         *)
(*                                                                         *)
(* Extension words are not given values.  A field that is filled from one  *)
(* holds the byte offset, from the instruction's address, it was read at:  *)
(* 2 is the first extension word, 1 the low byte of the opcode.  An        *)
(* address is <<at>> when it is the word or long at that offset, and       *)
(* <<base, at>> when the displacement there is added to the address of the *)
(* instruction plus base.  0 and <<>> are fields left zero.                *)
(***************************************************************************)
EXTENDS Naturals, Sequences, TLC

Bits(op, low, n) == (op \div 2^low) % 2^n

\* op has the bits of base above its n lowest.
Matches(op, base, n) == op \div 2^n = base \div 2^n

Top(op)    == Bits(op, 12, 4)
RegX(op)   == Bits(op, 9, 3)
OpMode(op) == Bits(op, 6, 3)
SizeBits(op) == Bits(op, 6, 2)
EaMode(op) == Bits(op, 3, 3)
EaReg(op)  == Bits(op, 0, 3)

\* Immediate values: none, read at an offset and kept to a number of bytes, or
\* a number the opcode itself gives.
Imm(at, width) == [at |-> at, width |-> width, value |-> 0]
Number(n)      == [at |-> 0, width |-> 0, value |-> n]
NoImm          == Number(0)

NoEa == [mode |-> "none", reg |-> 0, disp |-> 0, abs |-> <<>>, imm |-> NoImm]
DReg(r) == [NoEa EXCEPT !.mode = "dreg", !.reg = r]
AReg(r) == [NoEa EXCEPT !.mode = "areg", !.reg = r]

AbsModes == {"abs_w", "abs_l"}

\* decode_ea, of mode m and register r, its extension words at offset at.
ModeNames ==
    <<"dreg", "areg", "aind", "apost", "apre", "adisp", "aindex">>
SpecialNames == <<"abs_w", "abs_l", "pc_disp", "pc_index", "imm">>

ModeName(m, r) ==
    IF m < 7 THEN ModeNames[m + 1]
    ELSE IF r < 5 THEN SpecialNames[r + 1] ELSE "none"

Ea(at, m, r, size) ==
    LET mode == ModeName(m, r)
    IN  [mode |-> mode, reg |-> r,
         disp |-> IF mode \in {"adisp", "aindex", "pc_disp", "pc_index"}
                  THEN at ELSE 0,
         abs  |-> IF mode \in AbsModes THEN <<at>>
                  ELSE IF mode \in {"pc_disp", "pc_index"} THEN <<at, at>>
                  ELSE <<>>,
         imm  |-> IF mode = "imm" THEN Imm(at, size) ELSE NoImm]

EaLength(ea, size) ==
    IF ea.mode \in {"dreg", "areg", "aind", "apost", "apre", "none"} THEN 0
    ELSE IF ea.mode = "abs_l" \/ (ea.mode = "imm" /\ size = 4) THEN 4
    ELSE 2

DataAlterable(m, r)   == m # 1 /\ ~(m = 7 /\ r >= 2)
DataEa(m, r)          == m # 1 /\ ~(m = 7 /\ r > 4)
MemoryAlterable(m, r) == m >= 2 /\ ~(m = 7 /\ r >= 2)
ControlEa(m, r)       == m \in {2, 5, 6} \/ (m = 7 /\ r <= 3)
MovemToMem(m, r)      == m \in {2, 4, 5, 6} \/ (m = 7 /\ r <= 1)
MovemToReg(m, r)      == m \in {2, 3, 5, 6} \/ (m = 7 /\ r <= 3)

-----------------------------------------------------------------------------
(* Instruction records.  What an UNKNOWN record has in its other fields is *)
(* read by nobody.                                                         *)

Unknown(op) ==
    [name |-> "UNKNOWN", opcode |-> op, len |-> 2, size |-> 0, form |-> "none",
     reg |-> 0, src_reg |-> 0, cond |-> 0, imm |-> NoImm, disp |-> 0,
     abs |-> <<>>, target |-> <<>>, src |-> NoEa, dst |-> NoEa]

Named(op, name, size) == [Unknown(op) EXCEPT !.name = name, !.size = size]

SizeOf(code) == CASE code = 0 -> 1 [] code = 1 -> 2 [] code = 2 -> 4

\* The operand of the opcode's low six bits, its extension words at offset at.
ReadSrc(i, at) ==
    LET ea == Ea(at, EaMode(i.opcode), EaReg(i.opcode), i.size)
    IN  IF ea.mode = "none" THEN Unknown(i.opcode)
        ELSE [i EXCEPT !.src = ea, !.len = at + EaLength(ea, i.size)]

ReadDst(i, at) ==
    LET ea == Ea(at, EaMode(i.opcode), EaReg(i.opcode), i.size)
    IN  IF ea.mode = "none" THEN Unknown(i.opcode)
        ELSE [i EXCEPT !.dst = ea, !.len = at + EaLength(ea, i.size)]

\* The fields kept beside an operand for the emitter's simple cases.
Legacy(i, ea, form) ==
    IF i.name = "UNKNOWN" THEN i
    ELSE IF ea.mode = "dreg" THEN [i EXCEPT !.form = form, !.reg = ea.reg]
    ELSE IF ea.mode \in AbsModes THEN [i EXCEPT !.form = "abs", !.abs = ea.abs]
    ELSE IF ea.mode = "adisp"
         THEN [i EXCEPT !.form = "areg_disp", !.reg = ea.reg, !.disp = ea.disp]
    ELSE i

DstLegacy(i, form) == Legacy(i, i.dst, form)

\* src_reg of a MOVEA whose source is indexed by a register that the extension
\* word names.
IndexReg == 8

MoveLegacy(i) ==
    LET s == i.src
        d == i.dst
        toAbs == d.mode \in AbsModes
    IN  IF i.name = "MOVEA"
        THEN IF s.mode = "pc_index"
             THEN [i EXCEPT !.form = "pc_index_to_areg", !.src_reg = IndexReg,
                            !.disp = s.disp, !.target = s.abs]
             ELSE i
        ELSE IF s.mode = "areg" /\ toAbs
        THEN [i EXCEPT !.form = "areg_to_abs", !.reg = s.reg, !.abs = d.abs]
        ELSE IF s.mode = "imm" /\ toAbs
        THEN [i EXCEPT !.form = "imm_to_abs", !.imm = s.imm, !.abs = d.abs]
        ELSE IF s.mode = "dreg" /\ toAbs
        THEN [i EXCEPT !.form = "dreg_to_abs", !.reg = s.reg, !.abs = d.abs]
        ELSE IF s.mode \in AbsModes /\ d.mode = "dreg"
        THEN [i EXCEPT !.form = "abs_to_dreg", !.reg = d.reg, !.abs = s.abs]
        ELSE IF s.mode = "adisp" /\ d.mode = "dreg"
        THEN [i EXCEPT !.form = "areg_disp", !.reg = d.reg,
                       !.src_reg = s.reg, !.disp = s.disp]
        ELSE IF s.mode = "imm" /\ d.mode = "dreg"
        THEN [i EXCEPT !.form = "imm_to_dreg", !.reg = d.reg, !.imm = s.imm]
        ELSE IF s.mode = "dreg" /\ d.mode = "dreg"
        THEN [i EXCEPT !.form = "dreg_to_dreg", !.src_reg = s.reg,
                       !.reg = d.reg]
        ELSE i

-----------------------------------------------------------------------------
(* The decoders, in the order they are tried.  Each gives the set of the   *)
(* record it decodes the opcode to, empty when it leaves it to the next.   *)

When(guard, i) == IF guard THEN {i} ELSE {}

MoveSize == [t \in {1, 2, 3} |-> IF t = 1 THEN 1 ELSE IF t = 2 THEN 4 ELSE 2]

decode_move(op) ==
    LET size == MoveSize[Top(op)]
        dm == OpMode(op)
        i == ReadSrc(Named(op, IF dm = 1 THEN "MOVEA" ELSE "MOVE", size), 2)
        d == Ea(i.len, dm, RegX(op), size)
        j == [i EXCEPT !.dst = d, !.len = @ + EaLength(d, size),
                       !.reg = IF dm = 1 THEN d.reg ELSE 0]
    IN  When(Top(op) \in {1, 2, 3},
             IF \/ size = 1 /\ (dm = 1 \/ EaMode(op) = 1)
                \/ dm # 1 /\ ~DataAlterable(dm, RegX(op))
                \/ i.name = "UNKNOWN"
             THEN Unknown(op) ELSE MoveLegacy(j))

\* An operation on a data or address register, the other operand an EA.
ToReg(op, name, size, dst) ==
    LET i == ReadSrc(Named(op, name, size), 2)
    IN  IF i.name = "UNKNOWN" THEN i
        ELSE [i EXCEPT !.dst = dst, !.reg = dst.reg]

decode_alu_address_reg(op) ==
    When(Top(op) \in {9, 11, 13} /\ OpMode(op) \in {3, 7},
         ToReg(op, CASE Top(op) = 13 -> "ADDA" [] Top(op) = 9 -> "SUBA"
                     [] Top(op) = 11 -> "CMPA",
               IF OpMode(op) = 7 THEN 4 ELSE 2, AReg(RegX(op))))

DRegToEa(op, name) ==
    LET i == ReadDst([Named(op, name, SizeOf(SizeBits(op)))
                        EXCEPT !.src = DReg(RegX(op)), !.src_reg = RegX(op)], 2)
    IN  DstLegacy(i, "dreg_to_dreg")

decode_logic_binary(op) ==
    LET m == EaMode(op)
        r == EaReg(op)
        name == CASE Top(op) = 8 -> "OR" [] Top(op) = 12 -> "AND"
                  [] Top(op) = 11 -> "EOR"
        fromEa == Top(op) # 11 /\ OpMode(op) <= 2 /\ DataEa(m, r)
        toEa == OpMode(op) >= 4 /\ IF Top(op) = 11 THEN DataAlterable(m, r)
                                   ELSE MemoryAlterable(m, r)
    IN  IF Top(op) \notin {8, 11, 12} \/ SizeBits(op) = 3 THEN {}
        ELSE When(fromEa, [ToReg(op, name, SizeOf(SizeBits(op)), DReg(RegX(op)))
                             EXCEPT !.src_reg = r])
             \cup When(toEa, DRegToEa(op, name))

decode_addsub_dreg_to_ea(op) ==
    When(/\ Top(op) \in {9, 13} /\ OpMode(op) \in {4, 5, 6}
         /\ MemoryAlterable(EaMode(op), EaReg(op)),
         DRegToEa(op, IF Top(op) = 13 THEN "ADD" ELSE "SUB"))

\* Both operands are registers, or memory they step through.
Pair(op, name, size, src, dst) ==
    [Named(op, name, size) EXCEPT !.src = src, !.src_reg = src.reg,
                                  !.dst = dst, !.reg = dst.reg]

decode_exchange(op) ==
    LET x == RegX(op)
        y == EaReg(op)
        opmode == Bits(op, 3, 6)
    IN  When(Top(op) = 12 /\ opmode \in {40, 41, 49},
             Pair(op, "EXG", 4, IF opmode = 41 THEN AReg(x) ELSE DReg(x),
                                IF opmode = 40 THEN DReg(y) ELSE AReg(y)))

ShiftName(op, kind) ==
    IF Bits(op, 8, 1) = 1 THEN <<"ASL", "LSL", "ROXL", "ROL">>[kind + 1]
    ELSE <<"ASR", "LSR", "ROXR", "ROR">>[kind + 1]

OneToEight(n) == Number(IF n = 0 THEN 8 ELSE n)

decode_shift_rotate(op) ==
    LET onMemory == ReadDst([Named(op, ShiftName(op, Bits(op, 9, 2)), 2)
                               EXCEPT !.imm = Number(1)], 2)
        onReg == [Named(op, ShiftName(op, Bits(op, 3, 2)), SizeOf(SizeBits(op)))
                    EXCEPT !.dst = DReg(EaReg(op)), !.reg = EaReg(op)]
    IN  IF Top(op) # 14 THEN {}
        ELSE IF SizeBits(op) = 3
        THEN When(Bits(op, 11, 1) = 0 /\ MemoryAlterable(EaMode(op), EaReg(op)),
                  onMemory)
        ELSE IF Bits(op, 5, 1) = 1
        THEN {[onReg EXCEPT !.src = DReg(RegX(op)), !.src_reg = RegX(op)]}
        ELSE {[onReg EXCEPT !.imm = OneToEight(RegX(op))]}

WordToReg(op, top, names) ==
    When(Top(op) = top /\ OpMode(op) \in {3, 7} /\ EaMode(op) # 1,
         ToReg(op, names[IF OpMode(op) = 3 THEN 1 ELSE 2], 2, DReg(RegX(op))))

decode_multiply(op) == WordToReg(op, 12, <<"MULU", "MULS">>)

decode_divide(op) == WordToReg(op, 8, <<"DIVU", "DIVS">>)

decode_alu_ea_to_dreg(op) ==
    LET i == ToReg(op, CASE Top(op) = 13 -> "ADD" [] Top(op) = 9 -> "SUB"
                         [] Top(op) = 11 -> "CMP",
                   SizeOf(SizeBits(op)), DReg(RegX(op)))
    IN  When(/\ Top(op) \in {9, 11, 13} /\ OpMode(op) \in {0, 1, 2}
             /\ DataEa(EaMode(op), EaReg(op)) \/ (EaMode(op) = 1
                                                    /\ SizeBits(op) # 0),
             [i EXCEPT !.form = "dreg_to_dreg", !.src_reg = EaReg(op)])

Post(r) == [NoEa EXCEPT !.mode = "apost", !.reg = r]
Pre(r)  == [NoEa EXCEPT !.mode = "apre", !.reg = r]

decode_cmpm(op) ==
    When(Top(op) = 11 /\ OpMode(op) \in {4, 5, 6} /\ EaMode(op) = 1,
         Pair(op, "CMPM", SizeOf(SizeBits(op)), Post(EaReg(op)), Post(RegX(op))))

\* ILLEGAL, TRAP and the instructions that are one opcode each.
OneOpcode ==
    (\h4AFC :> "ILLEGAL") @@ (\h4E70 :> "RESET") @@ (\h4E71 :> "NOP")
    @@ (\h4E73 :> "RTE") @@ (\h4E75 :> "RTS") @@ (\h4E76 :> "TRAPV")
    @@ (\h4E77 :> "RTR")

decode_system(op) ==
    IF op \in DOMAIN OneOpcode THEN {Named(op, OneOpcode[op], 0)}
    ELSE When(Matches(op, \h4E40, 4),
              [Named(op, "TRAP", 0) EXCEPT !.imm = Number(op % 16)])
         \cup When(op = \h4E72, [Named(op, "STOP", 0) EXCEPT !.len = 4,
                                                           !.imm = Imm(2, 2)])

decode_frame(op) ==
    LET r == EaReg(op)
        usp == [Named(op, "MOVE_USP", 4) EXCEPT !.reg = r]
    IN  When(Matches(op, \h4E50, 3),
             [Named(op, "LINK", 2) EXCEPT !.len = 4, !.reg = r, !.disp = 2])
        \cup When(Matches(op, \h4E58, 3), [Named(op, "UNLK", 0) EXCEPT !.reg = r])
        \cup When(Matches(op, \h4E60, 3), [usp EXCEPT !.src = AReg(r)])
        \cup When(Matches(op, \h4E68, 3), [usp EXCEPT !.dst = AReg(r)])

\* JMP and JSR; only of the PC-relative ones is the displacement kept.
decode_jump(op) ==
    LET i == ReadSrc(Named(op, IF Matches(op, \h4EC0, 6) THEN "JMP" ELSE "JSR",
                           0), 2)
        ea == i.src
    IN  When(/\ Matches(op, \h4E80, 6) \/ Matches(op, \h4EC0, 6)
             /\ ControlEa(EaMode(op), EaReg(op)),
             IF ea.mode = "aind"
             THEN [i EXCEPT !.form = "areg_indirect", !.reg = ea.reg]
             ELSE IF ea.mode = "pc_disp"
             THEN [i EXCEPT !.form = "pc_relative", !.target = ea.abs,
                            !.disp = ea.disp]
             ELSE IF ea.mode \in AbsModes
             THEN [i EXCEPT !.form = "abs", !.target = ea.abs]
             ELSE i)

\* The displacement is the opcode's low byte, or the next word when that is 0.
BranchTarget(i) ==
    LET at == IF i.opcode % 256 = 0 THEN 2 ELSE 1
    IN  [i EXCEPT !.len = 2 * at, !.disp = at, !.target = <<2, at>>]

decode_branch(op) ==
    LET cond == Bits(op, 8, 4)
    IN  When(Top(op) = 6,
             BranchTarget(IF cond = 0 THEN Named(op, "BRA", 0)
                          ELSE IF cond = 1 THEN Named(op, "BSR", 0)
                          ELSE [Named(op, "BCC", 0) EXCEPT !.cond = cond]))

decode_moveq(op) ==
    When(Top(op) = 7 /\ Bits(op, 8, 1) = 0,
         [Named(op, "MOVEQ", 4) EXCEPT !.form = "imm_to_dreg", !.imm = Imm(1, 1),
            !.reg = RegX(op), !.dst = DReg(RegX(op))])

decode_chk(op) ==
    When(Top(op) = 4 /\ OpMode(op) = 6 /\ EaMode(op) # 1,
         ToReg(op, "CHK", 2, DReg(RegX(op))))

\* Mutation: the displacement of an address register is kept beside it too.
LeaKeepsDisp(op) ==
    LET i == ToReg(op, "LEA", 4, AReg(RegX(op)))
    IN  When(Top(op) = 4 /\ OpMode(op) = 7 /\ ControlEa(EaMode(op), EaReg(op)),
             [i EXCEPT !.target = i.src.abs, !.disp = i.src.disp])

decode_lea(op) ==
    LET i == ToReg(op, "LEA", 4, AReg(RegX(op)))
    IN  When(Top(op) = 4 /\ OpMode(op) = 7 /\ ControlEa(EaMode(op), EaReg(op)),
             [i EXCEPT !.target = i.src.abs,
                       !.disp = IF i.src.mode = "pc_disp" THEN i.src.disp
                                ELSE 0])

ImmediateToStatus ==
    (\h003C :> "ORI_TO_CCR") @@ (\h007C :> "ORI_TO_SR")
    @@ (\h023C :> "ANDI_TO_CCR") @@ (\h027C :> "ANDI_TO_SR")
    @@ (\h0A3C :> "EORI_TO_CCR") @@ (\h0A7C :> "EORI_TO_SR")

decode_immediate_to_sr_ccr(op) ==
    LET size == IF SizeBits(op) = 0 THEN 1 ELSE 2
    IN  IF op \in DOMAIN ImmediateToStatus
        THEN {[Named(op, ImmediateToStatus[op], size)
                 EXCEPT !.len = 4, !.imm = Imm(2, size)]}
        ELSE {}

decode_movep(op) ==
    LET d == DReg(RegX(op))
        a == [NoEa EXCEPT !.mode = "adisp", !.reg = EaReg(op), !.disp = 2]
        i == [Named(op, "MOVEP", IF Bits(op, 6, 1) = 1 THEN 4 ELSE 2)
                EXCEPT !.len = 4, !.disp = 2, !.reg = RegX(op)]
    IN  When(Top(op) = 0 /\ Bits(op, 8, 1) = 1 /\ EaMode(op) = 1,
             IF Bits(op, 7, 1) = 1
             THEN [i EXCEPT !.src = d, !.src_reg = d.reg, !.dst = a]
             ELSE [i EXCEPT !.src = a, !.dst = d])

decode_move_status(op) ==
    LET m == EaMode(op)
        r == EaReg(op)
    IN  When(Matches(op, \h40C0, 6),
             IF DataAlterable(m, r) THEN ReadDst(Named(op, "MOVE_SR", 2), 2)
             ELSE Unknown(op))
        \cup When(Matches(op, \h44C0, 6) \/ Matches(op, \h46C0, 6),
                  IF DataEa(m, r)
                  THEN ReadSrc(Named(op, IF Matches(op, \h46C0, 6) THEN "MOVE_SR"
                                         ELSE "MOVE_CCR", 2), 2)
                  ELSE Unknown(op))

BitNames == <<"BTST", "BCHG", "BCLR", "BSET">>

BitOp(op) == Named(op, BitNames[SizeBits(op) + 1],
                   IF EaMode(op) = 0 THEN 4 ELSE 1)

\* The bit number is an immediate; BTST of an immediate is refused.
decode_static_bit(op) ==
    LET m == EaMode(op)
        r == EaReg(op)
    IN  When(/\ Matches(op, \h0800, 8)
             /\ IF SizeBits(op) = 0 THEN DataEa(m, r) /\ ~(m = 7 /\ r = 4)
                ELSE DataAlterable(m, r),
             DstLegacy(ReadDst([BitOp(op) EXCEPT !.imm = Imm(2, 1)], 4), "dreg"))

\* The bit number is in a data register.
decode_dynamic_bit(op) ==
    LET m == EaMode(op)
        r == EaReg(op)
    IN  When(/\ Top(op) = 0 /\ Bits(op, 8, 1) = 1
             /\ IF SizeBits(op) = 0 THEN DataEa(m, r) ELSE DataAlterable(m, r),
             DstLegacy(ReadDst([BitOp(op) EXCEPT !.src = DReg(RegX(op)),
                                                 !.src_reg = RegX(op)], 2),
                       "dreg_to_dreg"))

\* By the opcode's high byte.
ImmediateNames ==
    (0 :> "ORI") @@ (2 :> "ANDI") @@ (4 :> "SUBI") @@ (6 :> "ADDI")
    @@ (10 :> "EORI") @@ (12 :> "CMPI")

decode_immediate(op) ==
    LET size == SizeOf(SizeBits(op))
        i == [Named(op, ImmediateNames[op \div 256], size)
                EXCEPT !.imm = Imm(2, size)]
    IN  When(/\ op \div 256 \in DOMAIN ImmediateNames /\ SizeBits(op) # 3
             /\ DataAlterable(EaMode(op), EaReg(op)),
             DstLegacy(ReadDst(i, IF size = 4 THEN 6 ELSE 4), "imm_to_dreg"))

\* Register to register, or memory to memory under predecrement.
ExtendPair(op, name, size) ==
    IF EaMode(op) = 1 THEN Pair(op, name, size, Pre(EaReg(op)), Pre(RegX(op)))
    ELSE [Pair(op, name, size, DReg(EaReg(op)), DReg(RegX(op)))
            EXCEPT !.form = "dreg_to_dreg"]

decode_extend(op) ==
    When(/\ Top(op) \in {9, 13} /\ OpMode(op) \in {4, 5, 6}
         /\ EaMode(op) \in {0, 1},
         ExtendPair(op, IF Top(op) = 13 THEN "ADDX" ELSE "SUBX",
                    SizeOf(SizeBits(op))))

decode_bcd(op) ==
    When(Top(op) \in {8, 12} /\ OpMode(op) = 4 /\ EaMode(op) \in {0, 1},
         ExtendPair(op, IF Top(op) = 12 THEN "ABCD" ELSE "SBCD", 1))

decode_condition(op) ==
    LET cond == Bits(op, 8, 4)
        m == EaMode(op)
        r == EaReg(op)
    IN  When(Top(op) = 5 /\ SizeBits(op) = 3 /\ m = 1,
             [Named(op, "DBCC", 2) EXCEPT !.cond = cond, !.len = 4, !.reg = r,
                !.disp = 2, !.target = <<2, 2>>])
        \cup When(Top(op) = 5 /\ SizeBits(op) = 3 /\ DataAlterable(m, r),
                  ReadDst([Named(op, "SCC", 1) EXCEPT !.cond = cond], 2))

\* Mutation: an address register is an operand of any size.
QuickByteOfAreg(op) ==
    LET i == [Named(op, IF Bits(op, 8, 1) = 1 THEN "SUBQ" ELSE "ADDQ",
                    SizeOf(SizeBits(op))) EXCEPT !.imm = OneToEight(RegX(op))]
    IN  When(/\ Top(op) = 5 /\ SizeBits(op) # 3
             /\ EaMode(op) = 1 \/ DataAlterable(EaMode(op), EaReg(op)),
             DstLegacy(ReadDst(i, 2), "dreg"))

decode_quick(op) ==
    LET m == EaMode(op)
        i == [Named(op, IF Bits(op, 8, 1) = 1 THEN "SUBQ" ELSE "ADDQ",
                    SizeOf(SizeBits(op))) EXCEPT !.imm = OneToEight(RegX(op))]
    IN  When(/\ Top(op) = 5 /\ SizeBits(op) # 3
             /\ IF m = 1 THEN SizeBits(op) # 0 ELSE DataAlterable(m, EaReg(op)),
             DstLegacy(ReadDst(i, 2), "dreg"))

UnaryNames == (\h40 :> "NEGX") @@ (\h42 :> "CLR") @@ (\h44 :> "NEG")
              @@ (\h46 :> "NOT")

\* CLR, NEGX, NEG and NOT; then NBCD.
decode_unary(op) ==
    LET i == IF op \div 256 \in DOMAIN UnaryNames
             THEN Named(op, UnaryNames[op \div 256], SizeOf(SizeBits(op)))
             ELSE Named(op, "NBCD", 1)
    IN  When(/\ \/ op \div 256 \in DOMAIN UnaryNames /\ SizeBits(op) # 3
                \/ Matches(op, \h4800, 6)
             /\ DataAlterable(EaMode(op), EaReg(op)),
             DstLegacy(ReadDst(i, 2), "dreg"))

decode_ext_swap(op) ==
    LET r == EaReg(op)
        OfReg(name, size) == [Named(op, name, size) EXCEPT !.form = "dreg",
                                !.reg = r, !.dst = DReg(r)]
    IN  When(Matches(op, \h4840, 3), OfReg("SWAP", 2))
        \cup When(Matches(op, \h4880, 3), OfReg("EXT", 2))
        \cup When(Matches(op, \h48C0, 3), OfReg("EXT", 4))

\* Mutation: the operand is read where the register list is.
MovemListSkipped(op) ==
    LET i == [Named(op, "MOVEM", IF Bits(op, 6, 1) = 1 THEN 4 ELSE 2)
                EXCEPT !.imm = Imm(2, 2)]
    IN  When(Matches(op, \h4880, 7) /\ MovemToMem(EaMode(op), EaReg(op)),
             [ReadDst(i, 2) EXCEPT !.len = @ + 2])
        \cup When(Matches(op, \h4C80, 7) /\ MovemToReg(EaMode(op), EaReg(op)),
                  [ReadSrc(i, 2) EXCEPT !.len = @ + 2])

decode_movem(op) ==
    LET m == EaMode(op)
        r == EaReg(op)
        i == [Named(op, "MOVEM", IF Bits(op, 6, 1) = 1 THEN 4 ELSE 2)
                EXCEPT !.imm = Imm(2, 2)]
    IN  When(Matches(op, \h4880, 7) /\ MovemToMem(m, r), ReadDst(i, 4))
        \cup When(Matches(op, \h4C80, 7) /\ MovemToReg(m, r), ReadSrc(i, 4))

decode_pea(op) ==
    When(Matches(op, \h4840, 6) /\ ControlEa(EaMode(op), EaReg(op)),
         ReadSrc(Named(op, "PEA", 4), 2))

decode_tas(op) ==
    When(Matches(op, \h4AC0, 6) /\ DataAlterable(EaMode(op), EaReg(op)),
         DstLegacy(ReadDst(Named(op, "TAS", 1), 2), "dreg"))

decode_tst(op) ==
    LET i == ReadSrc(Named(op, "TST", SizeOf(SizeBits(op))), 2)
    IN  When(/\ Matches(op, \h4A00, 8) /\ SizeBits(op) # 3
             /\ DataAlterable(EaMode(op), EaReg(op)),
             Legacy(i, i.src, "dreg"))

decode_line(op) ==
    When(Top(op) \in {10, 15}, [Named(op, "ILLEGAL", 0)
           EXCEPT !.imm = Number(IF Top(op) = 10 THEN 10 ELSE 11)])

\* ng_m68k_decode, of a word that is mapped.  A few cases repeat others that
\* come before them and are never reached; they are left out.
Decoders(op) ==
    <<decode_move(op), decode_alu_address_reg(op), decode_logic_binary(op),
      decode_addsub_dreg_to_ea(op), decode_exchange(op),
      decode_shift_rotate(op), decode_multiply(op), decode_divide(op),
      decode_alu_ea_to_dreg(op), decode_cmpm(op), decode_system(op),
      decode_frame(op), decode_jump(op), decode_branch(op), decode_moveq(op),
      decode_chk(op), decode_lea(op), decode_immediate_to_sr_ccr(op),
      decode_movep(op), decode_move_status(op), decode_static_bit(op),
      decode_dynamic_bit(op), decode_immediate(op), decode_extend(op),
      decode_bcd(op), decode_condition(op), decode_quick(op),
      decode_unary(op), decode_ext_swap(op), decode_movem(op), decode_pea(op),
      decode_tas(op), decode_tst(op), decode_line(op)>>

Decoded(op) ==
    LET tried == SelectSeq(Decoders(op), LAMBDA d : d # {})
    IN  IF tried = <<>> THEN Unknown(op) ELSE CHOOSE i \in tried[1] : TRUE

\* finish_decode: all of the instruction must be mapped, of which room bytes
\* are.
Finish(i, room) ==
    IF i.len > room THEN [Unknown(i.opcode) EXCEPT !.name = "INVALID",
                                                   !.len = 0]
    ELSE i

=============================================================================

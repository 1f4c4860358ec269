---------------------------- MODULE M68kValidate ----------------------------
(***************************************************************************)
(* ng_m68k_validate: whether an instruction record is one the rest of the  *)
(* recompiler may rely on (recompiler/src/m68k_validate.c).  It rebuilds   *)
(* the opcode from the record's fields, so that it accepts a record only   *)
(* when the opcode, the operands and the fields beside them agree.         *)
(***************************************************************************)
EXTENDS M68kDecode

Memory == {"aind", "apost", "apre", "adisp", "aindex", "abs_w", "abs_l"}
DataAlterableModes == {"dreg"} \cup Memory
QuickModes   == {"areg"} \cup DataAlterableModes
ControlModes == {"aind", "adisp", "aindex", "abs_w", "abs_l", "pc_disp",
                 "pc_index"}
DataModes    == DataAlterableModes \cup {"pc_disp", "pc_index", "imm"}
RegToMem     == (Memory \ {"apost"})
MemToReg     == {"apost"} \cup ControlModes

\* What the operand's own fields must hold, its extension words at base.
Payload(ea, size, base) ==
    /\ ea.reg < 8
    /\ ea.mode \in AbsModes \cup {"pc_disp", "pc_index", "imm"}
         => ModeName(7, ea.reg) = ea.mode
    /\ ea.disp # 0 => ea.mode \in {"adisp", "aindex", "pc_disp", "pc_index"}
    /\ ea.mode \notin AbsModes
         => ea.abs = IF ea.mode \in {"pc_disp", "pc_index"}
                     THEN <<base, ea.disp>> ELSE <<>>
    /\ IF ea.mode = "imm" THEN ea.imm.width <= size ELSE ea.imm = NoImm

\* The exact_..._ext_length helpers: the operand's mode is one of modes.
Operand(ea, modes, size, base) ==
    ea.mode \in modes /\ Payload(ea, size, base)

\* A byte of an address register cannot be a source.
MoveSource(i) ==
    /\ Operand(i.src, DataModes \cup {"areg"}, i.size, 2)
    /\ ~(i.src.mode = "areg" /\ i.size = 1)

Length(i, base, ea) == i.len = base + EaLength(ea, i.size)

\* ea_opcode_field
FieldOf(ea) ==
    IF ea.mode \in AbsModes \cup {"pc_disp", "pc_index", "imm"}
    THEN 56 + (CHOOSE k \in 1..5 : SpecialNames[k] = ea.mode) - 1
    ELSE 8 * ((CHOOSE k \in 1..7 : ModeNames[k] = ea.mode) - 1) + ea.reg

Sizes == {1, 2, 4}
SizeField(size) == IF size = 1 THEN 0 ELSE IF size = 2 THEN \h40 ELSE \h80
LongField(size) == IF size = 4 THEN \h40 ELSE 0
X(reg) == 512 * reg

\* Fields that must have been left zero.
Zero == Unknown(0)
Clear(i, fields) == \A f \in fields : i[f] = Zero[f]
Stray == {"imm", "cond", "target", "abs", "disp", "src_reg", "form"}

\* The fields kept beside the operand ea are those of its mode.
LegacyIs(i, form, reg, abs, disp) ==
    i.form = form /\ i.reg = reg /\ i.abs = abs /\ i.disp = disp

LegacyOf(i, ea, dregForm) ==
    IF ea.mode = "dreg" THEN LegacyIs(i, dregForm, ea.reg, <<>>, 0)
    ELSE IF ea.mode = "adisp" THEN LegacyIs(i, "areg_disp", ea.reg, <<>>, ea.disp)
    ELSE IF ea.mode \in AbsModes THEN LegacyIs(i, "abs", 0, ea.abs, 0)
    ELSE LegacyIs(i, "none", 0, <<>>, 0)

-----------------------------------------------------------------------------

valid_extend_pair(i) ==
    LET base == CASE i.name = "ADDX" -> \hD100 [] i.name = "SUBX" -> \h9100
                  [] i.name = "ABCD" -> \hC100 [] i.name = "SBCD" -> \h8100
        bcd == i.name \in {"ABCD", "SBCD"}
    IN  /\ i.len = 2 /\ Clear(i, Stray \ {"src_reg", "form"})
        /\ i.src_reg = i.src.reg /\ i.reg = i.dst.reg
        /\ i.size \in IF bcd THEN {1} ELSE Sizes
        /\ \/ i.src.mode = "dreg" /\ i.dst.mode = "dreg"
              /\ i.form = "dreg_to_dreg"
           \/ i.src.mode = "apre" /\ i.dst.mode = "apre" /\ i.form = "none"
        /\ Payload(i.src, i.size, 2) /\ Payload(i.dst, i.size, 2)
        /\ i.opcode = base + X(i.dst.reg) + i.src.reg
                      + (IF i.src.mode = "apre" THEN 8 ELSE 0)
                      + (IF bcd THEN 0 ELSE SizeField(i.size))

NoOperand(i) == Clear(i, (Stray \ {"imm"}) \cup {"reg", "src", "dst"})

valid_fixed_no_operand(i) ==
    /\ i.opcode \in DOMAIN OneOpcode /\ i.name = OneOpcode[i.opcode]
    /\ i.len = 2 /\ i.size = 0 /\ i.imm = NoImm /\ NoOperand(i)

validate_illegal(i) ==
    /\ i.len = 2 /\ i.size = 0 /\ NoOperand(i)
    /\ \/ i.imm = NoImm /\ i.opcode = \h4AFC
       \/ i.imm = Number(10) /\ Top(i.opcode) = 10
       \/ i.imm = Number(11) /\ Top(i.opcode) = 15

validate_stop(i) ==
    i.opcode = \h4E72 /\ i.len = 4 /\ i.size = 0 /\ i.imm.width <= 2
    /\ NoOperand(i)

validate_trap(i) ==
    /\ Matches(i.opcode, \h4E40, 4) /\ i.imm = Number(i.opcode % 16)
    /\ i.len = 2 /\ i.size = 0 /\ NoOperand(i)

validate_move_usp(i) ==
    /\ i.len = 2 /\ i.size = 4 /\ i.reg < 8 /\ Clear(i, Stray)
    /\ \/ /\ i.src = AReg(i.reg) /\ i.dst = NoEa
          /\ i.opcode = \h4E60 + i.reg
       \/ /\ i.dst = AReg(i.reg) /\ i.src = NoEa
          /\ i.opcode = \h4E68 + i.reg

BitKind(i) == (CHOOSE k \in 1..4 : BitNames[k] = i.name) - 1

\* BTST may read what the others, which alter, may not.
validate_bit(i) ==
    LET dynamic == i.src.mode = "dreg"
        base == IF dynamic THEN 2 ELSE 4
        modes == IF i.name # "BTST" THEN DataAlterableModes
                 ELSE IF dynamic THEN DataModes ELSE DataModes \ {"imm"}
    IN  /\ IF dynamic
           THEN /\ Payload(i.src, i.size, 2) /\ i.src_reg = i.src.reg
                /\ i.imm = NoImm
           ELSE i.src = NoEa /\ i.src_reg = 0 /\ i.imm.width <= 1
        /\ i.size = IF i.dst.mode = "dreg" THEN 4 ELSE 1
        /\ Operand(i.dst, modes, i.size, base)
        /\ i.opcode = (IF dynamic THEN \h0100 + X(i.src.reg) ELSE \h0800)
                      + 64 * BitKind(i) + FieldOf(i.dst)
        /\ Clear(i, {"cond", "target"})
        /\ LegacyOf(i, i.dst, IF dynamic THEN "dreg_to_dreg" ELSE "dreg")
        /\ Length(i, base, i.dst)

\* The legacy fields of an address register are those of no mode.
validate_quick_op(i) ==
    /\ i.imm \in {Number(n) : n \in 1..8} /\ i.src = NoEa
    /\ Clear(i, {"src_reg", "cond", "target"})
    /\ Operand(i.dst, QuickModes, i.size, 2)
    /\ i.size \in Sizes /\ (i.dst.mode = "areg" => i.size # 1)
    /\ LegacyOf(i, i.dst, "dreg") /\ Length(i, 2, i.dst)
    /\ i.opcode = \h5000 + X(i.imm.value % 8)
                  + (IF i.name = "SUBQ" THEN \h0100 ELSE 0)
                  + SizeField(i.size) + FieldOf(i.dst)

MoveLegacyIs(i, form, reg, src_reg, imm, abs, disp) ==
    LegacyIs(i, form, reg, abs, disp) /\ i.src_reg = src_reg /\ i.imm = imm

validate_move_legacy_fields(i) ==
    LET s == i.src
        d == i.dst
    IN  IF d.mode \in AbsModes /\ s.mode \in {"areg", "dreg", "imm"}
        THEN MoveLegacyIs(i, CASE s.mode = "areg" -> "areg_to_abs"
                               [] s.mode = "dreg" -> "dreg_to_abs"
                               [] s.mode = "imm" -> "imm_to_abs",
                          IF s.mode = "imm" THEN 0 ELSE s.reg, 0,
                          s.imm, d.abs, 0)
        ELSE IF d.mode = "dreg" /\ s.mode \in AbsModes
        THEN MoveLegacyIs(i, "abs_to_dreg", d.reg, 0, NoImm, s.abs, 0)
        ELSE IF d.mode = "dreg" /\ s.mode = "adisp"
        THEN MoveLegacyIs(i, "areg_disp", d.reg, s.reg, NoImm, <<>>, s.disp)
        ELSE IF d.mode = "dreg" /\ s.mode = "imm"
        THEN MoveLegacyIs(i, "imm_to_dreg", d.reg, 0, s.imm, <<>>, 0)
        ELSE IF d.mode = "dreg" /\ s.mode = "dreg"
        THEN MoveLegacyIs(i, "dreg_to_dreg", d.reg, s.reg, NoImm, <<>>, 0)
        ELSE MoveLegacyIs(i, "none", 0, 0, NoImm, <<>>, 0)

MoveBase(size) == IF size = 1 THEN \h1000 ELSE IF size = 2 THEN \h3000 ELSE \h2000

validate_move(i) ==
    LET field == FieldOf(i.dst)
    IN  /\ i.size \in Sizes /\ Clear(i, {"cond", "target"})
        /\ MoveSource(i) /\ Operand(i.dst, DataAlterableModes, i.size, 2)
        /\ validate_move_legacy_fields(i)
        /\ i.len = 2 + EaLength(i.src, i.size) + EaLength(i.dst, i.size)
        /\ i.opcode = MoveBase(i.size) + X(field % 8) + 64 * (field \div 8)
                      + FieldOf(i.src)

validate_control_transfer(i) ==
    LET s == i.src
        static == s.mode \in AbsModes \cup {"pc_disp"}
    IN  /\ i.size = 0 /\ i.dst = NoEa
        /\ Clear(i, {"imm", "src_reg", "cond", "abs"})
        /\ Operand(s, ControlModes, 0, 2) /\ Length(i, 2, s)
        /\ i.opcode = (IF i.name = "JMP" THEN \h4EC0 ELSE \h4E80) + FieldOf(s)
        /\ i.form = IF s.mode = "aind" THEN "areg_indirect"
                    ELSE IF s.mode = "pc_disp" THEN "pc_relative"
                    ELSE IF static THEN "abs" ELSE "none"
        /\ i.reg = IF s.mode = "aind" THEN s.reg ELSE 0
        /\ i.target = IF static THEN s.abs ELSE <<>>
        /\ i.disp = IF s.mode = "pc_disp" THEN s.disp ELSE 0

\* Mutation: the length is not compared with the operand's.
PeaAnyLength(i) ==
    /\ i.size = 4 /\ i.dst = NoEa /\ Clear(i, Stray \cup {"reg"})
    /\ Operand(i.src, ControlModes, 4, 2)
    /\ i.opcode = \h4840 + FieldOf(i.src)

validate_pea(i) ==
    /\ i.size = 4 /\ i.dst = NoEa /\ Clear(i, Stray \cup {"reg"})
    /\ Operand(i.src, ControlModes, 4, 2) /\ Length(i, 2, i.src)
    /\ i.opcode = \h4840 + FieldOf(i.src)

validate_lea(i) ==
    LET s == i.src
    IN  /\ i.size = 4 /\ i.dst.mode = "areg" /\ i.dst.reg < 8
        /\ i.reg = i.dst.reg /\ Clear(i, Stray \ {"target", "disp"})
        /\ i.target = IF s.mode \in AbsModes \cup {"pc_disp", "pc_index"}
                      THEN s.abs ELSE <<>>
        /\ i.disp = IF s.mode = "pc_disp" THEN s.disp ELSE 0
        /\ Operand(s, ControlModes, 4, 2) /\ Length(i, 2, s)
        /\ i.opcode = \h41C0 + X(i.dst.reg) + FieldOf(s)

\* A destination is only stored from SR; the CCR cannot be read on a 68000.
validate_move_sr_ccr(i) ==
    /\ i.size = 2 /\ Clear(i, Stray \cup {"reg"})
    /\ IF i.dst.mode # "none"
       THEN /\ i.name = "MOVE_SR" /\ i.src = NoEa
            /\ Operand(i.dst, DataAlterableModes, 2, 2) /\ Length(i, 2, i.dst)
            /\ i.opcode = \h40C0 + FieldOf(i.dst)
       ELSE /\ i.dst = NoEa /\ Operand(i.src, DataModes, 2, 2)
            /\ Length(i, 2, i.src)
            /\ i.opcode = (IF i.name = "MOVE_CCR" THEN \h44C0 ELSE \h46C0)
                          + FieldOf(i.src)

\* The register list comes first, so that the operand's words are at 4.
validate_movem(i) ==
    /\ i.size \in {2, 4} /\ i.imm.width <= 2
    /\ Clear(i, (Stray \ {"imm"}) \cup {"reg"})
    /\ \/ /\ i.src = NoEa /\ Operand(i.dst, RegToMem, i.size, 4)
          /\ Length(i, 4, i.dst)
          /\ i.opcode = \h4880 + LongField(i.size) + FieldOf(i.dst)
       \/ /\ i.dst = NoEa /\ Operand(i.src, MemToReg, i.size, 4)
          /\ Length(i, 4, i.src)
          /\ i.opcode = \h4C80 + LongField(i.size) + FieldOf(i.src)

validate_movep(i) ==
    /\ i.len = 4 /\ i.size \in {2, 4}
    /\ Clear(i, Stray \ {"disp", "src_reg"})
    /\ \/ /\ i.src.mode = "dreg" /\ i.dst.mode = "adisp"
          /\ i.src_reg = i.src.reg /\ i.reg = i.src.reg
          /\ i.disp = i.dst.disp
          /\ i.opcode = \h0188 + X(i.src.reg) + LongField(i.size) + i.dst.reg
       \/ /\ i.src.mode = "adisp" /\ i.dst.mode = "dreg"
          /\ i.src_reg = 0 /\ i.reg = i.dst.reg /\ i.disp = i.src.disp
          /\ i.opcode = \h0108 + X(i.dst.reg) + LongField(i.size) + i.src.reg
    /\ Payload(i.src, i.size, 2) /\ Payload(i.dst, i.size, 2)

validate_link_unlk(i) ==
    /\ Clear(i, (Stray \ {"disp"}) \cup {"src", "dst"}) /\ i.reg < 8
    /\ IF i.name = "LINK"
       THEN i.opcode = \h4E50 + i.reg /\ i.len = 4 /\ i.size = 2
       ELSE i.opcode = \h4E58 + i.reg /\ i.len = 2 /\ i.size = 0 /\ i.disp = 0

validate_exg(i) ==
    LET s == i.src
        d == i.dst
    IN  /\ i.len = 2 /\ i.size = 4 /\ Clear(i, Stray \ {"src_reg"})
        /\ i.src_reg = s.reg /\ i.reg = d.reg
        /\ Payload(s, 4, 2) /\ Payload(d, 4, 2)
        /\ \/ s.mode = "dreg" /\ d.mode = "dreg"
              /\ i.opcode = \hC140 + X(s.reg) + d.reg
           \/ s.mode = "areg" /\ d.mode = "areg"
              /\ i.opcode = \hC148 + X(s.reg) + d.reg
           \/ s.mode = "dreg" /\ d.mode = "areg"
              /\ i.opcode = \hC188 + X(s.reg) + d.reg

\* The immediate is the opcode's low byte.
validate_moveq(i) ==
    /\ i.len = 2 /\ i.size = 4 /\ i.form = "imm_to_dreg" /\ i.reg < 8
    /\ Clear(i, Stray \ {"form", "imm"}) /\ i.src = NoEa /\ i.dst = DReg(i.reg)
    /\ i.imm = Imm(1, 1)
    /\ i.opcode = \h7000 + X(i.reg) + (i.opcode % 256)

validate_ext_swap(i) ==
    /\ i.len = 2 /\ i.form = "dreg" /\ Clear(i, Stray \ {"form"})
    /\ i.src = NoEa /\ i.dst = DReg(i.reg) /\ i.reg < 8
    /\ IF i.name = "EXT"
       THEN i.size \in {2, 4} /\ i.opcode = \h4880 + LongField(i.size) + i.reg
       ELSE i.size = 2 /\ i.opcode = \h4840 + i.reg

validate_scc(i) ==
    /\ i.size = 1 /\ i.cond <= 15 /\ Clear(i, (Stray \ {"cond"}) \cup {"reg"})
    /\ i.src = NoEa /\ Operand(i.dst, DataAlterableModes, 1, 2)
    /\ Length(i, 2, i.dst)
    /\ i.opcode = \h50C0 + 256 * i.cond + FieldOf(i.dst)

validate_dbcc(i) ==
    /\ i.len = 4 /\ i.size = 2 /\ i.cond <= 15 /\ i.reg < 8
    /\ Clear(i, {"imm", "src_reg", "form", "abs", "src", "dst"})
    /\ i.target = <<2, i.disp>>
    /\ i.opcode = \h50C8 + 256 * i.cond + i.reg

BinaryBase(name) ==
    CASE name = "OR" -> \h8000 [] name = "SUB" -> \h9000
      [] name \in {"CMP", "EOR", "CMPM", "CMPA"} -> \hB000
      [] name = "AND" -> \hC000 [] name = "ADD" -> \hD000
      [] name = "ADDA" -> \hD000 [] name = "SUBA" -> \h9000

validate_ea_to_dreg_binary(i) ==
    LET alu == i.name \in {"ADD", "SUB", "CMP"}
    IN  /\ i.size \in Sizes /\ Clear(i, Stray \ {"src_reg", "form"})
        /\ i.src_reg = i.src.reg
        /\ MoveSource(i) /\ (i.src.mode = "areg" => alu)
        /\ i.dst = DReg(i.reg) /\ i.reg < 8
        /\ i.form = IF alu THEN "dreg_to_dreg" ELSE "none"
        /\ Length(i, 2, i.src)
        /\ i.opcode = BinaryBase(i.name) + X(i.dst.reg) + SizeField(i.size)
                      + FieldOf(i.src)

\* ADD, SUB, OR and AND into memory; EOR into a data register as well.
validate_dreg_to_ea_binary(i, modes) ==
    /\ i.size \in Sizes /\ i.imm = NoImm
    /\ i.src = DReg(i.src_reg) /\ i.src_reg < 8
    /\ Operand(i.dst, modes, i.size, 2)
    /\ Clear(i, {"cond", "target"}) /\ LegacyOf(i, i.dst, "dreg_to_dreg")
    /\ Length(i, 2, i.dst)
    /\ i.opcode = BinaryBase(i.name) + X(i.src.reg) + \h0100
                  + SizeField(i.size) + FieldOf(i.dst)

validate_cmpm(i) ==
    /\ i.size \in Sizes /\ i.len = 2 /\ Clear(i, Stray \ {"src_reg"})
    /\ i.src = Post(i.src_reg) /\ i.dst = Post(i.reg)
    /\ i.src_reg < 8 /\ i.reg < 8
    /\ i.opcode = \hB108 + X(i.dst.reg) + SizeField(i.size) + i.src.reg

validate_add_sub_or_and(i) ==
    IF i.dst.mode = "dreg" THEN validate_ea_to_dreg_binary(i)
    ELSE validate_dreg_to_ea_binary(i, Memory)

validate_address_reg_op(i) ==
    /\ i.size \in {2, 4} /\ MoveSource(i)
    /\ i.dst = AReg(i.reg) /\ i.reg < 8 /\ Clear(i, {"imm", "abs", "cond"})
    /\ IF i.name = "MOVEA" /\ i.src.mode = "pc_index"
       THEN /\ i.form = "pc_index_to_areg" /\ i.src_reg = IndexReg
            /\ i.disp = i.src.disp /\ i.target = i.src.abs
       ELSE Clear(i, {"form", "src_reg", "disp", "target"})
    /\ Length(i, 2, i.src)
    /\ i.opcode = IF i.name = "MOVEA"
                  THEN MoveBase(i.size) + X(i.dst.reg) + \h40 + FieldOf(i.src)
                  ELSE BinaryBase(i.name) + X(i.dst.reg) + FieldOf(i.src)
                       + (IF i.size = 2 THEN \h00C0 ELSE \h01C0)

validate_tst(i) ==
    /\ i.size \in Sizes /\ Operand(i.src, DataAlterableModes, i.size, 2)
    /\ Clear(i, {"target", "cond", "src_reg", "imm", "dst"})
    /\ LegacyOf(i, i.src, "dreg") /\ Length(i, 2, i.src)
    /\ i.opcode = \h4A00 + SizeField(i.size) + FieldOf(i.src)

ImmediateBase(name) == 256 * (CHOOSE h \in DOMAIN ImmediateNames :
                                ImmediateNames[h] = name)

validate_immediate_to_ea(i) ==
    /\ i.size \in Sizes /\ Operand(i.dst, DataAlterableModes, i.size, 2)
    /\ i.imm.width <= i.size
    /\ Clear(i, {"src_reg", "cond", "target", "src"})
    /\ LegacyOf(i, i.dst, "imm_to_dreg")
    /\ Length(i, IF i.size = 4 THEN 6 ELSE 4, i.dst)
    /\ i.opcode = ImmediateBase(i.name) + SizeField(i.size) + FieldOf(i.dst)

validate_word_data_to_dreg(i) ==
    LET base == CASE i.name = "CHK" -> \h4180
                  [] i.name = "MULU" -> \hC0C0 [] i.name = "MULS" -> \hC1C0
                  [] i.name = "DIVU" -> \h80C0 [] i.name = "DIVS" -> \h81C0
    IN  /\ i.size = 2 /\ Operand(i.src, DataModes, 2, 2) /\ Clear(i, Stray)
        /\ i.dst = DReg(i.reg) /\ i.reg < 8 /\ Length(i, 2, i.src)
        /\ i.opcode = base + X(i.dst.reg) + FieldOf(i.src)

validate_immediate_to_ccr_sr(i) ==
    /\ i.len = 4 /\ NoOperand(i)
    /\ i.opcode \in DOMAIN ImmediateToStatus
    /\ ImmediateToStatus[i.opcode] = i.name
    /\ i.size = IF i.name \in {"ORI_TO_CCR", "ANDI_TO_CCR", "EORI_TO_CCR"}
                THEN 1 ELSE 2
    /\ i.imm.width <= i.size

\* A displacement of two bytes follows exactly when the low byte is 0.
validate_branch(i) ==
    LET cond == Bits(i.opcode, 8, 4)
    IN  /\ i.size = 0 /\ i.target = <<2, i.disp>>
        /\ Clear(i, {"imm", "reg", "src_reg", "form", "abs", "src", "dst"})
        /\ IF i.opcode % 256 # 0 THEN i.len = 2 /\ i.disp = 1 ELSE i.len = 4
        /\ Top(i.opcode) = 6
        /\ IF i.name = "BCC" THEN i.cond = cond /\ cond \in 2..15
           ELSE cond = (IF i.name = "BRA" THEN 0 ELSE 1) /\ i.cond = 0

ShiftNames == {"ASR", "ASL", "LSR", "LSL", "ROXR", "ROXL", "ROR", "ROL"}

validate_shift_rotate(i) ==
    LET kind == CASE i.name \in {"ASR", "ASL"} -> 0 [] i.name \in {"LSR", "LSL"} -> 1
                  [] i.name \in {"ROXR", "ROXL"} -> 2 [] i.name \in {"ROR", "ROL"} -> 3
        left == IF i.name \in {"ASL", "LSL", "ROXL", "ROL"} THEN 256 ELSE 0
        onReg == \hE000 + left + SizeField(i.size) + 8 * kind + i.dst.reg
    IN  /\ Clear(i, Stray \ {"imm", "src_reg"})
        /\ IF i.dst.mode = "dreg"
           THEN /\ i.size \in Sizes /\ i.len = 2
                /\ i.dst = DReg(i.reg) /\ i.reg < 8
                /\ \/ /\ i.src = DReg(i.src_reg) /\ i.src_reg < 8
                      /\ i.imm = NoImm
                      /\ i.opcode = onReg + X(i.src.reg) + 32
                   \/ /\ i.src = NoEa /\ i.src_reg = 0
                      /\ i.imm \in {Number(n) : n \in 1..8}
                      /\ i.opcode = onReg + X(i.imm.value % 8)
           ELSE /\ i.src = NoEa /\ i.size = 2 /\ i.imm = Number(1)
                /\ i.src_reg = 0 /\ i.reg = 0
                /\ Operand(i.dst, Memory, 2, 2) /\ Length(i, 2, i.dst)
                /\ i.opcode = \hE0C0 + X(kind) + left + FieldOf(i.dst)

validate_unary_data_alterable(i) ==
    LET base == CASE i.name = "NEGX" -> \h4000 [] i.name = "CLR" -> \h4200
                  [] i.name = "NEG" -> \h4400 [] i.name = "NOT" -> \h4600
                  [] i.name = "NBCD" -> \h4800 [] i.name = "TAS" -> \h4AC0
        byteOnly == i.name \in {"NBCD", "TAS"}
    IN  /\ i.src = NoEa /\ Clear(i, {"imm", "src_reg", "cond", "target"})
        /\ Operand(i.dst, DataAlterableModes, i.size, 2)
        /\ i.size \in IF byteOnly THEN {1} ELSE Sizes
        /\ Length(i, 2, i.dst) /\ LegacyOf(i, i.dst, "dreg")
        /\ i.opcode = base + FieldOf(i.dst)
                      + (IF byteOnly THEN 0 ELSE SizeField(i.size))

ng_m68k_validate(i) ==
    CASE i.name \in {"NOP", "RESET", "RTE", "RTR", "RTS", "TRAPV"}
            -> valid_fixed_no_operand(i)
      [] i.name = "ILLEGAL" -> validate_illegal(i)
      [] i.name = "STOP" -> validate_stop(i)
      [] i.name = "TRAP" -> validate_trap(i)
      [] i.name \in {"BRA", "BSR", "BCC"} -> validate_branch(i)
      [] i.name \in {"JMP", "JSR"} -> validate_control_transfer(i)
      [] i.name = "PEA" -> validate_pea(i)
      [] i.name = "LEA" -> validate_lea(i)
      [] i.name = "MOVE" -> validate_move(i)
      [] i.name \in {"MOVEA", "ADDA", "SUBA", "CMPA"}
            -> validate_address_reg_op(i)
      [] i.name = "EXG" -> validate_exg(i)
      [] i.name = "MOVE_USP" -> validate_move_usp(i)
      [] i.name \in {"LINK", "UNLK"} -> validate_link_unlk(i)
      [] i.name = "MOVEP" -> validate_movep(i)
      [] i.name = "MOVEM" -> validate_movem(i)
      [] i.name \in {"MOVE_SR", "MOVE_CCR"} -> validate_move_sr_ccr(i)
      [] i.name \in {"CLR", "NEG", "NEGX", "NOT", "NBCD", "TAS"}
            -> validate_unary_data_alterable(i)
      [] i.name \in {"ADDI", "SUBI", "ORI", "ANDI", "EORI", "CMPI"}
            -> validate_immediate_to_ea(i)
      [] i.name \in {"ORI_TO_CCR", "ORI_TO_SR", "ANDI_TO_CCR", "ANDI_TO_SR",
                     "EORI_TO_CCR", "EORI_TO_SR"}
            -> validate_immediate_to_ccr_sr(i)
      [] i.name \in {"ADD", "SUB", "OR", "AND"} -> validate_add_sub_or_and(i)
      [] i.name = "CMP" -> validate_ea_to_dreg_binary(i)
      [] i.name = "CMPM" -> validate_cmpm(i)
      [] i.name = "EOR" -> validate_dreg_to_ea_binary(i, DataAlterableModes)
      [] i.name \in {"BTST", "BCHG", "BCLR", "BSET"} -> validate_bit(i)
      [] i.name \in {"ADDQ", "SUBQ"} -> validate_quick_op(i)
      [] i.name = "TST" -> validate_tst(i)
      [] i.name \in {"CHK", "MULU", "MULS", "DIVU", "DIVS"}
            -> validate_word_data_to_dreg(i)
      [] i.name \in {"EXT", "SWAP"} -> validate_ext_swap(i)
      [] i.name = "SCC" -> validate_scc(i)
      [] i.name = "DBCC" -> validate_dbcc(i)
      [] i.name \in ShiftNames -> validate_shift_rotate(i)
      [] i.name \in {"ADDX", "SUBX", "ABCD", "SBCD"} -> valid_extend_pair(i)
      [] i.name = "MOVEQ" -> validate_moveq(i)
      [] OTHER -> FALSE   \* INVALID and UNKNOWN

=============================================================================

--------------------------- MODULE M68kOpcodeMap ---------------------------
(***************************************************************************)
(* The reference for the decoder: the opcodes of each instruction, as an   *)
(* assembler for the MC68000 would make them.  Operands are put together   *)
(* from the addressing categories of the processor's manual.               *)
(***************************************************************************)
EXTENDS Naturals

Reg8 == 0..7
Field(modes) == {8 * m + r : m \in modes, r \in Reg8}

AllEa     == Field(0..6) \cup 56..60
DReg6     == Field({0})
AReg6     == Field({1})
PcOrImm   == 58..60
DataEa6   == AllEa \ AReg6
MemoryEa6 == DataEa6 \ DReg6
ControlEa6 == MemoryEa6 \ (Field({3, 4}) \cup {60})
AlterableEa6 == AllEa \ PcOrImm

\* base, a register in bits 9 to 11, a size in bits 6 and 7, an operand.
Opcodes(base, regs, sizes, eas) ==
    {base + 512 * x + 64 * s + e : x \in regs, s \in sizes, e \in eas}

Fixed(base, eas) == Opcodes(base, {0}, {0}, eas)

\* Byte, word and long forms of which the byte form has no address register.
NoByteAReg(base, regs, eas) ==
    Opcodes(base, regs, {0}, eas \ AReg6) \cup Opcodes(base, regs, {1, 2}, eas)

AnyData   == DataEa6
DataAlt   == DataEa6 \cap AlterableEa6
MemoryAlt == MemoryEa6 \cap AlterableEa6
Sized     == 0..2

Moves(dsts) ==
    {b + 512 * (d % 8) + 64 * (d \div 8) + e :
        b \in {\h2000, \h3000}, d \in dsts, e \in AllEa}

ByteMoves ==
    {\h1000 + 512 * (d % 8) + 64 * (d \div 8) + e : d \in DataAlt, e \in DataEa6}

\* A register operation: a count or register in bits 9 to 11 of either kind,
\* or one bit of a memory word.
Shift(kind, left) ==
    Opcodes(\hE000 + 8 * kind + 256 * left, Reg8, Sized, Reg8 \cup (32..39))
    \cup Fixed(\hE0C0 + 512 * kind + 256 * left, MemoryAlt)

BitOp6(kind, staticEas, dynamicEas) ==
    Fixed(\h0800 + 64 * kind, staticEas)
    \cup Opcodes(\h0100 + 64 * kind, Reg8, {0}, dynamicEas)

Branch(conds) == {\h6000 + 256 * c + d : c \in conds, d \in 0..255}

Manual ==
  [MOVE   |-> ByteMoves \cup Moves(DataAlt),
   MOVEA  |-> Moves(AReg6),
   ADDA   |-> Opcodes(\hD0C0, Reg8, {0, 4}, AllEa),
   SUBA   |-> Opcodes(\h90C0, Reg8, {0, 4}, AllEa),
   CMPA   |-> Opcodes(\hB0C0, Reg8, {0, 4}, AllEa),
   ADD    |-> NoByteAReg(\hD000, Reg8, AllEa)
                \cup Opcodes(\hD100, Reg8, Sized, MemoryAlt),
   SUB    |-> NoByteAReg(\h9000, Reg8, AllEa)
                \cup Opcodes(\h9100, Reg8, Sized, MemoryAlt),
   CMP    |-> NoByteAReg(\hB000, Reg8, AllEa),
   CMPM   |-> Opcodes(\hB108, Reg8, Sized, Reg8),
   EOR    |-> Opcodes(\hB100, Reg8, Sized, DataAlt),
   OR     |-> Opcodes(\h8000, Reg8, Sized, AnyData)
                \cup Opcodes(\h8100, Reg8, Sized, MemoryAlt),
   AND    |-> Opcodes(\hC000, Reg8, Sized, AnyData)
                \cup Opcodes(\hC100, Reg8, Sized, MemoryAlt),
   EXG    |-> Opcodes(\hC100, Reg8, {1}, 0..15)
                \cup Opcodes(\hC100, Reg8, {2}, 8..15),
   MULU   |-> Opcodes(\hC0C0, Reg8, {0}, AnyData),
   MULS   |-> Opcodes(\hC1C0, Reg8, {0}, AnyData),
   DIVU   |-> Opcodes(\h80C0, Reg8, {0}, AnyData),
   DIVS   |-> Opcodes(\h81C0, Reg8, {0}, AnyData),
   ADDX   |-> Opcodes(\hD100, Reg8, Sized, 0..15),
   SUBX   |-> Opcodes(\h9100, Reg8, Sized, 0..15),
   ABCD   |-> Opcodes(\hC100, Reg8, {0}, 0..15),
   SBCD   |-> Opcodes(\h8100, Reg8, {0}, 0..15),
   ASR |-> Shift(0, 0), ASL |-> Shift(0, 1), LSR |-> Shift(1, 0),
   LSL |-> Shift(1, 1), ROXR |-> Shift(2, 0), ROXL |-> Shift(2, 1),
   ROR |-> Shift(3, 0), ROL |-> Shift(3, 1),
   BTST   |-> BitOp6(0, AnyData \ {60}, AnyData),
   BCHG   |-> BitOp6(1, DataAlt, DataAlt),
   BCLR   |-> BitOp6(2, DataAlt, DataAlt),
   BSET   |-> BitOp6(3, DataAlt, DataAlt),
   MOVEP  |-> Opcodes(\h0108, Reg8, 0..3, Reg8),
   ORI    |-> Opcodes(\h0000, {0}, Sized, DataAlt),
   ANDI   |-> Opcodes(\h0200, {0}, Sized, DataAlt),
   SUBI   |-> Opcodes(\h0400, {0}, Sized, DataAlt),
   ADDI   |-> Opcodes(\h0600, {0}, Sized, DataAlt),
   EORI   |-> Opcodes(\h0A00, {0}, Sized, DataAlt),
   CMPI   |-> Opcodes(\h0C00, {0}, Sized, DataAlt),
   ORI_TO_CCR |-> {\h003C}, ORI_TO_SR |-> {\h007C}, ANDI_TO_CCR |-> {\h023C},
   ANDI_TO_SR |-> {\h027C}, EORI_TO_CCR |-> {\h0A3C}, EORI_TO_SR |-> {\h0A7C},
   NEGX   |-> Opcodes(\h4000, {0}, Sized, DataAlt),
   CLR    |-> Opcodes(\h4200, {0}, Sized, DataAlt),
   NEG    |-> Opcodes(\h4400, {0}, Sized, DataAlt),
   NOT    |-> Opcodes(\h4600, {0}, Sized, DataAlt),
   TST    |-> Opcodes(\h4A00, {0}, Sized, DataAlt),
   NBCD   |-> Fixed(\h4800, DataAlt),
   TAS    |-> Fixed(\h4AC0, DataAlt),
   MOVE_SR  |-> Fixed(\h40C0, DataAlt) \cup Fixed(\h46C0, AnyData),
   MOVE_CCR |-> Fixed(\h44C0, AnyData),
   SWAP   |-> Fixed(\h4840, Reg8),
   EXT    |-> Opcodes(\h4880, {0}, {0, 1}, Reg8),
   PEA    |-> Fixed(\h4840, ControlEa6),
   MOVEM  |-> Opcodes(\h4880, {0}, {0, 1},
                      (ControlEa6 \cap AlterableEa6) \cup Field({4}))
                \cup Opcodes(\h4C80, {0}, {0, 1}, ControlEa6 \cup Field({3})),
   CHK    |-> Opcodes(\h4180, Reg8, {0}, AnyData),
   LEA    |-> Opcodes(\h41C0, Reg8, {0}, ControlEa6),
   JSR    |-> Fixed(\h4E80, ControlEa6),
   JMP    |-> Fixed(\h4EC0, ControlEa6),
   TRAP   |-> Fixed(\h4E40, 0..15),
   LINK   |-> Fixed(\h4E50, Reg8),
   UNLK   |-> Fixed(\h4E58, Reg8),
   MOVE_USP |-> Fixed(\h4E60, 0..15),
   RESET |-> {\h4E70}, NOP |-> {\h4E71}, STOP |-> {\h4E72}, RTE |-> {\h4E73},
   RTS |-> {\h4E75}, TRAPV |-> {\h4E76}, RTR |-> {\h4E77},
   ILLEGAL |-> {\h4AFC} \cup (\hA000..\hAFFF) \cup (\hF000..\hFFFF),
   ADDQ   |-> NoByteAReg(\h5000, Reg8, AlterableEa6),
   SUBQ   |-> NoByteAReg(\h5100, Reg8, AlterableEa6),
   SCC    |-> {\h50C0 + 256 * c + e : c \in 0..15, e \in DataAlt},
   DBCC   |-> {\h50C8 + 256 * c + r : c \in 0..15, r \in Reg8},
   BRA    |-> Branch({0}), BSR |-> Branch({1}), BCC |-> Branch(2..15),
   MOVEQ  |-> {\h7000 + 512 * x + d : x \in Reg8, d \in 0..255}]

\* The instructions the opcode stands for.
Meaning(op) == {name \in DOMAIN Manual : op \in Manual[name]}

=============================================================================

----------------------------- MODULE M68kCycles -----------------------------
(***************************************************************************)
(* The cycles charged for an instruction (recompiler/src/m68k_cycles.c): a  *)
(* table of rows {match, mask, cycles}, each for all opcodes that agree     *)
(* with match on the bits of mask, sorted by mask, a later row overwriting  *)
(* an earlier one.                                                          *)
(*                                                                         *)
(* Rows that differ in the addressing mode alone stand together here: a set *)
(* of opcodes without their six EA bits, and the cycles of the modes in     *)
(* order; no is a row that is not there.  The masks F1F8 and FFF8 name a    *)
(* mode, F1FF and FFFF a register of mode 7; F1xx leaves bits 9 to 11 out.  *)
(* The rows of FFFF and F1FF that repeat what the row of their mode or      *)
(* line says, for a byte at (A7)+ and -(A7) and for Bcc with an empty       *)
(* displacement, are not repeated.                                          *)
(***************************************************************************)
EXTENDS M68kDecode, Integers

no == -1

-----------------------------------------------------------------------------
(* Mask F1F8.                                                              *)

BitAndByteRows ==
    {<<{\h0100}, <<6, 16, 8, 8, 10, 12, 14>>>>,
     <<{\h0140, \h01C0}, <<8, 24, 12, 12, 14, 16, 18>>>>,
     <<{\h0180}, <<10, 16, 12, 12, 14, 16, 18>>>>,
     <<{\h1000}, <<4, no, 8, 8, 10, 12, 14>>>>,
     <<{\h1080, \h10C0, \h1100}, <<8, no, 12, 12, 14, 16, 18>>>>,
     <<{\h1140}, <<12, no, 16, 16, 18, 20, 22>>>>,
     <<{\h1180}, <<14, no, 18, 18, 20, 22, 24>>>>}

MoveRows ==
    {<<{\h2000, \h2040}, <<4, 4, 12, 12, 14, 16, 18>>>>,
     <<{\h2080, \h20C0, \h2100}, <<12, 12, 20, 20, 22, 24, 26>>>>,
     <<{\h2140}, <<16, 16, 24, 24, 26, 28, 30>>>>,
     <<{\h2180}, <<18, 18, 26, 26, 28, 30, 32>>>>,
     <<{\h3000, \h3040}, <<4, 4, 8, 8, 10, 12, 14>>>>,
     <<{\h3080, \h30C0, \h3100}, <<8, 8, 12, 12, 14, 16, 18>>>>,
     <<{\h3140}, <<12, 12, 16, 16, 18, 20, 22>>>>,
     <<{\h3180}, <<14, 14, 18, 18, 20, 22, 24>>>>}

QuickAndOrRows ==
    {<<{\h4180}, <<10, no, 14, 14, 16, 18, 20>>>>,
     <<{\h41C0}, <<no, no, 4, no, no, 8, 12>>>>,
     <<{\h5000, \h5100}, <<4, no, 12, 12, 14, 16, 18>>>>,
     <<{\h5040}, <<4, 4, 12, 12, 14, 16, 18>>>>,
     <<{\h5080, \h5180}, <<8, 8, 20, 20, 22, 24, 26>>>>,
     <<{\h5140}, <<4, 8, 12, 12, 14, 16, 18>>>>,
     <<{\h8000, \h8040}, <<4, no, 8, 8, 10, 12, 14>>>>,
     <<{\h8080}, <<8, no, 14, 14, 16, 18, 20>>>>,
     <<{\h80C0}, <<140, no, 144, 144, 146, 148, 150>>>>,
     <<{\h8100}, <<6, 18, 12, 12, 14, 16, 18>>>>,
     <<{\h8140}, <<no, no, 12, 12, 14, 16, 18>>>>,
     <<{\h8180}, <<no, no, 20, 20, 22, 24, 26>>>>,
     <<{\h81C0}, <<158, no, 162, 162, 164, 166, 168>>>>}

SubAndCmpRows ==
    {<<{\h9000, \hB000}, <<4, no, 8, 8, 10, 12, 14>>>>,
     <<{\h9040, \hB040}, <<4, 4, 8, 8, 10, 12, 14>>>>,
     <<{\h9080, \h91C0}, <<8, 8, 14, 14, 16, 18, 20>>>>,
     <<{\h90C0}, <<8, 8, 12, 12, 14, 16, 18>>>>,
     <<{\h9100, \h9140}, <<4, 18, 12, 12, 14, 16, 18>>>>,
     <<{\h9180}, <<8, 30, 20, 20, 22, 24, 26>>>>,
     <<{\hB080, \hB1C0}, <<6, 6, 14, 14, 16, 18, 20>>>>,
     <<{\hB0C0}, <<6, 6, 10, 10, 12, 14, 16>>>>,
     <<{\hB100, \hB140}, <<4, 12, 12, 12, 14, 16, 18>>>>,
     <<{\hB180}, <<8, 20, 20, 20, 22, 24, 26>>>>}

AndAndAddRows ==
    {<<{\hC000, \hC040, \hD000}, <<4, no, 8, 8, 10, 12, 14>>>>,
     <<{\hC080}, <<8, no, 14, 14, 16, 18, 20>>>>,
     <<{\hC0C0, \hC1C0}, <<54, no, 58, 58, 60, 62, 64>>>>,
     <<{\hC100}, <<6, 18, 12, 12, 14, 16, 18>>>>,
     <<{\hC140}, <<6, 6, 12, 12, 14, 16, 18>>>>,
     <<{\hC180}, <<no, 6, 20, 20, 22, 24, 26>>>>,
     <<{\hD040}, <<4, 4, 8, 8, 10, 12, 14>>>>,
     <<{\hD080, \hD1C0}, <<8, 8, 14, 14, 16, 18, 20>>>>,
     <<{\hD0C0}, <<8, 8, 12, 12, 14, 16, 18>>>>,
     <<{\hD100, \hD140}, <<4, 18, 12, 12, 14, 16, 18>>>>,
     <<{\hD180}, <<8, 30, 20, 20, 22, 24, 26>>>>}

ShiftRows ==
    {<<{\hE000, \hE040, \hE100, \hE140}, <<6, 6, 6, 6, 6, 6, 6, 6>>>>,
     <<{\hE080, \hE180}, <<8, 8, 8, 8, 8, 8, 8, 8>>>>}

-----------------------------------------------------------------------------
(* Mask F1FF.                                                              *)

MoveMode7 ==
    {<<{\h0100, \h1000, \h3000, \h3040}, <<12, 16, 12, 14, 8>>>>,
     <<{\h0140, \h0180, \h01C0}, <<16, 20>>>>,
     <<{\h1080, \h10C0, \h1100, \h2000, \h2040, \h3080, \h30C0, \h3100},
       <<16, 20, 16, 18, 12>>>>,
     <<{\h1140, \h3140}, <<20, 24, 20, 22, 16>>>>,
     <<{\h1180, \h3180}, <<22, 26, 22, 24, 18>>>>,
     <<{\h2080, \h20C0, \h2100}, <<24, 28, 24, 26, 20>>>>,
     <<{\h2140}, <<28, 32, 28, 30, 24>>>>,
     <<{\h2180}, <<30, 34, 30, 32, 26>>>>}

QuickAndOrMode7 ==
    {<<{\h4180}, <<18, 22, 18, 20, 14>>>>,
     <<{\h41C0}, <<8, 12, 8, 12>>>>,
     <<{\h5000, \h5040, \h5100, \h5140, \h8100, \h8140}, <<16, 20>>>>,
     <<{\h5080, \h5180, \h8180}, <<24, 28>>>>,
     <<{\h8000, \h8040}, <<12, 16, 12, 14, 8>>>>,
     <<{\h8080}, <<18, 22, 18, 20, 16>>>>,
     <<{\h80C0}, <<148, 152, 148, 150, 144>>>>,
     <<{\h81C0}, <<166, 170, 166, 168, 162>>>>}

SubAndCmpMode7 ==
    {<<{\h9000, \h9040, \hB000, \hB040}, <<12, 16, 12, 14, 8>>>>,
     <<{\h9080, \h91C0}, <<18, 22, 18, 20, 16>>>>,
     <<{\h90C0}, <<16, 20, 16, 18, 12>>>>,
     <<{\h9100, \h9140, \hB100, \hB140}, <<16, 20>>>>,
     <<{\h9180, \hB180}, <<24, 28>>>>,
     <<{\hB080, \hB1C0}, <<18, 22, 18, 20, 14>>>>,
     <<{\hB0C0}, <<14, 18, 14, 16, 10>>>>}

AndAndAddMode7 ==
    {<<{\hC000, \hC040, \hD000, \hD040}, <<12, 16, 12, 14, 8>>>>,
     <<{\hC080, \hD080, \hD1C0}, <<18, 22, 18, 20, 16>>>>,
     <<{\hC0C0, \hC1C0}, <<62, 66, 62, 64, 58>>>>,
     <<{\hC100, \hC140, \hD100, \hD140}, <<16, 20>>>>,
     <<{\hC180, \hD180}, <<24, 28>>>>,
     <<{\hD0C0}, <<16, 20, 16, 18, 12>>>>}

-----------------------------------------------------------------------------
(* Mask FFF8.                                                              *)

ImmediateRows ==
    {<<{\h0000, \h0040, \h0200, \h0240, \h0400, \h0440, \h0600, \h0640,
        \h0A00, \h0A40},
       <<8, no, 16, 16, 18, 20, 22>>>>,
     <<{\h0080, \h0480, \h0680, \h0A80}, <<16, no, 28, 28, 30, 32, 34>>>>,
     <<{\h0280}, <<14, no, 28, 28, 30, 32, 34>>>>,
     <<{\h0800}, <<10, no, 12, 12, 14, 16, 18>>>>,
     <<{\h0840, \h08C0}, <<12, no, 16, 16, 18, 20, 22>>>>,
     <<{\h0880}, <<14, no, 16, 16, 18, 20, 22>>>>,
     <<{\h0C00, \h0C40}, <<8, no, 12, 12, 14, 16, 18>>>>,
     <<{\h0C80}, <<14, no, 20, 20, 22, 24, 26>>>>}

MoveToAbsRows ==
    {<<{\h11C0}, <<12, no, 16, 16, 18, 20, 22>>>>,
     <<{\h13C0}, <<16, no, 20, 20, 22, 24, 26>>>>,
     <<{\h1EC0, \h1F00}, <<8, no, 12, 12, 14, 16, 18>>>>,
     <<{\h21C0}, <<16, 16, 24, 24, 26, 28, 30>>>>,
     <<{\h23C0}, <<20, 20, 28, 28, 30, 32, 34>>>>,
     <<{\h31C0}, <<12, 12, 16, 16, 18, 20, 22>>>>,
     <<{\h33C0}, <<16, 16, 20, 20, 22, 24, 26>>>>}

UnaryRows ==
    {<<{\h4000, \h4040, \h4200, \h4240, \h4400, \h4440, \h4600, \h4640},
       <<4, no, 12, 12, 14, 16, 18>>>>,
     <<{\h4080, \h4280, \h4480, \h4680}, <<6, no, 20, 20, 22, 24, 26>>>>,
     <<{\h40C0}, <<6, no, 12, 12, 14, 16, 18>>>>,
     <<{\h44C0, \h46C0}, <<12, no, 16, 16, 18, 20, 22>>>>}

MiscRows ==
    {<<{\h4800}, <<6, no, 12, 12, 14, 16, 18>>>>,
     <<{\h4840}, <<4, no, 12, no, no, 16, 20>>>>,
     <<{\h4880, \h48C0}, <<4, no, 8, no, 8, 12, 14>>>>,
     <<{\h4A00, \h4A40}, <<4, no, 8, 8, 10, 12, 14>>>>,
     <<{\h4A80}, <<4, no, 12, 12, 14, 16, 18>>>>,
     <<{\h4AC0}, <<4, no, 18, 18, 20, 22, 24>>>>,
     <<{\h4C80, \h4CC0}, <<no, no, 12, 12, no, 16, 18>>>>,
     <<{\h4E40}, <<no, no, 16, 12, 4, 4>>>>,
     <<{\h4E80}, <<no, no, 16, no, no, 18, 22>>>>,
     <<{\h4EC0}, <<no, no, 8, no, no, 10, 14>>>>}

ConditionRows ==
    {<<{\h50C0}, <<6, 12, 12, 12, 14, 16, 18>>>>,
     <<{\h51C0, \h52C0, \h53C0, \h54C0, \h55C0, \h56C0, \h57C0, \h58C0,
        \h59C0, \h5AC0, \h5BC0, \h5CC0, \h5DC0, \h5EC0, \h5FC0},
       <<4, 12, 12, 12, 14, 16, 18>>>>,
     <<{\h8F00, \h9F00, \hCF00, \hDF00}, <<no, 18>>>>,
     <<{\hBF00}, <<no, 12>>>>,
     <<{\hE0C0, \hE1C0, \hE2C0, \hE3C0, \hE4C0, \hE5C0, \hE6C0, \hE7C0},
       <<no, no, 12, 12, 14, 16, 18>>>>}

-----------------------------------------------------------------------------
(* Mask FFFF.                                                              *)

ImmediateMode7 ==
    {<<{\h0000, \h0040, \h0200, \h0240, \h0A00, \h0A40},
       <<20, 24, no, no, 20>>>>,
     <<{\h0080, \h0280, \h0480, \h0680, \h0A80}, <<32, 36>>>>,
     <<{\h0400, \h0440, \h0600, \h0640, \h0840, \h0880, \h08C0}, <<20, 24>>>>,
     <<{\h0800}, <<16, 20, 16, 18>>>>,
     <<{\h0C00, \h0C40}, <<16, 20>>>>,
     <<{\h0C80}, <<24, 28>>>>}

MoveToAbsMode7 ==
    {<<{\h11C0, \h31C0}, <<20, 24, 20, 22, 16>>>>,
     <<{\h13C0, \h33C0}, <<24, 28, 24, 26, 20>>>>,
     <<{\h1EC0, \h1F00}, <<16, 20, 16, 18, 12>>>>,
     <<{\h21C0}, <<28, 32, 28, 30, 24>>>>,
     <<{\h23C0}, <<32, 36, 32, 34, 28>>>>}

UnaryMode7 ==
    {<<{\h4000, \h4040, \h40C0, \h4200, \h4240, \h4400, \h4440, \h4600,
        \h4640},
       <<16, 20>>>>,
     <<{\h4080, \h4280, \h4480, \h4680}, <<24, 28>>>>,
     <<{\h44C0, \h46C0}, <<20, 24, 20, 22, 16>>>>}

MiscMode7 ==
    {<<{\h4800, \h4A80}, <<16, 20>>>>,
     <<{\h4840}, <<16, 20, 16, 20>>>>,
     <<{\h4880, \h48C0, \h4A00, \h4A40}, <<12, 16>>>>,
     <<{\h4AC0}, <<22, 26, no, no, 4>>>>,
     <<{\h4C80, \h4CC0}, <<16, 20, 16, 18>>>>,
     <<{\h4E80}, <<18, 20, 18, 22>>>>,
     <<{\h4EC0}, <<10, 12, 10, 14>>>>}

ConditionMode7 ==
    {<<{\h50C0, \h51C0, \h52C0, \h53C0, \h54C0, \h55C0, \h56C0, \h57C0,
        \h58C0, \h59C0, \h5AC0, \h5BC0, \h5CC0, \h5DC0, \h5EC0, \h5FC0,
        \hE0C0, \hE1C0, \hE2C0, \hE3C0, \hE4C0, \hE5C0, \hE6C0, \hE7C0},
       <<16, 20>>>>}

\* RESET, NOP, STOP, RTE, none, RTS, TRAPV, RTR: RESET has a row of nought.
SystemRows == <<0, 4, 4, 20, no, 16, 4, 20>>

\* The masks F000, F100, FF00 and FFF0: lines A and F, MOVEQ, Bcc, TRAP.
LineRow(op) ==
    CASE Top(op) \in {10, 15} -> 4
      [] Top(op) = 7 /\ Bits(op, 8, 1) = 0 -> 4
      [] Top(op) = 6 -> IF Bits(op, 8, 4) = 1 THEN 18 ELSE 10
      [] Matches(op, \h4E40, 4) -> 4
      [] OTHER -> no

-----------------------------------------------------------------------------
Table(groups) ==
    [base \in UNION {g[1] : g \in groups} |->
        (CHOOSE g \in groups : base \in g[1])[2]]

RegisterModes == Table(BitAndByteRows \cup MoveRows \cup QuickAndOrRows
                         \cup SubAndCmpRows \cup AndAndAddRows \cup ShiftRows)
RegisterMode7 == Table(MoveMode7 \cup QuickAndOrMode7 \cup SubAndCmpMode7
                         \cup AndAndAddMode7)
FixedModes == Table(ImmediateRows \cup MoveToAbsRows \cup UnaryRows \cup MiscRows
                      \cup ConditionRows)
FixedMode7 == Table(ImmediateMode7 \cup MoveToAbsMode7 \cup UnaryMode7 \cup MiscMode7
                      \cup ConditionMode7)

RowAt(table, base, column) ==
    IF base \in DOMAIN table /\ column \in DOMAIN table[base]
    THEN table[base][column] ELSE no

\* The rows that hold an opcode, as ng_m68k_init_cycle_table meets them.
RowsOf(op) ==
    LET fixed == op - (op % 64)
        register == fixed - 512 * RegX(op)
        mode == EaMode(op) + 1
        seventh == IF EaMode(op) = 7 THEN EaReg(op) + 1 ELSE 0
    IN SelectSeq(<<LineRow(op), RowAt(RegisterModes, register, mode),
                   RowAt(RegisterMode7, register, seventh),
                   RowAt(FixedModes, fixed, mode), RowAt(FixedMode7, fixed, seventh),
                   IF Matches(op, \h4E70, 3) THEN SystemRows[EaReg(op) + 1] ELSE no>>,
                 LAMBDA cycles : cycles # no)

\* Mutation: the last row is taken to be the one of the mode, so the
\* registers of mode 7 are charged as one.
CyclesByMode(op) ==
    LET rows == RowsOf(op - IF EaMode(op) = 7 THEN EaReg(op) ELSE 0)
    IN IF rows = <<>> \/ rows[Len(rows)] = 0 THEN 4 ELSE rows[Len(rows)]

\* 0, in the table or for want of a row, is charged as 4.
ng_m68k_base_cycles_for_opcode(op) ==
    LET rows == RowsOf(op)
    IN IF rows = <<>> \/ rows[Len(rows)] = 0 THEN 4 ELSE rows[Len(rows)]

=============================================================================

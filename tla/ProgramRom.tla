----------------------------- MODULE ProgramRom -----------------------------
(***************************************************************************)
(* The program ROM as the recompiler sees it: which instruction decodes at *)
(* an address when a given bank is selected, and where control can go from *)
(* it (recompiler/src/p_rom.c, m68k_decode.c).                             *)
(*                                                                         *)
(* Addresses count instruction words.  Fixed is the fixed region, Window   *)
(* the switchable one.  An instruction keeps what control flow needs: its  *)
(* kind, its length, its static target, the targets a pointer table beside *)
(* it holds, and those a dispatch through an address register can have.    *)
(***************************************************************************)
EXTENDS Naturals, Sequences, FiniteSets

CONSTANTS Fixed,     \* addresses of the fixed region
          Window,    \* addresses of the bank window
          Banks,     \* the banks that can be selected into the window
          NoBank,    \* NG_FUNCTION_DISCOVERY_BANK_NONE
          BankOrder, \* the configured banks, as a loop over them meets them
          RowLimit   \* NG_FUNCTION_DISCOVERY_BRANCH_TABLE_MAX_ENTRIES

Addrs == Fixed \cup Window

ASSUME RegionAssumption ==
    /\ Fixed \subseteq Nat /\ Window \subseteq Nat /\ Fixed \cap Window = {}
    /\ IsFiniteSet(Fixed) /\ IsFiniteSet(Window) /\ IsFiniteSet(Banks)
    /\ NoBank \notin Banks
    /\ BankOrder \in Seq(Banks) /\ Banks = {BankOrder[k] : k \in DOMAIN BankOrder}
    /\ RowLimit \in Nat

(***************************************************************************)
(* Kinds of instruction.  "plain" goes on to the next one; "cond" is Bcc   *)
(* or DBcc; "jmp"/"call" have a static target, "ijmp"/"icall" one computed *)
(* at run time; "ret" is RTS or RTR, "rte" RTE; "trap" is TRAP, "check" is *)
(* TRAPV, CHK, DIVU or DIVS, which trap or go on to the next one; "illegal" *)
(* is ILLEGAL and the lines A and F; "tosr" writes the status register and *)
(* its target is what it writes, as that of "stop" is; "bad" is what the   *)
(* decoder or the validator turns down.                                    *)
(***************************************************************************)
Ops == {"plain", "cond", "bra", "jmp", "ijmp", "call", "icall", "ret",
        "rte", "tosr", "stop", "trap", "check", "illegal", "bad"}

\* NgM68kInstr.  A pointer is read bank by bank: one that lies in the window
\* differs from bank to bank.
Instr(op, len, target, table) ==
    [op |-> op, len |-> len, target |-> target, table |-> table,
     pointers |-> <<>>]

NoInstr == Instr("bad", 0, 0, <<>>)

\* A word outside both regions is not mapped, and does not decode.
Code(rom, view, addr) ==
    IF addr \in Fixed THEN rom.fixed[addr]
    ELSE IF addr \in Window THEN rom.banked[view][addr]
    ELSE NoInstr

\* is_probable_function_target
Probable(rom, view, addr) == Code(rom, view, addr).op # "bad"

\* The configured regions, $000000 and $200000 on, do not touch: no run of
\* instructions goes from one into the other.  The bank the ROM was loaded
\* with is one there is.
WellFormed(rom) ==
    /\ rom.active \in Banks
    /\ \A view \in Banks, addr \in Addrs :
          LET i == Code(rom, view, addr)
          IN  Probable(rom, view, addr) =>
                 /\ i.op \in Ops /\ i.len \in Nat \ {0}
                 /\ i.target \in Nat /\ i.table \in Seq(Nat)
                 /\ i.pointers \in Seq([Banks -> Nat])
                 /\ addr \in Fixed => addr + i.len \notin Window
                 /\ addr \in Window => addr + i.len \notin Fixed

\* discovery_bank_for_addr: only addresses of the window carry a bank, and
\* only when there is more than one.
BankFor(view, addr) ==
    IF Cardinality(Banks) > 1 /\ addr \in Window THEN view ELSE NoBank

\* discovery_entry_rom_view: an entry with a bank is read with that bank
\* selected, any other with the bank the ROM was loaded with.
ViewOf(rom, bank) == IF bank = NoBank THEN rom.active ELSE bank

\* A scan runs on behind an unconditional JMP.
EndsScanNotJmp == {"bra", "ijmp", "ret", "rte"}

\* The scan of a function stops at these; every other instruction runs on.
EndsScan == {"bra", "jmp", "ijmp", "ret", "rte"}

\* The instruction's static target, if discovery follows it.
StaticTargets(i) ==
    IF i.op \in {"cond", "bra", "jmp", "call"} THEN <<i.target>> ELSE <<>>

TableOf(i) == {i.table[k] : k \in DOMAIN i.table}

Pointed(i, view) == {i.pointers[k][view] : k \in DOMAIN i.pointers}

\* Where a computed transfer can go with this bank in the window.
ComputedTargets(i, view) == TableOf(i) \cup Pointed(i, view)

-----------------------------------------------------------------------------
(* A row of JMPs of one length, which a computed jump may enter anywhere.  *)

\* is_direct_dispatch_entry
DirectDispatch(rom, view, addr, len) ==
    Code(rom, view, addr).op = "jmp" /\ Code(rom, view, addr).len = len

\* ng_m68k_match_repeated_direct_dispatch_table: three in a row.
RepeatedDirect(rom, view, addr) ==
    LET len == Code(rom, view, addr).len
    IN  \A a \in {addr, addr + len, addr + 2 * len} : DirectDispatch(rom, view, a, len)

\* The addresses of such a row, from its head on.
RepeatedEntries(rom, view, addr) ==
    LET len == Code(rom, view, addr).len
        run == {k \in 1..RowLimit :
                   \A j \in 1..k : DirectDispatch(rom, view, addr + (j - 1) * len, len)}
    IN  IF RepeatedDirect(rom, view, addr)
        THEN [k \in 1..Cardinality(run) |-> addr + (k - 1) * len]
        ELSE <<>>

=============================================================================

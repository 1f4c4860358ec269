----------------------------- MODULE M68kTiming -----------------------------
(***************************************************************************)
(* The reference for the cycle table: the execution times of the MC68000's  *)
(* manual, as sums of what an instruction takes and what its operands take. *)
(* Where the time depends on data there is a least and a greatest; the time *)
(* for each bit shifted and each register of a list, and the time of the    *)
(* exception a trap takes, come on top of the base and are left out.        *)
(***************************************************************************)
EXTENDS M68kDecode, Integers

Direct(ea) == ea.mode \in {"dreg", "areg", "none"}

\* The address is worked out and the operand fetched.
EaTime(ea, size) ==
    LET fetch == CASE Direct(ea) -> 0
                   [] ea.mode \in {"aind", "apost", "imm"} -> 4
                   [] ea.mode = "apre" -> 6
                   [] ea.mode \in {"adisp", "abs_w", "pc_disp"} -> 8
                   [] ea.mode \in {"aindex", "pc_index"} -> 10
                   [] ea.mode = "abs_l" -> 12
    IN fetch + IF size = 4 /\ ~Direct(ea) THEN 4 ELSE 0

\* A MOVE's destination is prefetched past: predecrement costs nothing.
MoveTime(ea, size) == EaTime(ea, size) - IF ea.mode = "apre" THEN 2 ELSE 0

\* The address alone, for the instructions that fetch nothing there: the
\* extra words, and two cycles for each index.
AddressTime(ea) ==
    CASE ea.mode \in {"aind", "apost", "apre"} -> 0
      [] ea.mode \in {"adisp", "abs_w", "pc_disp"} -> 4
      [] ea.mode \in {"aindex", "pc_index", "abs_l"} -> 8

\* A jump has its next word for nothing.
JumpTime(ea) ==
    CASE ea.mode = "aind" -> 0
      [] ea.mode \in {"adisp", "abs_w", "pc_disp"} -> 2
      [] ea.mode = "abs_l" -> 4
      [] ea.mode \in {"aindex", "pc_index"} -> 6

IndexTime(ea) == IF ea.mode \in {"aindex", "pc_index"} THEN 6 ELSE AddressTime(ea)

-----------------------------------------------------------------------------
Exactly(n) == n..n

\* A read, modify and write of a destination, with the time in a register.
OnDst(i, register, wordMem, longMem) ==
    Exactly(IF i.dst.mode \in {"dreg", "areg"} THEN register
            ELSE EaTime(i.dst, i.size) + IF i.size = 4 THEN longMem ELSE wordMem)

ByWidth(i, word, long) == IF i.size = 4 THEN long ELSE word

\* A long operation on a register waits for it, unless it fetched its source.
LongWait(i) ==
    IF i.size # 4 THEN 0
    ELSE IF Direct(i.src) \/ i.src.mode = "imm" THEN 4 ELSE 2

BitTime(i) ==
    LET static == IF i.src.mode = "dreg" THEN 0 ELSE 4
    IN CASE i.dst.mode # "dreg" ->
              Exactly(static + EaTime(i.dst, 1) + IF i.name = "BTST" THEN 4 ELSE 8)
         [] i.name = "BTST" -> Exactly(static + 6)
         [] i.name = "BCLR" -> Exactly(static + 10)
         [] OTHER -> Exactly(static + 8)

\* The times an instruction may take.
Timing(i) ==
    LET Is(names) == i.name \in names
        src == EaTime(i.src, i.size)
        toDst == i.dst.mode \notin {"dreg", "areg", "none"}
    IN CASE Is({"MOVE", "MOVEA"}) -> Exactly(4 + src + MoveTime(i.dst, i.size))
         [] Is({"MOVEQ", "EXT", "SWAP", "NOP", "STOP", "TRAPV", "MOVE_USP"}) -> Exactly(4)
         [] Is({"ADD", "SUB", "AND", "OR", "EOR"}) /\ toDst -> OnDst(i, 0, 8, 12)
         [] Is({"ADD", "SUB", "AND", "OR", "EOR"}) /\ ~toDst ->
              Exactly(4 + src + LongWait(i))
         [] Is({"CMP"}) -> Exactly(ByWidth(i, 4, 6) + src)
         [] Is({"CMPA"}) -> Exactly(6 + src)
         [] Is({"ADDA", "SUBA"}) -> Exactly(src + ByWidth(i, 8, 4 + LongWait(i)))
         [] Is({"ADDI", "SUBI", "ORI", "ANDI", "EORI"}) ->
              OnDst(i, ByWidth(i, 8, IF i.name = "ANDI" THEN 14 ELSE 16), 12, 20)
         [] Is({"CMPI"}) -> OnDst(i, ByWidth(i, 8, 14), 8, 12)
         [] Is({"ADDQ", "SUBQ"}) ->
              OnDst(i, IF i.dst.mode = "areg" THEN 8 ELSE ByWidth(i, 4, 8), 8, 12)
         [] Is({"CLR", "NEG", "NEGX", "NOT"}) -> OnDst(i, ByWidth(i, 4, 6), 8, 12)
         [] Is({"NBCD"}) -> OnDst(i, 6, 8, 8)
         [] Is({"SCC"}) -> IF toDst THEN OnDst(i, 0, 8, 8) ELSE 4..6
         [] Is({"TAS"}) -> OnDst(i, 4, 14, 14)
         [] Is({"TST"}) -> Exactly(4 + src)
         [] Is({"ASL", "ASR", "LSL", "LSR", "ROL", "ROR", "ROXL", "ROXR"}) ->
              OnDst(i, ByWidth(i, 6, 8), 8, 8)
         [] Is({"BTST", "BCHG", "BCLR", "BSET"}) -> BitTime(i)
         [] Is({"MULU", "MULS"}) -> (38 + src) .. (70 + src)
         [] Is({"DIVU"}) -> (76 + src) .. (140 + src)
         [] Is({"DIVS"}) -> (120 + src) .. (158 + src)
         [] Is({"CHK"}) -> Exactly(10 + src)
         [] Is({"BRA"}) -> Exactly(10)
         [] Is({"BCC"}) -> 8..12
         [] Is({"BSR"}) -> Exactly(18)
         [] Is({"DBCC"}) -> 10..14
         [] Is({"JMP"}) -> Exactly(8 + JumpTime(i.src))
         [] Is({"JSR"}) -> Exactly(16 + JumpTime(i.src))
         [] Is({"LEA"}) -> Exactly(4 + AddressTime(i.src))
         [] Is({"PEA"}) -> Exactly(12 + AddressTime(i.src))
         [] Is({"MOVEM"}) /\ i.dst.mode = "none" -> Exactly(12 + IndexTime(i.src))
         [] Is({"MOVEM"}) /\ i.dst.mode # "none" -> Exactly(8 + IndexTime(i.dst))
         [] Is({"MOVEP"}) -> Exactly(ByWidth(i, 16, 24))
         [] Is({"ADDX", "SUBX"}) ->
              Exactly(IF toDst THEN ByWidth(i, 18, 30) ELSE ByWidth(i, 4, 8))
         [] Is({"ABCD", "SBCD"}) -> Exactly(IF toDst THEN 18 ELSE 6)
         [] Is({"CMPM"}) -> Exactly(ByWidth(i, 12, 20))
         [] Is({"EXG"}) -> Exactly(6)
         [] Is({"LINK"}) -> Exactly(16)
         [] Is({"UNLK"}) -> Exactly(12)
         [] Is({"RTS"}) -> Exactly(16)
         [] Is({"RTE", "RTR"}) -> Exactly(20)
         [] Is({"RESET"}) -> Exactly(132)
         [] Is({"ILLEGAL", "TRAP"}) -> Exactly(4)
         [] Is({"MOVE_SR", "MOVE_CCR"}) /\ i.dst.mode = "none" ->
              Exactly(12 + EaTime(i.src, 2))
         [] Is({"MOVE_SR"}) /\ i.dst.mode # "none" -> OnDst(i, 6, 8, 8)
         [] OTHER -> Exactly(20)   \* an immediate to SR or CCR

=============================================================================

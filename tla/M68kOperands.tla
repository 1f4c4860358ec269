---------------------------- MODULE M68kOperands ----------------------------
(***************************************************************************)
(* The reference for emit_instr: the operands of the MC68000's instructions *)
(* as its manual has them, in one rule for all of them.  A source is        *)
(* fetched, once, and its register stepped; then the destination's register *)
(* is stepped, and the destination read if the operation needs what it was, *)
(* once, and written if it has a result, once.  The terms are M68kEmit's;   *)
(* nothing is evaluated.                                                    *)
(***************************************************************************)
EXTENDS M68kEmit, FiniteSets

\* The name under which M68kAlu has the operation.
Operation(name) ==
    CASE name \in {"ADDI", "ADDQ"} -> "ADD"
      [] name \in {"SUBI", "SUBQ"} -> "SUB"
      [] name \in {"CMPI", "CMPM", "CMPA"} -> "CMP"
      [] name = "ORI" -> "OR" [] name = "ANDI" -> "AND" [] name = "EORI" -> "EOR"
      [] OTHER -> name

Monadic   == {"NEG", "NEGX", "NOT", "NBCD", "TAS"}
BitSets   == {"BCHG", "BCLR", "BSET"}
Updates   == {"ADD", "SUB", "AND", "OR", "EOR", "ADDI", "SUBI", "ANDI", "ORI",
              "EORI", "ADDQ", "SUBQ", "ADDX", "SUBX", "ABCD", "SBCD"}
               \cup Monadic \cup BitSets \cup ShiftsEmitted
Compares  == {"CMP", "CMPI", "CMPM", "BTST"}
Products  == {"MULU", "MULS"}
Quotients == {"DIVU", "DIVS"}
Privileged(i) ==
    \/ i.name \in {"RESET", "STOP", "RTE", "MOVE_USP"}
    \/ i.name \in {"ORI_TO_SR", "ANDI_TO_SR", "EORI_TO_SR"}
    \/ i.name = "MOVE_SR" /\ i.dst.mode = "none"

-----------------------------------------------------------------------------
(* Operands.  a and d are the registers as they are when it is its turn.   *)

InMemory(ea) == ea.mode \notin {"dreg", "areg", "imm", "none"}

\* The stack pointer stays even.
StepSize(ea, size) == IF size = 1 /\ ea.reg = 7 THEN 2 ELSE size

Stepped(a, ea, size) ==
    CASE ea.mode = "apost" -> [a EXCEPT ![ea.reg] = Plus(@, StepSize(ea, size))]
      [] ea.mode = "apre"  -> [a EXCEPT ![ea.reg] = Plus(@, -StepSize(ea, size))]
      [] OTHER -> a

Address(a, ea, size) ==
    LET base == CASE ea.mode \in {"pc_disp", "pc_index"} \cup AbsModes -> AbsTerm(ea.abs)
                  [] ea.mode = "apre" -> Stepped(a, ea, size)[ea.reg]
                  [] OTHER -> a[ea.reg]
    IN CASE ea.mode = "adisp" -> Term("disp", ea.disp, 4, <<base>>)
         [] ea.mode \in {"aindex", "pc_index"} -> Term("index", ea.disp, 4, <<base>>)
         [] OTHER -> base

OperandTerm(a, d, ea, size) ==
    CASE ea.mode = "dreg" -> Cut(size, d[ea.reg])
      [] ea.mode = "areg" -> Cut(size, a[ea.reg])
      [] ea.mode = "imm"  -> ImmTerm(ea.imm)
      [] OTHER -> Mem(size, Address(a, ea, size))

Reading(a, ea, size) ==
    IF InMemory(ea)
    THEN <<Access("read", size, Address(a, ea, size), Mem(size, Address(a, ea, size)))>>
    ELSE <<>>
Writing(a, ea, size, t) ==
    IF InMemory(ea) THEN <<Access("write", size, Address(a, ea, size), Cut(size, t))>>
    ELSE <<>>

Into(d, ea, size, t) ==
    IF ea.mode = "dreg" THEN SetD([Untouched EXCEPT !.d = d], ea.reg, size, t).d ELSE d

A0 == Untouched.a
D0 == Untouched.d

-----------------------------------------------------------------------------
(* The operand size and the first operand of the operation.                *)

Width(i) ==
    CASE i.name \in BitSets \cup {"BTST"} -> IF i.dst.mode = "dreg" THEN 4 ELSE 1
      [] i.name \in {"ABCD", "SBCD", "NBCD", "TAS", "SCC"} -> 1
      [] i.name \in Products \cup Quotients \cup {"CHK", "MOVE_SR", "MOVE_CCR"} -> 2
      [] OTHER -> i.size

First(i) ==
    CASE i.name \in Monadic -> Nought
      [] i.name \in ShiftsEmitted /\ InMemory(i.dst) -> ImmTerm(Number(1))
      [] i.name \in ShiftsEmitted /\ i.src.mode = "dreg" ->
           Term("mod64", 0, 1, <<D0[i.src.reg]>>)
      [] i.name \in BitSets \cup {"BTST"} /\ i.src.mode = "dreg" -> D0[i.src.reg]
      [] i.src.mode # "none" -> OperandTerm(A0, D0, i.src, Width(i))
      [] OTHER -> ImmTerm(i.imm)

\* What the instruction does to the destination: the term, if any, that is
\* written, and the one that gives the codes.
General(i, reads, writes, Result(_, _), Flags(_, _)) ==
    LET w   == Width(i)
        a1  == Stepped(A0, i.src, w)
        old == OperandTerm(a1, D0, i.dst, w)
        t   == Result(First(i), old)
    IN [Untouched EXCEPT
          !.a   = Stepped(a1, i.dst, w),
          !.d   = IF writes THEN Into(D0, i.dst, w, t) ELSE D0,
          !.bus = Reading(A0, i.src, w)
                    \o (IF reads THEN Reading(a1, i.dst, w) ELSE <<>>)
                    \o (IF writes THEN Writing(a1, i.dst, w, t) ELSE <<>>),
          !.sr  = Flags(First(i), old)]

NzOf(i, t) == Term("nz", 0, i.size, <<Cut(i.size, t)>>)
OldStatus(src, dst) == Untouched.sr

\* An address register is written whole, from a source extended to a long,
\* after that source has been stepped; only CMPA sets codes.
ToAddress(i) ==
    LET quick == i.name \in {"ADDQ", "SUBQ"}
        src == IF quick THEN ImmTerm(i.imm)
               ELSE Extend(i.size, OperandTerm(A0, D0, i.src, i.size))
        a1  == Stepped(A0, i.src, i.size)
        old == a1[i.dst.reg]
        t   == CASE i.name = "MOVEA" -> src
                 [] i.name \in {"ADDA", "ADDQ"} -> Alu("ADDA", 4, src, old)
                 [] i.name \in {"SUBA", "SUBQ"} -> Alu("SUBA", 4, src, old)
                 [] i.name = "CMPA" -> old
    IN [Untouched EXCEPT !.a   = [a1 EXCEPT ![i.dst.reg] = t],
                         !.bus = Reading(A0, i.src, i.size),
                         !.sr  = IF i.name = "CMPA" THEN Alu("CMP", 4, src, old) ELSE @]

\* The registers of a list lie in memory from D0 up to A7, whichever way the
\* memory was walked; register k is Dk, or A(k - 8).
RegisterList(i, mask) ==
    LET list == IF i.dst.mode = "apre" THEN {15 - b : b \in mask} ELSE mask
        ea   == IF i.dst.mode = "none" THEN i.src ELSE i.dst
        n    == Cardinality(list)
        start == IF ea.mode = "apre" THEN Plus(A0[ea.reg], -(n * i.size))
                 ELSE Address(A0, ea, i.size)
        Slot(k) == Plus(start, i.size * Cardinality({j \in list : j < k}))
        Nth(j)  == CHOOSE k \in list : Cardinality({x \in list : x < k}) = j - 1
        Order(j) == IF ea.mode = "apre" THEN Nth(n + 1 - j) ELSE Nth(j)
        Held(k)  == IF k < 8 THEN D0[k] ELSE A0[k - 8]
        Loaded(k) == Extend(i.size, Mem(i.size, Slot(k)))
        loads == i.dst.mode = "none"
        a1 == [r \in 0..7 |-> IF loads /\ r + 8 \in list THEN Loaded(r + 8) ELSE A0[r]]
    IN [Untouched EXCEPT
          !.bus = [j \in 1..n |->
                     IF loads
                     THEN Access("read", i.size, Slot(Order(j)), Mem(i.size, Slot(Order(j))))
                     ELSE Access("write", i.size, Slot(Order(j)), Cut(i.size, Held(Order(j))))],
          !.d = [r \in 0..7 |-> IF loads /\ r \in list THEN Loaded(r) ELSE @[r]],
          !.a = CASE ea.mode = "apost" -> [a1 EXCEPT ![ea.reg] = Plus(A0[ea.reg], n * i.size)]
                  [] ea.mode = "apre"  -> [a1 EXCEPT ![ea.reg] = start]
                  [] OTHER -> a1]

\* MOVEP: the bytes of a register, from the highest, on every second address.
EverySecond(i) ==
    LET stores == i.src.mode = "dreg"
        ea == IF stores THEN i.dst ELSE i.src
        At(k) == Plus(Address(A0, ea, 1), 2 * (k - 1))
        v == Cut(i.size, D0[i.src.reg])
    IN [Untouched EXCEPT
          !.bus = [k \in 1..i.size |->
                     IF stores THEN Access("write", 1, At(k), ByteOf(v, k - 1))
                     ELSE Access("read", 1, At(k), Mem(1, At(k)))],
          !.d = IF stores THEN @
                ELSE Into(@, i.dst, i.size,
                          Term("join", 0, i.size, [k \in 1..i.size |-> Mem(1, At(k))]))]

-----------------------------------------------------------------------------
(* Instructions that work on the stack or leave.                           *)

Pushed(t) ==
    [Untouched EXCEPT !.a[7] = Plus(@, -4),
                      !.bus = <<Access("write", 4, Plus(A0[7], -4), t)>>]
Leaving(m, to) ==
    [m EXCEPT !.exits = <<[test |-> Always, to |-> to]>>, !.falls = FALSE]
Testing(m, test, to) == [m EXCEPT !.exits = <<[test |-> test, to |-> to]>>]

\* Where a jump or branch goes, by its opcode.
JumpTarget(i) == Address(A0, i.src, 4)
BranchTo(i) ==
    AbsTerm(<<2, IF i.name # "DBCC" /\ i.opcode % 256 # 0 THEN 1 ELSE 2>>)

Stacked(i) ==
    LET r == EaReg(i.opcode)
        Popped(n) == [Untouched EXCEPT !.a[7] = Plus(@, n)]
        status == Mem(2, A0[7])
        StatusThenPc(part) ==
            Leaving([Popped(6) EXCEPT
                       !.bus = <<Access("read", 2, A0[7], status),
                                 Access("read", 4, Plus(A0[7], 2), Mem(4, Plus(A0[7], 2)))>>,
                       !.sr = Term(part, 0, 2, <<status>>)],
                    Mem(4, Plus(A0[7], 2)))
        frame == Plus(A0[7], -4)
    IN CASE i.name = "RTS" ->
              Leaving([Popped(4) EXCEPT !.bus = Reading(A0, [Pre(7) EXCEPT !.mode = "aind"], 4)],
                      Mem(4, A0[7]))
         [] i.name = "RTR" -> StatusThenPc("set_ccr")
         [] i.name = "RTE" -> StatusThenPc("set_sr")
         [] i.name = "LINK" ->
              LET m == Pushed(IF r = 7 THEN frame ELSE A0[r])
              IN [m EXCEPT !.a = [[@ EXCEPT ![r] = frame] EXCEPT
                                    ![7] = Term("disp", 2, 4, <<frame>>)]]
         [] i.name = "UNLK" ->
              LET old == Mem(4, A0[r])
              IN [Untouched EXCEPT
                    !.bus = <<Access("read", 4, A0[r], old)>>,
                    !.a = [[@ EXCEPT ![7] = Plus(A0[r], 4)] EXCEPT ![r] = old]]
         [] i.name = "PEA" -> Pushed(Address(A0, i.src, 4))
         [] i.name = "JSR" -> Leaving(Pushed(NextPc), JumpTarget(i))
         [] i.name = "BSR" -> Leaving(Pushed(NextPc), BranchTo(i))

Conditional(i) ==
    LET r == EaReg(i.opcode)
        cond == Bits(i.opcode, 8, 4)
        counter == Alu("SUB", 2, ImmTerm(Number(1)), Cut(2, D0[r]))
        down == Into(D0, DReg(r), 2, counter)[r]
        counted == IF cond = 1 THEN down ELSE Term("unless", cond, 4, <<D0[r], down>>)
    IN CASE i.name = "BRA" -> Leaving(Untouched, BranchTo(i))
         [] i.name = "BCC" -> Testing(Untouched, Term("cond", cond, 0, <<>>), BranchTo(i))
         [] i.name = "DBCC" /\ cond = 0 -> Untouched
         [] i.name = "DBCC" /\ cond # 0 ->
              Testing([Untouched EXCEPT !.d[r] = counted],
                      Term("left", cond, 0, <<counter>>), BranchTo(i))
         [] i.name = "SCC" ->
              General(i, FALSE, TRUE,
                      LAMBDA s, t : CASE cond = 0 -> ImmTerm(Number(255))
                                      [] cond = 1 -> Nought
                                      [] OTHER -> Term("cond", cond, 1, <<>>),
                      OldStatus)

\* The frame holds the address of the next instruction.  (Of an illegal one
\* the manual has its own address there; c_emitter.c gives every exception of
\* this kind the next.)
Trapping(i) ==
    CASE i.name = "TRAP" -> Leaving(Untouched, Vector(32 + (i.opcode % 16), NextPc))
      [] i.name = "TRAPV" -> Testing(Untouched, Term("cond", 9, 0, <<>>), Vector(7, NextPc))
      [] i.name = "ILLEGAL" ->
           Leaving(Untouched, Vector(CASE Top(i.opcode) = 10 -> 10
                                       [] Top(i.opcode) = 15 -> 11
                                       [] OTHER -> 4, NextPc))

StatusWord(i) ==
    LET imm == ImmTerm(i.imm)
        logic == Alu(CASE i.name \in {"ORI_TO_CCR", "ORI_TO_SR"} -> "OR"
                       [] i.name \in {"ANDI_TO_CCR", "ANDI_TO_SR"} -> "AND"
                       [] OTHER -> "EOR", 2, imm, Untouched.sr)
        value == CASE i.name \in DOMAIN StatusOps -> logic
                   [] i.name = "STOP" -> imm
                   [] OTHER -> OperandTerm(A0, D0, i.src, 2)
        part == IF i.name \in {"MOVE_CCR", "ORI_TO_CCR", "ANDI_TO_CCR", "EORI_TO_CCR"}
                THEN "set_ccr" ELSE "set_sr"
    IN [Untouched EXCEPT !.a = Stepped(@, i.src, 2), !.bus = Reading(A0, i.src, 2),
                         !.falls = i.name # "STOP",
                         !.sr = Term(part, 0, 2, <<value>>)]

OnRegisters(i) ==
    LET x == RegX(i.opcode)
        y == EaReg(i.opcode)
        ext  == Alu("EXT", i.size, Nought, Cut(i.size \div 2, D0[y]))
        swap == Alu("SWAP", 4, Nought, D0[y])
        quick == Term("signed", 0, 4, <<ImmTerm(Imm(1, 1))>>)
        kind == Bits(i.opcode, 3, 5)
    IN CASE i.name = "EXT" -> [Untouched EXCEPT !.d = Into(@, DReg(y), i.size, ext), !.sr = ext]
         [] i.name = "SWAP" -> [Untouched EXCEPT !.d[y] = swap, !.sr = swap]
         [] i.name = "MOVEQ" ->
              [Untouched EXCEPT !.d[x] = quick, !.sr = Term("nz", 0, 4, <<quick>>)]
         [] i.name = "LEA" -> [Untouched EXCEPT !.a[x] = Address(A0, i.src, 4)]
         [] i.name = "MOVE_USP" /\ kind = 12 -> [Untouched EXCEPT !.usp = A0[y]]
         [] i.name = "MOVE_USP" /\ kind = 13 -> [Untouched EXCEPT !.a[y] = Untouched.usp]
         [] i.name = "EXG" /\ kind = 8 -> [Untouched EXCEPT !.d[x] = D0[y], !.d[y] = D0[x]]
         [] i.name = "EXG" /\ kind = 9 -> [Untouched EXCEPT !.a[x] = A0[y], !.a[y] = A0[x]]
         [] i.name = "EXG" /\ kind = 17 -> [Untouched EXCEPT !.d[x] = A0[y], !.a[y] = D0[x]]

-----------------------------------------------------------------------------
\* The instruction i, with mask as its register list, as the manual has it.
Instruction(i, mask) ==
    LET op == Operation(i.name)
        w  == Width(i)
        Result(s, t) == Alu(op, w, s, t)
        whole == i.name \in Quotients
        Word(s, t) == Alu(op, 4, s, IF whole THEN D0[i.dst.reg] ELSE t)
    IN CASE i.dst.mode = "areg" /\ i.name \notin {"EXG", "LEA", "MOVE_USP"} -> ToAddress(i)
         [] i.name \in Updates /\ i.dst.mode # "areg" -> General(i, TRUE, TRUE, Result, Result)
         [] i.name \in Compares -> General(i, TRUE, FALSE, Result, Result)
         [] i.name = "MOVE" /\ i.dst.mode # "areg" ->
              General(i, FALSE, TRUE, LAMBDA s, t : s, LAMBDA s, t : NzOf(i, s))
         [] i.name = "CLR" ->
              General(i, FALSE, TRUE, LAMBDA s, t : Nought, LAMBDA s, t : NzOf(i, Nought))
         [] i.name = "TST" ->
              General(i, FALSE, FALSE, LAMBDA s, t : s, LAMBDA s, t : NzOf(i, s))
         [] i.name = "MOVE_SR" /\ i.dst.mode # "none" ->
              General(i, FALSE, TRUE, LAMBDA s, t : Untouched.sr, OldStatus)
         [] i.name \in Products \cup Quotients ->
              LET m == General(i, FALSE, FALSE, Word, Word)
                  s == [m EXCEPT !.d[i.dst.reg] = m.sr]
              IN IF whole THEN Testing(s, Term("zero", 0, 2, <<First(i)>>), Vector(5, NextPc))
                 ELSE s
         [] i.name = "CHK" ->
              Testing(General(i, FALSE, FALSE, Result, OldStatus),
                      Result(First(i), Cut(2, D0[i.dst.reg])), Vector(6, NextPc))
         [] i.name = "MOVEM" -> RegisterList(i, mask)
         [] i.name = "MOVEP" -> EverySecond(i)
         [] i.name \in {"RTS", "RTR", "RTE", "LINK", "UNLK", "PEA", "JSR", "BSR"} -> Stacked(i)
         [] i.name \in {"BRA", "BCC", "DBCC", "SCC"} -> Conditional(i)
         [] i.name = "JMP" -> Leaving(Untouched, JumpTarget(i))
         [] i.name \in {"TRAP", "TRAPV", "ILLEGAL"} -> Trapping(i)
         [] i.name \in DOMAIN StatusOps \cup {"STOP", "MOVE_CCR"}
              \/ (i.name = "MOVE_SR" /\ i.dst.mode = "none") -> StatusWord(i)
         [] i.name \in {"EXT", "SWAP", "MOVEQ", "LEA", "MOVE_USP", "EXG"} -> OnRegisters(i)
         [] i.name \in {"NOP", "RESET"} -> Untouched

\* The manual's account of an accepted instruction.
Expected(i, mask) ==
    [Instruction(i, mask) EXCEPT !.supervisor = Privileged(i)]

=============================================================================

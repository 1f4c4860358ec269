------------------------------ MODULE M68kEmit ------------------------------
(***************************************************************************)
(* emit_instr: what the C that c_emitter.c prints for one instruction does  *)
(* to the registers and on the bus.                                         *)
(*                                                                         *)
(* Data are terms.  A register holds the term of what it held before the    *)
(* instruction until it is written; a number read from memory is the term   *)
(* of its address; the result of an operation the term of its operands (its *)
(* arithmetic is M68kAlu's and M68kShift's).  off is a number added to the  *)
(* term.  Extension words are named by their offset, as in M68kDecode.      *)
(***************************************************************************)
EXTENDS M68kDecode, Integers
LOCAL INSTANCE SequencesExt

Term(kind, n, size, args) ==
    [kind |-> kind, n |-> n, off |-> 0, size |-> size, args |-> args]

Plus(t, k) == [t EXCEPT !.off = @ + k]

\* The conversion to the unsigned type of a size.
Cut(size, t) ==
    IF t.size <= size THEN t
    ELSE IF t.kind = "low" /\ t.n = size THEN t.args[2]
    ELSE Term("cut", 0, size, <<t>>)

\* (uint32_t)(int32_t)(int16_t)
Extend(size, t) == IF size = 2 THEN Term("ext", 0, 4, <<t>>) ELSE t

ImmTerm(imm) == [Term("imm", imm.at, IF imm.width > 0 THEN imm.width ELSE 1, <<>>)
                   EXCEPT !.off = imm.value]
AbsTerm(abs) == Plus(Term(IF Len(abs) = 1 THEN "abs" ELSE "pc", abs[1], 4, <<>>),
                     abs[Len(abs)])
NextPc == Term("next", 0, 4, <<>>)      \* instr->addr + instr->byte_length
ThisPc == Term("this", 0, 4, <<>>)      \* instr->addr

\* What was done so far: the registers, the accesses in order, what set the
\* condition codes last, the ways out of the instruction, and whether the C
\* goes on to the next one.
Untouched ==
    [a |-> [r \in 0..7 |-> Term("a", r, 4, <<>>)],
     d |-> [r \in 0..7 |-> Term("d", r, 4, <<>>)],
     bus |-> <<>>, sr |-> Term("sr", 0, 2, <<>>), usp |-> Term("usp", 0, 4, <<>>),
     exits |-> <<>>, supervisor |-> FALSE, falls |-> TRUE, ok |-> TRUE]

Fail(m) == [m EXCEPT !.ok = FALSE]

Access(kind, size, at, value) ==
    [kind |-> kind, size |-> size, at |-> at, value |-> value]
Mem(size, at) == Term("mem", 0, size, <<at>>)

Read(m, size, at) ==
    [m EXCEPT !.bus = Append(@, Access("read", size, at, Mem(size, at)))]
Write(m, size, at, t) ==
    [m EXCEPT !.bus = Append(@, Access("write", size, at, Cut(size, t)))]

SetA(m, r, t) == [m EXCEPT !.a[r] = t]
\* (d & keep_mask) | value
SetD(m, r, size, t) ==
    [m EXCEPT !.d[r] = IF size = 4 THEN t ELSE Term("low", size, 4, <<@, Cut(size, t)>>)]
Step(m, r, k) == [m EXCEPT !.a[r] = Plus(@, k)]

\* A result, and the codes it sets.
Alu(op, size, src, dst) == Term(op, 0, size, <<src, dst>>)
Nought == ImmTerm(Number(0))
Codes(m, t) == [m EXCEPT !.sr = t]
set_nz(m, size, t) == Codes(m, Term("nz", 0, size, <<Cut(size, t)>>))

Exit(m, test, to) == [m EXCEPT !.exits = Append(@, [test |-> test, to |-> to])]
Always == Term("always", 0, 0, <<>>)
Leave(m, to) == [Exit(m, Always, to) EXCEPT !.falls = FALSE]
\* ng_push_exception_frame and the dispatch to the vector's address
Vector(n, pc) == Term("vector", n, 4, <<pc>>)

Push(m, t) ==
    LET s == Step(m, 7, -4) IN Write(s, 4, s.a[7], t)

\* Nothing is done before the privilege is tested.
RequireSupervisor(m) == [m EXCEPT !.supervisor = m.bus = <<>> /\ m.exits = <<>>]

-----------------------------------------------------------------------------
(* Operands.  An expression is text of the C, evaluated where it is used:  *)
(* a register's name, or a value that was kept in a variable.              *)

Live(bank, r, size) == [bank |-> bank, reg |-> r, size |-> size, kept |-> Nought]
Kept(t) == [Live("none", 0, 4) EXCEPT !.kept = t]

Now(m, e) ==
    CASE e.bank = "d" -> Cut(e.size, m.d[e.reg])
      [] e.bank = "a" -> m.a[e.reg]
      [] OTHER -> e.kept

ng_ea_step_bytes(ea, size) == IF ea.reg = 7 /\ size = 1 THEN 2 ELSE size

\* emit_ea_address_value, and the addresses in the other two
AddressOf(m, ea) ==
    CASE ea.mode \in {"aind", "apost", "apre"} -> m.a[ea.reg]
      [] ea.mode = "adisp"  -> Term("disp", ea.disp, 4, <<m.a[ea.reg]>>)
      [] ea.mode = "aindex" -> Term("index", ea.disp, 4, <<m.a[ea.reg]>>)
      [] ea.mode = "pc_index" -> Term("index", ea.disp, 4, <<AbsTerm(ea.abs)>>)
      [] ea.mode \in AbsModes \cup {"pc_disp"} -> AbsTerm(ea.abs)

Addressed == {"aind", "adisp", "aindex", "pc_disp", "pc_index"} \cup AbsModes
Stepping  == {"apost", "apre"}

Before(m, ea, size) ==
    IF ea.mode = "apre" THEN Step(m, ea.reg, -ng_ea_step_bytes(ea, size)) ELSE m
After(m, ea, size) ==
    IF ea.mode = "apost" THEN Step(m, ea.reg, ng_ea_step_bytes(ea, size)) ELSE m

emit_ea_read(m, ea, size) ==
    LET s == Before(m, ea, size)
        at == AddressOf(s, ea)
    IN CASE ea.mode = "dreg" -> [m |-> m, expr |-> Live("d", ea.reg, size)]
         [] ea.mode = "areg" -> [m |-> m, expr |-> Live("a", ea.reg, size)]
         [] ea.mode = "imm"  -> [m |-> m, expr |-> Kept(ImmTerm(ea.imm))]
         [] ea.mode \in Addressed \cup Stepping ->
              [m |-> After(Read(s, size, at), ea, size), expr |-> Kept(Mem(size, at))]
         [] OTHER -> [m |-> Fail(m), expr |-> Kept(Nought)]

\* Mutation: the value is taken after the register was stepped.
WriteAfterStep(m, ea, size, e) ==
    LET s == Before(m, ea, size)
    IN CASE ea.mode = "dreg" -> SetD(m, ea.reg, size, Now(m, e))
         [] ea.mode = "areg" -> SetA(m, ea.reg, Now(m, e))
         [] ea.mode \in (Addressed \cup Stepping) \ {"pc_disp", "pc_index"} ->
              After(Write(s, size, AddressOf(s, ea), Now(s, e)), ea, size)
         [] OTHER -> Fail(m)

\* ng_predec_value: the value is taken before the register is stepped.
emit_ea_write(m, ea, size, e) ==
    LET s == Before(m, ea, size)
    IN CASE ea.mode = "dreg" -> SetD(m, ea.reg, size, Now(m, e))
         [] ea.mode = "areg" -> SetA(m, ea.reg, Now(m, e))
         [] ea.mode \in (Addressed \cup Stepping) \ {"pc_disp", "pc_index"} ->
              After(Write(s, size, AddressOf(s, ea), Now(m, e)), ea, size)
         [] OTHER -> Fail(m)

\* The register is stepped, both ways, before the address is used; nothing
\* that uses it steps another.
emit_ea_address(m, ea, size) ==
    LET s == Before(m, ea, size)
    IN IF ea.mode \in (Addressed \cup Stepping) \ {"pc_disp", "pc_index"}
       THEN [m |-> After(s, ea, size), at |-> AddressOf(s, ea)]
       ELSE [m |-> Fail(m), at |-> Nought]

\* A data register or a memory operand that is read, operated upon and written
\* back: what most of the emit functions do, each in its own words.
Modify(m, ea, size, Op(_)) ==
    IF ea.mode = "dreg"
    THEN LET t == Op(Cut(size, m.d[ea.reg]))
         IN Codes(SetD(m, ea.reg, size, t), t)
    ELSE LET l == emit_ea_address(m, ea, size)
             t == Op(Mem(size, l.at))
         IN Codes(Write(Read(l.m, size, l.at), size, l.at, t), t)

-----------------------------------------------------------------------------
(* The emit functions.  Each gives what its C does, or fails where the     *)
(* function returns 0 having printed nothing.                              *)

emit_move_generic(m, i) ==
    LET r == emit_ea_read(m, i.src, i.size)
        w == emit_ea_write(r.m, i.dst, i.size, r.expr)
    IN set_nz(w, i.size, Now(w, r.expr))

emit_movea_generic(m, i) ==
    LET r == emit_ea_read(m, i.src, i.size)
    IN IF i.dst.mode # "areg" THEN Fail(m)
       ELSE SetA(r.m, i.dst.reg, Extend(i.size, Cut(i.size, Now(r.m, r.expr))))

\* The forms of MOVE that have their own text; the fields are the legacy ones.
emit_move(m, i) ==
    LET abs == AbsTerm(i.abs)
        imm == ImmTerm(i.imm)
        ToD(s, t) == LET w == SetD(s, i.reg, i.size, t)
                     IN set_nz(w, i.size, Cut(i.size, w.d[i.reg]))
    IN CASE i.form = "areg_to_abs" /\ i.size = 4 ->
              set_nz(Write(m, 4, abs, m.a[i.reg]), 4, m.a[i.reg])
         [] i.form = "imm_to_abs" ->
              set_nz(Write(m, i.size, abs, imm), i.size, imm)
         [] i.form = "abs_to_dreg" -> ToD(Read(m, i.size, abs), Mem(i.size, abs))
         [] i.form = "areg_disp" /\ i.size = 1 ->
              LET at == Term("disp", i.disp, 4, <<m.a[i.src_reg]>>)
              IN ToD(Read(m, 1, at), Mem(1, at))
         [] i.form = "dreg_to_abs" /\ i.size = 1 ->
              set_nz(Write(m, 1, abs, m.d[i.reg]), 1, m.d[i.reg])
         [] i.form = "imm_to_dreg" -> ToD(m, imm)
         [] OTHER -> emit_move_generic(m, i)

\* The registers of a list, as the bits of the mask are tried.
InList(mask) == SelectSeq([k \in 1..16 |-> k - 1], LAMBDA b : b \in mask)

\* Under predecrement the list is reversed and the register is set at the end.
MovemPredecrement(m, i, mask) ==
    LET Store(s, bit) ==
            [m  |-> Write(s.m, i.size, Plus(s.at, -i.size),
                          IF bit < 8 THEN s.m.a[7 - bit] ELSE s.m.d[15 - bit]),
             at |-> Plus(s.at, -i.size)]
        out == FoldLeft(Store, [m |-> m, at |-> m.a[i.dst.reg]], InList(mask))
    IN SetA(out.m, i.dst.reg, out.at)

emit_movem(m, i, mask) ==
    LET Store(s, bit) ==
            [m  |-> Write(s.m, i.size, s.at,
                          IF bit < 8 THEN s.m.d[bit] ELSE s.m.a[bit - 8]),
             at |-> Plus(s.at, i.size)]
        Load(s, bit) ==
            LET r == Read(s.m, i.size, s.at)
                t == Extend(i.size, Mem(i.size, s.at))
            IN [m  |-> IF bit < 8 THEN SetD(r, bit, 4, t) ELSE SetA(r, bit - 8, t),
                at |-> Plus(s.at, i.size)]
        Loop(Body(_, _), ea) ==
            FoldLeft(Body, [m |-> m, at |-> AddressOf(m, ea)], InList(mask))
        loaded == Loop(Load, i.src)
    IN CASE i.dst.mode = "apre" -> MovemPredecrement(m, i, mask)
         [] i.dst.mode \in Addressed -> Loop(Store, i.dst).m
         [] i.dst.mode = "none" /\ i.src.mode = "apost" ->
              SetA(loaded.m, i.src.reg, loaded.at)
         [] i.dst.mode = "none" /\ i.src.mode \in Addressed -> loaded.m
         [] OTHER -> Fail(m)

\* Byte k of a term, the most significant being 0.
ByteOf(t, k) == Term("byte", k, 1, <<t>>)

\* The bytes that are read stand in one C expression, whose order the compiler
\* chooses: the order here is the one they are written in.
emit_movep(m, i) ==
    IF i.src.mode = "dreg" /\ i.dst.mode = "adisp"
       THEN LET at == AddressOf(m, i.dst)
                v  == Cut(i.size, m.d[i.src.reg])
                Store(s, k) == Write(s, 1, Plus(at, 2 * k), ByteOf(v, k))
            IN FoldLeft(Store, m, [k \in 1..i.size |-> k - 1])
       ELSE IF i.src.mode = "adisp" /\ i.dst.mode = "dreg"
       THEN LET at == AddressOf(m, i.src)
                Load(s, k) == Read(s, 1, Plus(at, 2 * k))
                joined == Term("join", 0, i.size,
                               [k \in 1..i.size |-> Mem(1, Plus(at, 2 * (k - 1)))])
            IN SetD(FoldLeft(Load, m, [k \in 1..i.size |-> k - 1]),
                    i.dst.reg, i.size, joined)
       ELSE Fail(m)

\* ng_set_sr, or the five codes of it
emit_move_sr_ccr(m, i) ==
    LET part == IF i.name = "MOVE_SR" THEN "set_sr" ELSE "set_ccr"
        s == IF i.name = "MOVE_SR" THEN RequireSupervisor(m) ELSE m
        r == emit_ea_read(s, i.src, 2)
    IN IF i.dst.mode # "none"
       THEN emit_ea_write(m, i.dst, 2,
                          Kept(IF i.name = "MOVE_SR" THEN m.sr
                               ELSE Term("ccr", 0, 2, <<m.sr>>)))
       ELSE Codes(r.m, Term(part, 0, 2, <<Now(r.m, r.expr)>>))

StatusOps ==
    [ORI_TO_CCR |-> <<"OR", "set_ccr">>, ANDI_TO_CCR |-> <<"AND", "set_ccr">>,
     EORI_TO_CCR |-> <<"EOR", "set_ccr">>, ORI_TO_SR |-> <<"OR", "set_sr">>,
     ANDI_TO_SR |-> <<"AND", "set_sr">>, EORI_TO_SR |-> <<"EOR", "set_sr">>]

emit_immediate_to_sr_ccr(m, i) ==
    LET op == StatusOps[i.name]
        s  == IF op[2] = "set_sr" THEN RequireSupervisor(m) ELSE m
    IN Codes(s, Term(op[2], 0, 2, <<Alu(op[1], 2, ImmTerm(i.imm), s.sr)>>))

emit_tst(m, i) ==
    LET abs == AbsTerm(i.abs)
        at  == Term("disp", i.disp, 4, <<m.a[i.reg]>>)
        r   == emit_ea_read(m, i.src, i.size)
    IN CASE i.form = "abs" -> set_nz(Read(m, i.size, abs), i.size, Mem(i.size, abs))
         [] i.form = "areg_disp" /\ i.size = 1 -> set_nz(Read(m, 1, at), 1, Mem(1, at))
         [] OTHER -> set_nz(r.m, i.size, Now(r.m, r.expr))

emit_tas_generic(m, i)  == Modify(m, i.dst, 1, LAMBDA t : Alu("TAS", 1, Nought, t))
emit_nbcd_generic(m, i) == Modify(m, i.dst, 1, LAMBDA t : Alu("NBCD", 1, Nought, t))

emit_unary_rmw_generic(m, i) ==
    LET op == IF i.name \in {"NOT", "NEGX"} THEN i.name ELSE "NEG"
    IN Modify(m, i.dst, i.size, LAMBDA t : Alu(op, i.size, Nought, t))

emit_cmpi_generic(m, i) ==
    LET r == emit_ea_read(m, i.dst, i.size)
    IN Codes(r.m, Alu("CMP", i.size, ImmTerm(i.imm), Cut(i.size, Now(r.m, r.expr))))

\* Both registers are stepped before either operand is read.
BothStepped(m, i, size) ==
    LET s == Before(m, i.src, size)
        t == Before(After(s, i.src, size), i.dst, size)
    IN [m |-> After(t, i.dst, size), src |-> s.a[i.src.reg], dst |-> t.a[i.dst.reg]]

ReadBoth(b, size) == Read(Read(b.m, size, b.src), size, b.dst)

emit_cmpm(m, i) ==
    LET b == BothStepped(m, i, i.size)
    IN IF i.src.mode # "apost" \/ i.dst.mode # "apost" THEN Fail(m)
       ELSE Codes(ReadBoth(b, i.size),
                  Alu("CMP", i.size, Mem(i.size, b.src), Mem(i.size, b.dst)))

\* emit_addsubx and emit_abcd_sbcd
emit_extended(m, i) ==
    LET b == BothStepped(m, i, i.size)
        Result(src, dst) == Alu(i.name, i.size, src, dst)
        onReg == Result(Cut(i.size, m.d[i.src.reg]), Cut(i.size, m.d[i.dst.reg]))
        onMem == Result(Mem(i.size, b.src), Mem(i.size, b.dst))
    IN IF i.src.mode = "dreg" /\ i.dst.mode = "dreg"
       THEN Codes(SetD(m, i.dst.reg, i.size, onReg), onReg)
       ELSE IF i.src.mode = "apre" /\ i.dst.mode = "apre"
       THEN Codes(Write(ReadBoth(b, i.size), i.size, b.dst, onMem), onMem)
       ELSE Fail(m)

emit_chk(m, i) ==
    LET r == emit_ea_read(m, i.src, 2)
        test == Alu("CHK", 2, Cut(2, Now(r.m, r.expr)), Cut(2, r.m.d[i.dst.reg]))
    IN Exit(r.m, test, Vector(6, NextPc))

\* ANDI to a byte at d16(An) has its own text, which takes the codes from the
\* byte as it reads it back.
emit_logical_imm(m, i) ==
    LET op == CASE i.name = "ORI" -> "OR" [] i.name = "EORI" -> "EOR"
                [] OTHER -> "AND"
        at == Term("disp", i.disp, 4, <<m.a[i.reg]>>)
        and == Alu("AND", 1, ImmTerm(i.imm), Mem(1, at))
    IN IF i.name = "ANDI" /\ i.form = "areg_disp" /\ i.size = 1
       THEN set_nz(Read(Write(Read(m, 1, at), 1, at, and), 1, at), 1, Mem(1, at))
       ELSE Modify(m, i.dst, i.size, LAMBDA t : Alu(op, i.size, ImmTerm(i.imm), t))

emit_bit_imm_generic(m, i) ==
    LET number == IF i.src.mode = "dreg" THEN m.d[i.src.reg] ELSE ImmTerm(i.imm)
        size == IF i.dst.mode = "dreg" THEN 4 ELSE 1     \* & 31, & 7
        r == emit_ea_read(m, i.dst, 1)
        Op(t) == Alu(i.name, size, number, t)
    IN CASE i.dst.mode = "dreg" /\ i.name = "BTST" -> Codes(m, Op(m.d[i.dst.reg]))
         [] i.dst.mode # "dreg" /\ i.name = "BTST" -> Codes(r.m, Op(Now(r.m, r.expr)))
         [] OTHER -> Modify(m, i.dst, size, Op)

QuickOp(i) == IF i.name \in {"ADDQ", "ADDI"} THEN "ADD" ELSE "SUB"

emit_quick_generic(m, i) ==
    IF i.dst.mode = "areg"
    THEN SetA(m, i.dst.reg,
              Alu(IF i.name = "ADDQ" THEN "ADDA" ELSE "SUBA", 4, ImmTerm(i.imm),
                  m.a[i.dst.reg]))
    ELSE Modify(m, i.dst, i.size,
                LAMBDA t : Alu(QuickOp(i), i.size, ImmTerm(i.imm), t))

emit_arith_imm_generic(m, i) ==
    Modify(m, i.dst, i.size, LAMBDA t : Alu(QuickOp(i), i.size, ImmTerm(i.imm), t))

emit_alu_address_reg(m, i) ==
    LET r == emit_ea_read(m, i.src, i.size)
        src == Extend(i.size, Cut(i.size, Now(r.m, r.expr)))
        t == Alu(i.name, 4, src, r.m.a[i.dst.reg])
    IN IF i.name = "CMPA" THEN Codes(r.m, Alu("CMP", 4, src, r.m.a[i.dst.reg]))
       ELSE SetA(r.m, i.dst.reg, t)

\* emit_logic_binary_generic and emit_alu_dreg_to_ea
SourceToEa(m, i) ==
    LET r == emit_ea_read(m, i.src, i.size)
        src == Cut(i.size, Now(r.m, r.expr))
    IN Modify(r.m, i.dst, i.size, LAMBDA t : Alu(i.name, i.size, src, t))

\* ADD, SUB and CMP: emit_alu_dreg_to_ea, then emit_alu_ea_to_dreg.  (The text
\* for a word between data registers that follows them has nothing left.)
emit_alu(m, i) ==
    LET r == emit_ea_read(m, i.src, i.size)
        t == Alu(i.name, i.size, Cut(i.size, Now(r.m, r.expr)),
                 Cut(i.size, r.m.d[i.dst.reg]))
    IN CASE /\ i.name \in {"ADD", "SUB"} /\ i.src.mode = "dreg"
            /\ i.dst.mode \notin {"none", "dreg", "areg"} -> SourceToEa(m, i)
         [] i.dst.mode = "dreg" /\ i.name = "CMP" -> Codes(r.m, t)
         [] i.dst.mode = "dreg" /\ i.name # "CMP" ->
              Codes(SetD(r.m, i.dst.reg, i.size, t), t)
         [] OTHER -> Fail(m)

\* emit_multiply and emit_divide: the whole register is an operand of the
\* division, and left alone when the trap is taken.
WordOperation(m, i) ==
    LET r == emit_ea_read(m, i.src, 2)
        src == Cut(2, Now(r.m, r.expr))
        divides == i.name \in {"DIVU", "DIVS"}
        t == Alu(i.name, 4, src, IF divides THEN r.m.d[i.dst.reg]
                                 ELSE Cut(2, r.m.d[i.dst.reg]))
        s == IF divides THEN Exit(r.m, Term("zero", 0, 2, <<src>>), Vector(5, NextPc))
             ELSE r.m
    IN IF i.dst.mode # "dreg" THEN Fail(m) ELSE Codes(SetD(s, i.dst.reg, 4, t), t)

emit_exchange(m, i) ==
    LET x == i.src.reg
        y == i.dst.reg
    IN CASE i.src.mode = "dreg" /\ i.dst.mode = "dreg" ->
              SetD(SetD(m, x, 4, m.d[y]), y, 4, m.d[x])
         [] i.src.mode = "areg" /\ i.dst.mode = "areg" ->
              SetA(SetA(m, x, m.a[y]), y, m.a[x])
         [] i.src.mode = "dreg" /\ i.dst.mode = "areg" ->
              SetA(SetD(m, x, 4, m.a[y]), y, m.d[x])
         [] OTHER -> Fail(m)

\* emit_shift_rotate_memory, by one, then emit_shift_rotate_dreg
emit_shift_rotate(m, i) ==
    LET count == IF i.src.mode = "dreg" THEN Term("mod64", 0, 1, <<m.d[i.src.reg]>>)
                 ELSE ImmTerm(i.imm)
        one == ImmTerm(Number(1))
    IN IF i.dst.mode \notin {"none", "dreg", "areg"} /\ i.size = 2
       THEN Modify(m, i.dst, 2, LAMBDA t : Alu(i.name, 2, one, t))
       ELSE IF i.dst.mode = "dreg"
       THEN Modify(m, i.dst, i.size, LAMBDA t : Alu(i.name, i.size, count, t))
       ELSE Fail(m)

emit_clr(m, i) ==
    CASE i.form = "abs" ->
           set_nz(Write(m, i.size, AbsTerm(i.abs), Nought), i.size, Nought)
      [] i.form = "dreg" -> set_nz(SetD(m, i.reg, i.size, Nought), i.size, Nought)
      [] OTHER -> set_nz(emit_ea_write(m, i.dst, i.size, Kept(Nought)), i.size, Nought)

-----------------------------------------------------------------------------
(* The cases of emit_instr that print their own text.                      *)

\* A test of the condition codes that 0 and 1 need not print.
Test(cond) == IF cond = 0 THEN Always ELSE Term("cond", cond, 0, <<>>)

emit_scc(m, i) ==
    emit_ea_write(m, i.dst, 1,
                  Kept(CASE i.cond = 0 -> ImmTerm(Number(255))
                         [] i.cond = 1 -> Nought
                         [] OTHER -> Term("cond", i.cond, 1, <<>>)))

\* Unless the condition holds, the counter goes down and, while it is not yet
\* past zero, the branch is taken.
emit_dbcc(m, i) ==
    LET counter == Alu("SUB", 2, ImmTerm(Number(1)), Cut(2, m.d[i.reg]))
        counted == SetD(m, i.reg, 2, counter)
        left == Term("left", i.cond, 0, <<counter>>)
        unless == Term("unless", i.cond, 4, <<m.d[i.reg], counted.d[i.reg]>>)
    IN CASE i.cond = 0 -> m
         [] i.cond = 1 -> Exit(counted, left, AbsTerm(i.target))
         [] OTHER -> Exit(SetD(m, i.reg, 4, unless), left, AbsTerm(i.target))

\* LINK and UNLK
emit_frame(m, i) ==
    LET s == Push(m, m.a[i.reg])
        linked == SetA(s, i.reg, s.a[7])
        u == SetA(m, 7, m.a[i.reg])
        back == Mem(4, u.a[7])
    IN CASE i.name = "LINK" -> SetA(linked, 7, Term("disp", i.disp, 4, <<linked.a[7]>>))
         [] i.name = "UNLK" /\ i.reg = 7 -> SetA(Read(m, 4, m.a[7]), 7, Mem(4, m.a[7]))
         [] OTHER -> Step(SetA(Read(u, 4, u.a[7]), i.reg, back), 7, 4)

\* RTS, RTR and RTE
emit_return(m, i) ==
    LET s == IF i.name = "RTE" THEN RequireSupervisor(m) ELSE m
        status == Mem(2, s.a[7])
        t == IF i.name = "RTS" THEN s ELSE Step(Read(s, 2, s.a[7]), 7, 2)
        pc == Mem(4, t.a[7])
        u == Step(Read(t, 4, t.a[7]), 7, 4)
        v == CASE i.name = "RTS" -> u
               [] i.name = "RTR" -> Codes(u, Term("set_ccr", 0, 2, <<status>>))
               [] i.name = "RTE" -> Codes(u, Term("set_sr", 0, 2, <<status>>))
    IN Leave(v, pc)

\* JSR and JMP: the address is worked out before the push; an absolute or
\* PC-relative one is the record's target.
emit_jump(m, i) ==
    LET to == IF i.form \in {"abs", "pc_relative"} THEN AbsTerm(i.target)
              ELSE AddressOf(m, i.src)
    IN Leave(IF i.name = "JSR" THEN Push(m, NextPc) ELSE m, to)

emit_trap(m, i) ==
    CASE i.name = "ILLEGAL" ->
           Leave(m, Vector(IF i.imm.value # 0 THEN i.imm.value ELSE 4, NextPc))
      [] i.name = "TRAP"  -> Leave(m, Vector(32 + i.imm.value, NextPc))
      [] i.name = "TRAPV" -> Exit(m, Test(9), Vector(7, NextPc))

emit_stop(m, i) ==
    [Codes(RequireSupervisor(m), Term("set_sr", 0, 2, <<ImmTerm(i.imm)>>))
       EXCEPT !.falls = FALSE]

emit_move_usp(m, i) ==
    LET s == RequireSupervisor(m)
    IN CASE i.src.mode = "areg" -> [s EXCEPT !.usp = s.a[i.src.reg]]
         [] i.dst.mode = "areg" -> SetA(s, i.dst.reg, s.usp)
         [] OTHER -> Fail(s)

emit_branch(m, i) ==
    CASE i.name = "BRA" -> Leave(m, AbsTerm(i.target))
      [] i.name = "BCC" -> Exit(m, Test(i.cond), AbsTerm(i.target))
      [] i.name = "BSR" -> Leave(Push(m, NextPc), AbsTerm(i.target))

\* EXT, SWAP and MOVEQ
emit_register(m, i) ==
    LET ext == Alu("EXT", i.size, Nought, Cut(i.size \div 2, m.d[i.reg]))
        swap == Alu("SWAP", 4, Nought, m.d[i.reg])
    IN CASE i.name = "EXT"  -> Codes(SetD(m, i.reg, i.size, ext), ext)
         [] i.name = "SWAP" -> Codes(SetD(m, i.reg, 4, swap), swap)
         [] i.name = "MOVEQ" ->
              LET t == Term("signed", 0, 4, <<ImmTerm(i.imm)>>)
              IN set_nz(SetD(m, i.reg, 4, t), 4, t)

\* LEA and PEA; the decoder leaves no LEA without a source.
emit_address(m, i) ==
    IF i.src.mode \notin Addressed THEN Fail(m)
    ELSE IF i.name = "LEA" THEN SetA(m, i.reg, AddressOf(m, i.src))
    ELSE Push(m, AddressOf(m, i.src))

ShiftsEmitted == {"ASL", "ASR", "LSL", "LSR", "ROXL", "ROXR", "ROL", "ROR"}

emit_instr(i, mask) ==
    LET m == Untouched
        Is(names) == i.name \in names
    IN CASE Is({"NOP"}) -> m
         [] Is({"RESET"}) -> RequireSupervisor(m)
         [] Is({"STOP"}) -> emit_stop(m, i)
         [] Is({"ILLEGAL", "TRAP", "TRAPV"}) -> emit_trap(m, i)
         [] Is({"RTE", "RTR", "RTS"}) -> emit_return(m, i)
         [] Is({"LINK", "UNLK"}) -> emit_frame(m, i)
         [] Is({"LEA", "PEA"}) -> emit_address(m, i)
         [] Is({"MOVEA"}) -> emit_movea_generic(m, i)
         [] Is({"MOVEQ", "EXT", "SWAP"}) -> emit_register(m, i)
         [] Is({"MOVE"}) -> emit_move(m, i)
         [] Is({"MOVEM"}) -> emit_movem(m, i, mask)
         [] Is({"MOVEP"}) -> emit_movep(m, i)
         [] Is({"MOVE_SR", "MOVE_CCR"}) -> emit_move_sr_ccr(m, i)
         [] Is({"MOVE_USP"}) -> emit_move_usp(m, i)
         [] Is({"ADD", "SUB", "CMP"}) -> emit_alu(m, i)
         [] Is({"ADDA", "SUBA", "CMPA"}) -> emit_alu_address_reg(m, i)
         [] Is({"OR", "AND", "EOR"}) -> SourceToEa(m, i)
         [] Is({"MULU", "MULS", "DIVU", "DIVS"}) -> WordOperation(m, i)
         [] Is({"EXG"}) -> emit_exchange(m, i)
         [] Is(ShiftsEmitted) -> emit_shift_rotate(m, i)
         [] Is({"ADDX", "SUBX", "ABCD", "SBCD"}) -> emit_extended(m, i)
         [] Is({"ADDQ", "SUBQ"}) -> emit_quick_generic(m, i)
         [] Is({"CLR"}) -> emit_clr(m, i)
         [] Is({"NEG", "NEGX", "NOT"}) -> emit_unary_rmw_generic(m, i)
         [] Is({"NBCD"}) -> emit_nbcd_generic(m, i)
         [] Is({"TST"}) -> emit_tst(m, i)
         [] Is({"TAS"}) -> emit_tas_generic(m, i)
         [] Is({"ADDI", "SUBI"}) -> emit_arith_imm_generic(m, i)
         [] Is({"CMPI"}) -> emit_cmpi_generic(m, i)
         [] Is({"CMPM"}) -> emit_cmpm(m, i)
         [] Is({"ORI", "ANDI", "EORI"}) -> emit_logical_imm(m, i)
         [] Is({"BTST", "BCHG", "BCLR", "BSET"}) -> emit_bit_imm_generic(m, i)
         [] Is(DOMAIN StatusOps) -> emit_immediate_to_sr_ccr(m, i)
         [] Is({"BRA", "BCC", "BSR"}) -> emit_branch(m, i)
         [] Is({"SCC"}) -> emit_scc(m, i)
         [] Is({"DBCC"}) -> emit_dbcc(m, i)
         [] Is({"CHK"}) -> emit_chk(m, i)
         [] Is({"JSR", "JMP"}) -> emit_jump(m, i)
         [] OTHER -> Fail(m)

=============================================================================

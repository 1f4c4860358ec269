----------------------------- MODULE MCGenerated -----------------------------
(* Small families of programs for GeneratedCode.                           *)
EXTENDS GeneratedCode

Op(op, target) == Instr(op, 1, target, <<>>)

\* A call through an address register, whose pointer lies in the window.
Through(pointer) == [Op("icall", 0) EXCEPT !.pointers = <<pointer>>]

Seed(addr) == [view |-> 1, addr |-> addr]

InOrder == <<1, 2>>
OneBank == <<1>>

\* Two handlers, behind the program.
Handlers == {4, 5}

Vectors == [trap |-> 4, interrupt |-> 4, trace |-> 5, privilege |-> 5, illegal |-> 5]

Program(code, handlers) ==
    [fixed |-> code @@ (3 :> Op("ret", 0)) @@ [a \in handlers |-> Op("rte", 0)],
     banked |-> [b \in Banks |-> [w \in Window |-> NoInstr]],
     active |-> 1, seeds |-> <<Seed(0)>> \o SetToSortSeq({Seed(a) : a \in handlers},
                                   LAMBDA s, t : s.addr < t.addr),
     scripts |-> <<>>, vector |-> Vectors]

\* Every arrangement of four instructions: once around conditional branches
\* and calls, once around the other transfers, once around the modes of the
\* processor.  2 is supervisor mode, 0 user mode; 1 more is tracing.
CallInstrs == {Op("plain", 0), Instr("plain", 2, 0, <<>>), Op("cond", 3),
               Op("call", 2), Op("ret", 0), Op("stop", 2)}

JumpInstrs == {Op("plain", 0), Op("bra", 1), Op("check", 0), Op("jmp", 3),
               Through(<<3, 2>>), Instr("ijmp", 1, 0, <<2, 6>>)}

ModeInstrs == {Op("call", 3), Op("ret", 0), Op("trap", 0), Op("illegal", 0),
               Op("tosr", 0), Op("tosr", 1), Op("tosr", 3), Op("stop", 1)}

\* A program in the fixed region that calls into the window, where both banks
\* hold code.  The bank that stays in is the first to be discovered.
Banked(bank1, bank2) ==
    LET fixed == (0 :> Op("call", 9)) @@ (1 :> Op("bra", 0)) @@ (2 :> Op("ret", 0))
        p == Program(fixed, Handlers)
    IN  [p EXCEPT !.banked = <<bank1, bank2>>,
                  !.seeds = @ \o <<Seed(9), [view |-> 2, addr |-> 9]>>]

BankCodes == {(9 :> i) @@ (10 :> j) :
                 i \in {Op("plain", 0), Op("cond", 10), Op("call", 2), Op("jmp", 2), Op("trap", 0)},
                 j \in {Op("ret", 0), Op("bra", 9)}}

Programs ==
    {Banked(one, two) : one \in BankCodes,
                        two \in {b \in BankCodes : b[9].op \in {"jmp", "cond"} /\ b[10].op = "ret"}} \cup
    {Program(code, Handlers) : code \in [Fixed \ Handlers -> CallInstrs]
                                    \cup [Fixed \ Handlers -> JumpInstrs]
                                    \cup [0..2 -> ModeInstrs]}

\* A straight run longer than one C function, with a branch out of it.
StraightRun ==
    {Program([a \in Fixed |->
                 IF a = 0 THEN Op("cond", 9) ELSE IF a = 9 THEN Op("ret", 0)
                 ELSE Op("plain", 0)], {})}

=============================================================================

----------------------------- MODULE MCDiscovery -----------------------------
(* Small families of programs for FunctionDiscovery and DispatchAudit.     *)
EXTENDS DispatchAudit

Plain(len) == Instr("plain", len, 0, <<>>)
Jump(op, target) == Instr(op, 1, target, <<>>)
Ret == Jump("ret", 0)

\* A computed jump through an address register.
Through(pointer) == [Jump("ijmp", 0) EXCEPT !.pointers = <<pointer>>]

InOrder == <<1, 2>>

Rom(fixed, banked, seeds, scripts) ==
    [fixed |-> fixed, banked |-> banked, active |-> 1, seeds |-> seeds,
     scripts |-> scripts]

Seed(view, addr) == [view |-> view, addr |-> addr]

\* Programs without a bank window: overlapping instructions, loops, calls,
\* tables and data that does not decode, in every arrangement.
FixedInstrs == {Plain(1), Plain(2), Ret, NoInstr, Jump("stop", 0),
                Instr("ijmp", 1, 0, <<2>>)}
                  \cup {Jump("cond", t) : t \in {0, 2}}
                  \cup {Jump("call", t) : t \in {1, 3}}
                  \cup {Jump("jmp", 3)}

Data == [w \in Window |-> NoInstr]

FlatRoms == {Rom(f, [b \in Banks |-> Data], <<Seed(1, 0)>>, <<1>>) :
                f \in [Fixed -> FixedInstrs]}

\* Programs with two banks behind one window, seeded in the second one.
BankInstrs == {Plain(1), Ret, Jump("call", 0), Jump("bra", 7), Jump("jmp", 8)}

BankedRoms ==
    {Rom([a \in Fixed |-> IF a < 2 THEN f[a + 1] ELSE NoInstr], b,
         <<Seed(1, 0), Seed(2, 7)>>, <<>>) :
        f \in {<<i, j>> : i \in {Plain(1), Jump("call", 7), Jump("jmp", 8)},
                          j \in {Ret, Jump("call", 7), Jump("call", 20),
                                 Through(<<7, 7>>), Through(<<7, 8>>)}},
        b \in {<<one, two>> : one \in [Window -> BankInstrs],
                              two \in {w \in [Window -> BankInstrs] :
                                         w[8].op \in {"ret", "bra"}}}}

SmallRoms == FlatRoms \cup BankedRoms

=============================================================================

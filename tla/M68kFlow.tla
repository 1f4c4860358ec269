------------------------------ MODULE M68kFlow ------------------------------
(***************************************************************************)
(* The order in which a 68000 executes a program: the abstract machine     *)
(* that the generated C implements.  It has a program counter, a status    *)
(* register and two stacks.  An instruction that was begun with tracing on *)
(* is followed by a trace exception; a privileged one is refused in user   *)
(* mode; an interrupt may come before any instruction.                     *)
(***************************************************************************)
EXTENDS ProgramRom, M68kStatus

VARIABLES rom, cpu     \* cpu: [pc, sr, user, super]

flowVars == <<rom, cpu>>

At(c, addr) == [c EXCEPT !.pc = addr]

Push(c, word) ==
    IF Supervisor(c.sr) THEN [c EXCEPT !.super = Append(@, word)]
    ELSE [c EXCEPT !.user = Append(@, word)]

\* Address and status of c go on the supervisor's stack.
Exception(c, cause) ==
    [c EXCEPT !.pc = rom.vector[cause], !.sr = Handling,
              !.super = @ \o <<PcWord(c.pc), SrWord(c.sr)>>]

Front(s) == SubSeq(s, 1, Len(s) - 1)
Top(s) == s[Len(s)]

\* RTS and RTR: the top of the current stack is an address.
Returned(c) ==
    LET s == IF Supervisor(c.sr) THEN c.super ELSE c.user
        popped == IF Supervisor(c.sr) THEN [c EXCEPT !.super = Front(s)]
                  ELSE [c EXCEPT !.user = Front(s)]
    IN  IF s # <<>> /\ Top(s)[1] = "pc" THEN {At(popped, Top(s)[2])} ELSE {}

\* RTE: a status word, and an address below it.
Resumed(c) ==
    LET rest == Front(c.super)
    IN  IF Len(c.super) > 1 /\ Top(c.super)[1] = "sr" /\ Top(rest)[1] = "pc"
        THEN {[At(c, Top(rest)[2]) EXCEPT !.sr = Top(c.super)[2],
                                          !.super = Front(rest)]}
        ELSE {}

Here == Code(rom, rom.active, cpu.pc)

Privileged == {"tosr", "stop", "rte"}

Refused == Here.op = "illegal" \/ (Here.op \in Privileged /\ ~Supervisor(cpu.sr))

\* What the instruction at pc can make of the machine.
Executed ==
    LET after == cpu.pc + Here.len
        computed == ComputedTargets(Here, rom.active)
        op == Here.op
    IN  CASE op = "plain" -> {At(cpu, after)}
          [] op = "cond"  -> {At(cpu, after), At(cpu, Here.target)}
          [] op \in {"bra", "jmp"} -> {At(cpu, Here.target)}
          [] op = "ijmp"  -> {At(cpu, t) : t \in computed}
          [] op = "call"  -> {At(Push(cpu, PcWord(after)), Here.target)}
          [] op = "icall" -> {At(Push(cpu, PcWord(after)), t) : t \in computed}
          [] op = "ret"   -> Returned(cpu)
          [] op = "rte"   -> Resumed(cpu)
          [] op = "trap"  -> {Exception(At(cpu, after), "trap")}
          [] op = "check" -> {At(cpu, after), Exception(At(cpu, after), "trap")}
          [] op \in {"tosr", "stop"} -> {[At(cpu, after) EXCEPT !.sr = Here.target]}
          [] OTHER -> {}

FlowInit ==
    cpu = [pc |-> rom.seeds[1].addr, sr |-> Handling, user |-> <<>>, super |-> <<>>]

Execute ==
    /\ ~Refused
    /\ \E c \in Executed :
          cpu' = IF Tracing(cpu.sr) THEN Exception(c, "trace") ELSE c

\* A refused instruction leaves a trace of nothing but its exception.
Refuse ==
    /\ Refused
    /\ cpu' = IF Here.op = "illegal"
              THEN Exception(At(cpu, cpu.pc + Here.len), "illegal")
              ELSE Exception(cpu, "privilege")

Interrupt ==
    /\ Here.op # "bad"
    /\ cpu' = Exception(cpu, "interrupt")

\* A reset forgets the supervisor's stack.  A program in user mode may lose
\* its stack pointer too.
Reset ==
    /\ cpu'.pc = rom.seeds[1].addr /\ cpu'.sr = Handling /\ cpu'.super = <<>>
    /\ Supervisor(cpu.sr) => cpu'.user = cpu.user

FlowNext ==
    /\ Execute \/ Refuse \/ Interrupt \/ Reset
    /\ UNCHANGED rom

FlowSpec == FlowInit /\ [][FlowNext]_flowVars

=============================================================================

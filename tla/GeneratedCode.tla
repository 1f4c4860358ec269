---------------------------- MODULE GeneratedCode ----------------------------
(***************************************************************************)
(* Discovery, emission and execution put together: what the C generated    *)
(* from a discovered program does when a host runs it                      *)
(* (recompiler/src/c_emitter.c and the dispatch loop of                    *)
(* tools/generated_smoke_harness.c).                                       *)
(*                                                                         *)
(* One C function is emitted for each candidate.  It holds the             *)
(* instructions from the candidate's address up to the first one that      *)
(* hands control over, and leaves by naming the next address to the        *)
(* dispatch loop, which looks the address up and runs its function.        *)
(***************************************************************************)
EXTENDS FunctionDiscovery, M68kStatus, SequencesExt

CONSTANTS EmitLimit,   \* NG_EMIT_MAX_INSTRUCTIONS
          PerShard,    \* functions in one shard
          UserWords,   \* room on the user stack
          SuperWords,  \* and on the supervisor stack
          None

ASSUME EmitAssumption ==
    /\ EmitLimit \in Nat \ {0} /\ PerShard \in Nat \ {0}
    /\ UserWords \in Nat /\ SuperWords \in Nat

\* The first seed is the reset vector's, and the other vectors hold addresses
\* too.
Causes == {"trap", "interrupt", "trace", "privilege", "illegal"}

ASSUME VectorAssumption ==
    \A r \in Roms : r.seeds # <<>> /\ r.vector \in [Causes -> Nat]

\* None is neither an address nor a word on a stack.
ASSUME NoneAssumption == None \notin Nat /\ None \notin {"pc", "sr"} \X Nat

VARIABLES exec,    \* where the C program is: [mode, fn, pc, last]
          m68k     \* g_ng_m68k and the stacks' memory: [sr, a7, usp, ssp, mem]

execVars == <<exec, m68k>>
vars == <<discoveryVars, execVars>>

\* The two stacks lie one above the other, one place for each word or long.
UserTop == UserWords + 1
SuperTop == UserWords + SuperWords + 1

State(mode, fn, pc, last) == [mode |-> mode, fn |-> fn, pc |-> pc, last |-> last]

ProgramInit ==
    /\ Init
    /\ exec = State("off", 0, rom.seeds[1].addr, None)
    /\ m68k = [sr |-> Handling, a7 |-> SuperTop, usp |-> UserTop, ssp |-> SuperTop,
               mem |-> [a \in 1..(SuperTop - 1) |-> None]]

-----------------------------------------------------------------------------
(* What is emitted.                                                        *)

\* emit_function_body ends a body at these.
EndsBody == {"bra", "jmp", "ijmp", "call", "icall", "ret", "stop", "trap",
             "illegal", "rte", "bad"}

InstrOf(k, addr) == Code(rom, ViewOf(rom, list[k].bank), addr)

\* The addresses of the instructions in function k, in order.
Body(k) ==
    LET Upto[n \in 1..EmitLimit] ==
            IF n = 1 THEN <<list[k].addr>>
            ELSE LET b == Upto[n - 1]
                     i == InstrOf(k, b[Len(b)])
                 IN  IF Len(b) < n - 1 \/ i.op \in EndsBody
                     THEN b ELSE Append(b, b[Len(b)] + i.len)
    IN  Upto[EmitLimit]

InBody(k, addr) == Contains(Body(k), addr)

\* emit_missing_branch_labels: branch targets outside the body get a label
\* behind it that dispatches to them.  These are the branches' places.
MissingLabels(k) ==
    {n \in DOMAIN Body(k) :
        LET i == InstrOf(k, Body(k)[n])
        IN  i.op \in {"cond", "bra"} /\ ~InBody(k, i.target)}

\* An instruction that does not decode or has no translation is counted in
\* the diagnostics, and the recompiler then fails.
Emittable == \A k \in DOMAIN list :
                 \A addr \in ToSet(Body(k)) : InstrOf(k, addr).op # "bad"

\* dispatch_case_emitted: the first candidate with an address has the case.
Cases(addr) == {k \in DOMAIN list : list[k].addr = addr
                                    /\ \A j \in 1..(k - 1) : list[j].addr # addr}

\* The sharded form of the table: a route for each case, with the shard that
\* holds its function, sorted by address.
RouteSet == {[addr |-> list[k].addr, shard |-> (k - 1) \div PerShard] :
                k \in UNION {Cases(list[j].addr) : j \in DOMAIN list}}

Routes ==
    LET set == RouteSet
        Place(r) == Cardinality({q \in set : q.addr <= r.addr})
    IN  [n \in 1..Cardinality(set) |-> CHOOSE r \in set : Place(r) = n]

\* The search skips one route too many.
SearchPast(routes, addr) ==
    LET Lower[b \in (0..Len(routes)) \X (0..Len(routes))] ==
            IF b[1] >= b[2] THEN b[1]
            ELSE LET mid == b[1] + (b[2] - b[1]) \div 2
                 IN  IF routes[mid + 1].addr <= addr
                     THEN Lower[<<mid + 1, b[2]>>] ELSE Lower[<<b[1], mid>>]
    IN  Lower[<<0, Len(routes)>>]

\* The binary search of the emitted NG_GENERATED_STEP.
Search(routes, addr) ==
    LET Lower[b \in (0..Len(routes)) \X (0..Len(routes))] ==
            IF b[1] >= b[2] THEN b[1]
            ELSE LET mid == b[1] + (b[2] - b[1]) \div 2
                 IN  IF routes[mid + 1].addr < addr
                     THEN Lower[<<mid + 1, b[2]>>] ELSE Lower[<<b[1], mid>>]
    IN  Lower[<<0, Len(routes)>>]

\* The cases of the step function of one shard.
ShardCases(shard, addr) ==
    {k \in Cases(addr) : (k - 1) \div PerShard = shard}

ShardedCases(addr) ==
    LET routes == Routes
        lo == Search(routes, addr)
    IN  IF lo < Len(routes) /\ routes[lo + 1].addr = addr
        THEN ShardCases(routes[lo + 1].shard, addr)
        ELSE {}

-----------------------------------------------------------------------------
(* The 68000's status register and stacks, on a copy c of m68k.            *)

\* Mutation: the user's stack pointer is not put away.
SetSrKeepsUsp(c, value) ==
    IF Supervisor(c.sr) = Supervisor(value) THEN [c EXCEPT !.sr = value]
    ELSE IF Supervisor(c.sr)
    THEN [c EXCEPT !.ssp = c.a7, !.a7 = c.usp, !.sr = value]
    ELSE [c EXCEPT !.a7 = c.ssp, !.sr = value]

ng_set_sr(c, value) ==
    IF Supervisor(c.sr) = Supervisor(value) THEN [c EXCEPT !.sr = value]
    ELSE IF Supervisor(c.sr)
    THEN [c EXCEPT !.ssp = c.a7, !.a7 = c.usp, !.sr = value]
    ELSE [c EXCEPT !.usp = c.a7, !.a7 = c.ssp, !.sr = value]

Pushed(c, word) ==
    [c EXCEPT !.a7 = @ - 1,
              !.mem = [a \in DOMAIN @ |-> IF a = c.a7 - 1 THEN word ELSE @[a]]]

\* What is below a stack pointer may be overwritten, and is forgotten.
Popped(c) == [c EXCEPT !.a7 = @ + 1, !.mem[c.a7] = None]

IsTop(c, kind) == c.a7 \in DOMAIN c.mem /\ c.mem[c.a7] # None /\ c.mem[c.a7][1] = kind

ng_push_exception_frame(c, return_pc) ==
    Pushed(Pushed(ng_set_sr(c, Handling), PcWord(return_pc)), SrWord(c.sr))

UserPointer(c) == IF Supervisor(c.sr) THEN c.usp ELSE c.a7
SuperPointer(c) == IF Supervisor(c.sr) THEN c.a7 ELSE c.ssp

\* Programs that keep to the room of their stacks.
InStacks(c) == UserPointer(c) \in 1..UserTop /\ SuperPointer(c) \in UserTop..SuperTop

-----------------------------------------------------------------------------
(* Running it.                                                             *)

To(mode, pc, last) == State(mode, exec.fn, pc, last)

Goto(mode, pc, last) == exec' = To(mode, pc, last)

\* main refuses a truncated list and failed diagnostics; else a host starts
\* the program at its entry.
Emit ==
    /\ phase = "done" /\ exec.mode = "off"
    /\ IF ~truncated /\ Emittable
       THEN Goto("pending", exec.pc, None)
       ELSE Goto("refused", exec.pc, None)
    /\ UNCHANGED m68k

\* One turn of the dispatch loop: NG_GENERATED_STEP finds the function.
Dispatch ==
    /\ exec.mode = "pending"
    /\ \E k \in Cases(exec.pc) :
          exec' = State("body", k, exec.pc, None)
    /\ UNCHANGED m68k

\* ng_call_by_address: nobody has the address.
DispatchMiss ==
    /\ exec.mode = "pending" /\ Cases(exec.pc) = {}
    /\ Goto("miss", exec.pc, exec.last)
    /\ UNCHANGED m68k

\* The loop runs out of budget and leaves the address in the PC register.
BudgetStop ==
    /\ exec.mode = "pending"
    /\ Goto("host", exec.pc, exec.last)
    /\ UNCHANGED m68k

\* NG_GENERATED_SHOULD_YIELD, before any instruction.
YieldToHost ==
    /\ exec.mode = "body"
    /\ Goto("host", exec.pc, None)
    /\ UNCHANGED m68k

\* The host's next slice goes on at the PC register.
HostResumes ==
    /\ exec.mode = "host"
    /\ Goto("pending", exec.pc, exec.last)
    /\ UNCHANGED m68k

\* ng_service_interrupt, before an instruction or after STOP.
TakeInterrupt ==
    /\ exec.mode \in {"body", "stopped"}
    /\ m68k' = ng_push_exception_frame(m68k, exec.pc)
    /\ Goto("pending", rom.vector["interrupt"], None)

\* ng_service_reset, at the same places: it writes SR and A7 by themselves
\* and does not put the user's stack pointer away.
ServiceReset ==
    /\ exec.mode \in {"body", "stopped"}
    /\ m68k' = [m68k EXCEPT !.sr = Handling, !.ssp = SuperTop, !.a7 = SuperTop,
                            !.mem = [a \in DOMAIN @ |-> IF a < UserTop THEN @[a] ELSE None]]
    /\ Goto("pending", rom.seeds[1].addr, None)

Executing(ops) == exec.mode = "body" /\ InstrOf(exec.fn, exec.pc).op \in ops

This == InstrOf(exec.fn, exec.pc)
After == exec.pc + This.len

\* The end of an instruction that leaves c and goes to addr: ng_service_trace
\* with the status the instruction began with, else the C goes on with next.
Retire(c, addr, next) ==
    IF Tracing(m68k.sr)
    THEN m68k' = ng_push_exception_frame(c, addr)
         /\ Goto("pending", rom.vector["trace"], exec.pc)
    ELSE m68k' = c /\ exec' = next

DispatchTo(c, addr) == Retire(c, addr, To("pending", addr, exec.pc))

\* Behind the last instruction of the body lie the missing labels, then a
\* call that reports a miss.
RunOn(addr) ==
    LET labels == MissingLabels(exec.fn)
        First(n) == \A m \in labels : n <= m
        branch == InstrOf(exec.fn, Body(exec.fn)[CHOOSE n \in labels : First(n)])
    IN  IF InBody(exec.fn, addr) THEN To("body", addr, exec.pc)
        ELSE IF labels # {} THEN To("pending", branch.target, exec.pc)
        ELSE To("miss", addr, exec.pc)

\* goto: inside the body, or through the label behind it.
Branch(addr) ==
    IF InBody(exec.fn, addr) THEN To("body", addr, exec.pc)
    ELSE To("pending", addr, exec.pc)

Plain ==
    /\ Executing({"plain", "cond", "check"})
    /\ Retire(m68k, After, RunOn(After))

TakeBranch ==
    /\ Executing({"cond", "bra"})
    /\ Retire(m68k, This.target, Branch(This.target))

Jump ==
    /\ Executing({"jmp", "ijmp"})
    /\ \E t \in (IF This.op = "jmp" THEN {This.target}
                 ELSE ComputedTargets(This, rom.active)) :
          DispatchTo(m68k, t)

Call ==
    /\ Executing({"call", "icall"})
    /\ \E t \in (IF This.op = "call" THEN {This.target}
                 ELSE ComputedTargets(This, rom.active)) :
          DispatchTo(Pushed(m68k, PcWord(After)), t)

\* RTS, RTR.  What they take off the stack was put there by a call or an
\* exception: a program that pushes an address of its own to jump to it by RTS
\* is not among the programs.
Return ==
    /\ Executing({"ret"}) /\ IsTop(m68k, "pc")
    /\ DispatchTo(Popped(m68k), m68k.mem[m68k.a7][2])

\* TRAP, and TRAPV, CHK, DIVU and DIVS when they trap; Plain has them when they
\* do not.  One vector stands for the four.
Trap ==
    /\ Executing({"trap", "check"})
    /\ DispatchTo(ng_push_exception_frame(m68k, After), rom.vector["trap"])

\* emit_exception_vector_call: nothing is traced.
Illegal ==
    /\ Executing({"illegal"})
    /\ m68k' = ng_push_exception_frame(m68k, After)
    /\ Goto("pending", rom.vector["illegal"], exec.pc)

\* ng_require_supervisor fails, before the instruction does anything.
PrivilegeViolation ==
    /\ Executing({"tosr", "stop", "rte"}) /\ ~Supervisor(m68k.sr)
    /\ m68k' = ng_push_exception_frame(m68k, exec.pc)
    /\ Goto("pending", rom.vector["privilege"], exec.pc)

\* MOVE, ANDI, ORI and EORI to SR
ToSr ==
    /\ Executing({"tosr"}) /\ Supervisor(m68k.sr)
    /\ Retire(ng_set_sr(m68k, This.target), After, RunOn(After))

ReturnFromException ==
    /\ Executing({"rte"}) /\ Supervisor(m68k.sr)
    /\ IsTop(m68k, "sr") /\ IsTop(Popped(m68k), "pc")
    /\ LET sr == m68k.mem[m68k.a7][2]
           pc == m68k.mem[m68k.a7 + 1][2]
       IN  DispatchTo(ng_set_sr(Popped(Popped(m68k)), sr), pc)

\* STOP: a trace or an interrupt may be taken at once, else the function
\* returns with nothing pending and the host is back in control.
Stop ==
    /\ Executing({"stop"}) /\ Supervisor(m68k.sr)
    /\ Retire(ng_set_sr(m68k, This.target), After, To("stopped", After, exec.pc))

StopReturns ==
    /\ exec.mode = "stopped"
    /\ Goto("host", exec.pc, None)
    /\ UNCHANGED m68k

ExecNext ==
    /\ \/ Emit \/ Dispatch \/ DispatchMiss \/ BudgetStop \/ YieldToHost
       \/ HostResumes \/ TakeInterrupt \/ ServiceReset
       \/ Plain \/ TakeBranch \/ Jump \/ Call \/ Return
       \/ Trap \/ Illegal \/ PrivilegeViolation \/ ToSr \/ ReturnFromException
       \/ Stop \/ StopReturns
    /\ InStacks(m68k')
    /\ UNCHANGED discoveryVars

ProgramNext == (DiscoveryNext /\ UNCHANGED execVars) \/ ExecNext

ProgramSpec == ProgramInit /\ [][ProgramNext]_vars

-----------------------------------------------------------------------------
(* Properties.                                                             *)

Running == exec.mode \notin {"off", "refused"}

\* The words on a stack, the oldest first.
Words(top, pointer) == [k \in 1..(top - pointer) |-> m68k.mem[top - k]]

\* The generated program executes the instructions of the ROM in an order
\* the 68000 could execute them in, and keeps its two stacks as the 68000
\* would, through every hand-over, exception, interrupt, reset, yield, STOP
\* and exhausted budget: every frame is on the supervisor's stack and brings
\* back mode, tracing and address, and every traced instruction is followed
\* by one trace exception.
Flow == INSTANCE M68kFlow
        WITH cpu <- [pc    |-> exec.pc,
                     sr    |-> m68k.sr,
                     user  |-> Words(UserTop, UserPointer(m68k)),
                     super |-> Words(SuperTop, SuperPointer(m68k))]

FollowsProgram == Flow!FlowSpec

\* The only address that can be missing from the dispatch table is one
\* computed at run time that no table named: static transfers, returns,
\* resumed interrupts and traces and host slices always find their function.
OnlyComputedMiss ==
    exec.mode = "miss" =>
        /\ exec.last # None
        /\ Code(rom, rom.active, exec.last).op \in {"ijmp", "icall", "rte"}
        /\ <<exec.pc, BankFor(rom.active, exec.pc)>> \notin Found
        /\ \E n \in Found :
              LET i == Code(rom, rom.active, n[1])
              IN  i.op \in {"ijmp", "icall"} /\ exec.pc \in ComputedTargets(i, rom.active)

\* The sharded dispatch table names the same function as the switch does,
\* for every address (emit_sharded_dispatch, emit_shard_step).
ShardsAgree ==
    exec.mode = "pending" => ShardedCases(exec.pc) = Cases(exec.pc)

\* An instruction that is not a transfer is followed by the next one, also
\* when the C function that holds it ends there.
LongBodiesContinue ==
    exec.last # None /\ Code(rom, rom.active, exec.last).op = "plain" =>
        /\ exec.pc = exec.last + Code(rom, rom.active, exec.last).len
        /\ exec.mode # "miss"

=============================================================================

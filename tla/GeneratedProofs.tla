--------------------------- MODULE GeneratedProofs ---------------------------
(***************************************************************************)
(* Proofs about the generated code, on top of those about discovery:       *)
(*                                                                         *)
(*  - the sharded dispatch table names the functions that the plain one    *)
(*    names, whatever the program;                                         *)
(*  - for programs whose bodies are whole and whose static control flow    *)
(*    leads to code (Translatable), only a computed transfer can miss; and *)
(*  - the C then implements M68kFlow, the order in which a 68000 executes  *)
(*    the program, with its two stacks.                                    *)
(*                                                                         *)
(* The last two rest on FlowInv: the instruction the C is at, and every    *)
(* address on a stack, is a candidate of the bank that is in, except in    *)
(* the frame of a traced computed transfer.                                *)
(***************************************************************************)
EXTENDS GeneratedCode, DiscoveryProofs

-----------------------------------------------------------------------------
(* Bodies.                                                                 *)

\* Term n of the recursion that defines a body, from the one before it.
Extended(k, n, b) ==
    IF n = 1 THEN <<list[k].addr>>
    ELSE LET i == InstrOf(k, b[Len(b)])
         IN  IF Len(b) < n - 1 \/ i.op \in EndsBody
             THEN b ELSE Append(b, b[Len(b)] + i.len)

\* f is its first N terms.
Extends(f, k, N) == f = [n \in 1..N |-> Extended(k, n, f[n - 1])]

LEMMA ExtendsExists ==
  ASSUME NEW k, NEW N \in Nat
  PROVE  \E f : Extends(f, k, N)
<1> DEFINE T == {m \in Nat : ~ \E f : Extends(f, k, m)}
<1> SUFFICES ASSUME T # {} PROVE FALSE
  OBVIOUS
<1>1. PICK m \in T : \A y \in T : m <= y
  BY LeastNat
<1>2. m \in Nat /\ ~ \E f : Extends(f, k, m)
  OBVIOUS
<1>3. CASE m = 0
  <2>1. Extends([n \in 1..0 |-> 0], k, 0)
    BY DEF Extends
  <2> QED BY <1>2, <1>3, <2>1
<1>4. CASE m # 0
  <2>1. m - 1 \in Nat /\ m - 1 \notin T
    BY <1>1, <1>2, <1>4
  <2>2. PICK f : Extends(f, k, m - 1)
    BY <2>1
  <2> DEFINE g == [n \in 1..m |-> IF n = m THEN Extended(k, m, f[m - 1]) ELSE f[n]]
  <2>3. \A n \in 1..(m - 1) : g[n] = f[n] /\ f[n] = Extended(k, n, f[n - 1])
    BY <1>2, <2>1, <2>2 DEF Extends
  <2>4. \A b, c : Extended(k, 1, b) = Extended(k, 1, c)
    BY DEF Extended
  <2>5. \A n \in 1..m : g[n] = Extended(k, n, g[n - 1])
    <3> SUFFICES ASSUME NEW n \in 1..m PROVE g[n] = Extended(k, n, g[n - 1])
      OBVIOUS
    <3>1. g[m] = Extended(k, m, f[m - 1])
      BY <1>2, <1>4
    <3> HIDE DEF g
    <3>2. CASE n = m
      <4>1. m # 1 => g[m - 1] = f[m - 1]
        BY <2>1, <2>3, <1>2
      <4> QED BY <3>1, <3>2, <4>1, <2>4
    <3>3. CASE n # m
      <4>1. n \in 1..(m - 1)
        BY <1>2, <3>3
      <4>2. n # 1 => g[n - 1] = f[n - 1]
        BY <1>2, <3>3, <2>3
      <4> QED BY <4>1, <4>2, <2>3, <2>4
    <3> QED BY <3>2, <3>3
  <2>6. g = [n \in 1..m |-> g[n]]
    OBVIOUS
  <2> HIDE DEF g
  <2>7. Extends(g, k, m)
    BY <2>5, <2>6 DEF Extends
  <2> QED BY <1>2, <2>7
<1> QED BY <1>3, <1>4

\* b is a run of at most n instructions from function k's address, each but
\* the last passing control on to the next; a shorter run has ended.
IsRun(k, n, b) ==
    /\ b \in Seq(Nat) /\ Len(b) \in 1..n /\ b[1] = list[k].addr
    /\ \A j \in 1..(Len(b) - 1) :
          /\ InstrOf(k, b[j]).op \notin EndsBody
          /\ b[j + 1] = b[j] + InstrOf(k, b[j]).len
    /\ Len(b) < n => InstrOf(k, b[Len(b)]).op \in EndsBody

\* An instruction that runs on has a length.
LEMMA RunsOn ==
  ASSUME rom \in Roms, list \in Seq(Row), NEW k \in DOMAIN list, NEW a \in Nat,
         InstrOf(k, a).op \notin EndsBody
  PROVE  /\ Probable(rom, RowView(k), a) /\ RowView(k) \in Banks
         /\ InstrOf(k, a) = Code(rom, RowView(k), a)
         /\ InstrOf(k, a).len \in Nat \ {0} /\ InstrOf(k, a).target \in Nat
         /\ InstrOf(k, a).op \in {"plain", "cond", "check", "tosr"}
<1>1. RowView(k) \in Banks
  <2>1. list[k] \in Row
    OBVIOUS
  <2>2. list[k].bank \in Banks \cup {NoBank}
    BY <2>1 DEF Row
  <2> QED BY <2>2, ViewType DEF RowView
<1>2. InstrOf(k, a) = Code(rom, RowView(k), a)
  BY DEF InstrOf, RowView
<1>3. Probable(rom, RowView(k), a)
  BY <1>2 DEF Probable, EndsBody
<1> QED BY <1>1, <1>2, <1>3, CodeType DEF EndsBody, Ops

LEMMA BodyIsRun ==
  ASSUME rom \in Roms, list \in Seq(Row), NEW k \in DOMAIN list
  PROVE  IsRun(k, EmitLimit, Body(k))
<1> DEFINE f == CHOOSE g : Extends(g, k, EmitLimit)
<1>1. EmitLimit \in Nat /\ EmitLimit >= 1
  BY EmitAssumption
<1>2. Extends(f, k, EmitLimit)
  BY <1>1, ExtendsExists
<1>3. Body(k) = f[EmitLimit]
  BY DEF Body, Extends, Extended
<1>4. \A n \in 1..EmitLimit : f[n] = Extended(k, n, f[n - 1])
  BY <1>1, <1>2 DEF Extends
<1>5. list[k].addr \in Nat
  <2>1. list[k] \in Row
    OBVIOUS
  <2> QED BY <2>1, RegionAssumption DEF Row, Addrs
<1> HIDE DEF f
<1> DEFINE T == {n \in 1..EmitLimit : ~IsRun(k, n, f[n])}
<1>6. T = {}
  <2> SUFFICES ASSUME T # {} PROVE FALSE
    OBVIOUS
  <2>1. PICK n \in T : \A y \in T : n <= y
    <3>1. T \subseteq Nat
      BY <1>1
    <3> QED BY <3>1, LeastNat
  <2>2. n \in 1..EmitLimit /\ n \in Nat /\ ~IsRun(k, n, f[n])
    BY <1>1
  <2>3. CASE n = 1
    <3>1. f[1] = <<list[k].addr>>
      BY <2>2, <2>3, <1>4 DEF Extended
    <3>2. IsRun(k, 1, f[1])
      BY <3>1, <1>5 DEF IsRun
    <3> QED BY <2>2, <2>3, <3>2
  <2>4. CASE n # 1
    <3> DEFINE b == f[n - 1]
               i == InstrOf(k, b[Len(b)])
    <3>1. n - 1 \in 1..EmitLimit /\ n - 1 \notin T
      BY <1>1, <2>1, <2>2, <2>4
    <3>2. IsRun(k, n - 1, b)
      BY <3>1
    <3>0. b \in Seq(Nat) /\ Len(b) \in 1..(n - 1)
      BY <3>2, Zenon DEF IsRun
    <3>3. f[n] = IF Len(b) < n - 1 \/ i.op \in EndsBody
                 THEN b ELSE Append(b, b[Len(b)] + i.len)
      BY <1>4, <2>2, <2>4 DEF Extended
    <3> HIDE DEF b
    <3>4. b \in Seq(Nat) /\ Len(b) \in 1..(n - 1) /\ b[Len(b)] \in Nat
      <4>1. Len(b) \in 1..Len(b)
        BY <3>0, <2>2
      <4> QED BY <3>0, <4>1
    <3>5. CASE Len(b) < n - 1 \/ i.op \in EndsBody
      <4>1. f[n] = b
        BY <3>3, <3>5
      <4>2. IsRun(k, n, b)
        BY <3>2, <3>4, <3>5, <2>2 DEF IsRun
      <4> QED BY <4>1, <4>2, <2>2
    <3>6. CASE ~(Len(b) < n - 1 \/ i.op \in EndsBody)
      <4> DEFINE c == Append(b, b[Len(b)] + i.len)
      <4>1. f[n] = c
        BY <3>3, <3>6
      <4>2. i.len \in Nat
        BY <3>4, <3>6, RunsOn
      <4>3. c \in Seq(Nat) /\ Len(c) = Len(b) + 1 /\ Len(b) = n - 1
        BY <3>4, <3>6, <4>2, <2>2
      <4>4. \A j \in 1..Len(b) : c[j] = b[j]
        BY <3>4, <4>2
      <4>5. c[Len(b) + 1] = b[Len(b)] + i.len
        BY <3>4, <4>2
      <4>6. ASSUME NEW j \in 1..(Len(c) - 1)
            PROVE  InstrOf(k, c[j]).op \notin EndsBody
                   /\ c[j + 1] = c[j] + InstrOf(k, c[j]).len
        <5>1. CASE j = Len(b)
          BY <5>1, <4>3, <4>4, <4>5, <3>4, <3>6
        <5>2. CASE j # Len(b)
          <6>1. j \in 1..(Len(b) - 1) /\ j + 1 \in 1..Len(b) /\ j \in 1..Len(b)
            BY <5>2, <4>3, <3>4
          <6> QED BY <6>1, <4>4, <3>2 DEF IsRun
        <5> QED BY <5>1, <5>2
      <4>7. c[1] = list[k].addr
        BY <4>4, <3>4, <3>2 DEF IsRun
      <4> HIDE DEF c
      <4>8. IsRun(k, n, c)
        BY <4>3, <4>6, <4>7, <2>2 DEF IsRun
      <4> QED BY <4>1, <4>8, <2>2
    <3> QED BY <3>5, <3>6
  <2> QED BY <2>3, <2>4
<1>7. IsRun(k, EmitLimit, f[EmitLimit])
  BY <1>1, <1>6
<1> QED BY <1>3, <1>7

-----------------------------------------------------------------------------
(* Types.                                                                  *)

StackWord == {None} \cup ({"pc", "sr"} \X Nat)

Cpu == [sr : Nat, a7 : Int, usp : Int, ssp : Int,
        mem : [1..(SuperTop - 1) -> StackWord]]

Places == [mode : {"off", "refused", "pending", "body", "host", "stopped", "miss"},
           fn : Nat, pc : Nat, last : Nat \cup {None}]

\* A body belongs to a candidate.
Placed(e) == e \in Places /\ (e.mode = "body" => e.fn \in DOMAIN list)

ExecType == Placed(exec) /\ m68k \in Cpu

LEMMA SetSrType ==
  ASSUME NEW c \in Cpu, NEW v \in Nat
  PROVE  ng_set_sr(c, v) \in Cpu
  BY DEF Cpu, ng_set_sr

LEMMA PushType ==
  ASSUME NEW c \in Cpu, NEW w \in StackWord
  PROVE  Pushed(c, w) \in Cpu
<1>1. c.mem \in [1..(SuperTop - 1) -> StackWord]
  BY DEF Cpu
<1>2. [a \in DOMAIN c.mem |-> IF a = c.a7 - 1 THEN w ELSE c.mem[a]]
         \in [1..(SuperTop - 1) -> StackWord]
  BY <1>1
<1>3. c.a7 - 1 \in Int
  BY DEF Cpu
<1> QED BY <1>2, <1>3 DEF Cpu, Pushed

LEMMA PopType ==
  ASSUME NEW c \in Cpu
  PROVE  Popped(c) \in Cpu
<1>1. c.mem \in [1..(SuperTop - 1) -> StackWord]
  BY DEF Cpu
<1>2. [c.mem EXCEPT ![c.a7] = None] \in [1..(SuperTop - 1) -> StackWord]
  BY <1>1 DEF StackWord
<1>3. c.a7 + 1 \in Int
  BY DEF Cpu
<1> QED BY <1>2, <1>3 DEF Cpu, Popped

LEMMA WordTypes ==
  ASSUME NEW n \in Nat
  PROVE  PcWord(n) \in StackWord /\ SrWord(n) \in StackWord
  BY DEF PcWord, SrWord, StackWord

LEMMA FrameType ==
  ASSUME NEW c \in Cpu, NEW a \in Nat
  PROVE  ng_push_exception_frame(c, a) \in Cpu
<1>1. c.sr \in Nat /\ Handling \in Nat
  BY DEF Cpu, Handling
<1> QED BY <1>1, SetSrType, PushType, WordTypes DEF ng_push_exception_frame

LEMMA TopType ==
  ASSUME NEW c \in Cpu, NEW kind, IsTop(c, kind)
  PROVE  /\ c.a7 \in 1..(SuperTop - 1) /\ c.mem[c.a7][2] \in Nat
         /\ c.mem[c.a7] = <<kind, c.mem[c.a7][2]>>
<1>1. c.mem \in [1..(SuperTop - 1) -> StackWord]
  BY DEF Cpu
<1>2. c.a7 \in 1..(SuperTop - 1) /\ c.mem[c.a7] \in StackWord \ {None}
  BY <1>1 DEF IsTop
<1>3. c.mem[c.a7] \in {"pc", "sr"} \X Nat
  BY <1>2 DEF StackWord
<1> QED BY <1>2, <1>3 DEF IsTop

\* The two words an RTE takes.
LEMMA FrameTop ==
  ASSUME NEW c \in Cpu, IsTop(c, "sr"), IsTop(Popped(c), "pc")
  PROVE  /\ c.a7 \in 1..(SuperTop - 1) /\ c.a7 + 1 \in 1..(SuperTop - 1)
         /\ c.mem[c.a7] = SrWord(c.mem[c.a7][2]) /\ c.mem[c.a7][2] \in Nat
         /\ c.mem[c.a7 + 1] = PcWord(c.mem[c.a7 + 1][2]) /\ c.mem[c.a7 + 1][2] \in Nat
         /\ Popped(c).a7 = c.a7 + 1 /\ Popped(c).mem[c.a7 + 1] = c.mem[c.a7 + 1]
<1>1. c.mem \in [1..(SuperTop - 1) -> StackWord] /\ c.a7 \in Int
  BY DEF Cpu
<1>2. Popped(c).a7 = c.a7 + 1
  BY DEF Popped, Cpu
<1>3. Popped(c).mem = [c.mem EXCEPT ![c.a7] = None]
  BY DEF Popped, Cpu
<1>4. /\ Popped(c).a7 \in 1..(SuperTop - 1) /\ Popped(c).mem[Popped(c).a7][2] \in Nat
      /\ Popped(c).mem[Popped(c).a7] = <<"pc", Popped(c).mem[Popped(c).a7][2]>>
  BY PopType, TopType
<1>5. Popped(c).mem[c.a7 + 1] = c.mem[c.a7 + 1]
  BY <1>1, <1>2, <1>3, <1>4
<1> QED BY <1>2, <1>4, <1>5, TopType DEF PcWord, SrWord

LEMMA ComputedType ==
  ASSUME NEW i, i.table \in Seq(Nat), i.pointers \in Seq([Banks -> Nat]), NEW v \in Banks
  PROVE  ComputedTargets(i, v) \subseteq Nat
<1>1. TableOf(i) \subseteq Nat
  BY DEF TableOf
<1>2. Pointed(i, v) \subseteq Nat
  <2>1. \A k \in DOMAIN i.pointers : i.pointers[k] \in [Banks -> Nat]
    OBVIOUS
  <2> QED BY <2>1 DEF Pointed
<1> QED BY <1>1, <1>2 DEF ComputedTargets

\* The instruction a body is at.
LEMMA ThisType ==
  ASSUME TypeInv, ExecType, exec.mode = "body", This.op # "bad"
  PROVE  /\ RowView(exec.fn) \in Banks /\ exec.fn \in DOMAIN list
         /\ This = Code(rom, RowView(exec.fn), exec.pc)
         /\ Probable(rom, RowView(exec.fn), exec.pc)
         /\ This.op \in Ops /\ This.len \in Nat \ {0} /\ This.target \in Nat
         /\ ComputedTargets(This, rom.active) \subseteq Nat /\ exec.pc \in Addrs
         /\ After \in Nat
<1>1. exec.fn \in DOMAIN list /\ exec.pc \in Nat /\ list[exec.fn] \in Row
      /\ rom \in Roms
  BY DEF ExecType, Placed, Places, TypeInv
<1>2. RowView(exec.fn) \in Banks
  <2>1. list[exec.fn].bank \in Banks \cup {NoBank}
    BY <1>1 DEF Row
  <2> QED BY <1>1, <2>1, ViewType DEF RowView
<1>3. This = Code(rom, RowView(exec.fn), exec.pc)
  BY DEF This, InstrOf, RowView
<1>4. Probable(rom, RowView(exec.fn), exec.pc)
  BY <1>3 DEF Probable
<1>5. After = exec.pc + This.len
  BY DEF After
<1>6. /\ This.table \in Seq(Nat) /\ This.pointers \in Seq([Banks -> Nat])
      /\ rom.active \in Banks
  BY <1>1, <1>2, <1>3, <1>4, CodeType, RomAssumption DEF WellFormed
<1>7. ComputedTargets(This, rom.active) \subseteq Nat
  BY <1>6, ComputedType
<1> QED BY <1>1, <1>2, <1>3, <1>4, <1>5, <1>7, CodeType

\* Where control runs on to, or branches.
LEMMA RunOnPlaced ==
  ASSUME TypeInv, ExecType, exec.mode = "body", NEW a \in Nat
  PROVE  Placed(RunOn(a)) /\ Placed(Branch(a))
<1>1. exec \in Places /\ exec.fn \in DOMAIN list /\ exec.pc \in Nat
      /\ rom \in Roms /\ list \in Seq(Row)
  BY DEF ExecType, Placed, Places, TypeInv
<1>2. ASSUME NEW m \in {"body", "pending", "miss"}, NEW b \in Nat
      PROVE  Placed(To(m, b, exec.pc))
  BY <1>1 DEF Placed, Places, To, State
<1> DEFINE labels == MissingLabels(exec.fn)
           First(n) == \A m \in labels : n <= m
           p == CHOOSE n \in labels : First(n)
           branch == InstrOf(exec.fn, Body(exec.fn)[p])
<1>3. Body(exec.fn) \in Seq(Nat)
  BY <1>1, BodyIsRun DEF IsRun
<1>4. labels # {} => branch.target \in Nat
  <2> SUFFICES ASSUME labels # {} PROVE branch.target \in Nat
    OBVIOUS
  <2>1. labels \subseteq DOMAIN Body(exec.fn) /\ DOMAIN Body(exec.fn) \subseteq Nat
    BY <1>3 DEF MissingLabels
  <2>2. \E n \in labels : First(n)
    BY <2>1, LeastNat
  <2>3. p \in labels
    BY <2>2
  <2>4. p \in DOMAIN Body(exec.fn) /\ branch.op \in {"cond", "bra"}
    BY <2>3 DEF MissingLabels
  <2>5. Body(exec.fn)[p] \in Nat
    BY <2>4, <1>3
  <2>6. RowView(exec.fn) \in Banks
    <3>1. list[exec.fn] \in Row
      BY <1>1
    <3>2. list[exec.fn].bank \in Banks \cup {NoBank}
      BY <3>1 DEF Row
    <3> QED BY <1>1, <3>2, ViewType DEF RowView
  <2>7. branch = Code(rom, RowView(exec.fn), Body(exec.fn)[p])
    BY DEF InstrOf, RowView
  <2> HIDE DEF p, branch
  <2>8. Probable(rom, RowView(exec.fn), Body(exec.fn)[p])
    BY <2>4, <2>7 DEF Probable
  <2> QED BY <1>1, <2>6, <2>7, <2>8, CodeType
<1>5. RunOn(a) = IF InBody(exec.fn, a) THEN To("body", a, exec.pc)
                 ELSE IF labels # {} THEN To("pending", branch.target, exec.pc)
                 ELSE To("miss", a, exec.pc)
  BY DEF RunOn
<1> HIDE DEF labels, branch
<1>6. Placed(RunOn(a))
  BY <1>2, <1>4, <1>5
<1>7. Placed(Branch(a))
  BY <1>2 DEF Branch
<1> QED BY <1>6, <1>7

\* What the end of an instruction leaves is of the type of its outcomes.
LEMMA RetireType ==
  ASSUME TypeInv, ExecType, NEW c \in Cpu, NEW a \in Nat, NEW e, Placed(e),
         Retire(c, a, e), UNCHANGED discoveryVars
  PROVE  ExecType'
<1>1. rom.vector["trace"] \in Nat
  BY VectorAssumption DEF TypeInv, Causes
<1>2. exec \in Places /\ list' = list
  BY DEF ExecType, Placed, discoveryVars
<1>3. CASE Tracing(m68k.sr)
  <2>1. m68k' \in Cpu
    BY <1>3, FrameType DEF Retire
  <2>2. exec' = To("pending", rom.vector["trace"], exec.pc)
    BY <1>3 DEF Retire, Goto
  <2>3. Placed(exec)'
    BY <1>1, <1>2, <2>2 DEF Placed, Places, To, State
  <2> QED BY <2>1, <2>3 DEF ExecType
<1>4. CASE ~Tracing(m68k.sr)
  <2>1. m68k' = c /\ exec' = e
    BY <1>4 DEF Retire
  <2>2. Placed(exec)'
    BY <1>2, <2>1 DEF Placed
  <2> QED BY <2>1, <2>2 DEF ExecType
<1> QED BY <1>3, <1>4

\* The addresses the ROM's vectors hold.
LEMMA EntryType ==
  ASSUME rom \in Roms
  PROVE  /\ rom.seeds[1].addr \in Nat /\ rom.seeds[1].view \in Banks
         /\ 1 \in DOMAIN rom.seeds
         /\ \A cause \in Causes : rom.vector[cause] \in Nat
<1>1. rom.seeds \in Seq([view : Banks, addr : Nat]) /\ rom.seeds # <<>>
  BY RomAssumption, VectorAssumption
<1>2. ASSUME NEW S, NEW s \in Seq(S), s # <<>> PROVE s[1] \in S /\ 1 \in DOMAIN s
  BY <1>2
<1>3. rom.seeds[1] \in [view : Banks, addr : Nat] /\ 1 \in DOMAIN rom.seeds
  BY <1>1, <1>2
<1> QED BY <1>3, VectorAssumption

\* An execution step that names its own place and processor.
LEMMA GotoType ==
  ASSUME ExecType, NEW m, m \in {"refused", "pending", "host", "miss"}, NEW a \in Nat,
         NEW l \in Nat \cup {None}, Goto(m, a, l), m68k' \in Cpu,
         UNCHANGED discoveryVars
  PROVE  ExecType'
<1>1. exec \in Places /\ list' = list
  BY DEF ExecType, Placed, discoveryVars
<1>2. exec' = To(m, a, l)
  BY DEF Goto
<1> QED BY <1>1, <1>2 DEF ExecType, Placed, Places, To, State

LEMMA ExecTypeStep ==
  ASSUME TypeInv, ExecType, ExecNext
  PROVE  ExecType'
<1>1. /\ exec \in Places /\ exec.pc \in Nat /\ exec.last \in Nat \cup {None}
      /\ m68k \in Cpu /\ m68k.sr \in Nat /\ rom \in Roms /\ list \in Seq(Row)
  BY DEF ExecType, Placed, Places, TypeInv, Cpu
<1>2. /\ rom.seeds[1].addr \in Nat
      /\ \A cause \in Causes : rom.vector[cause] \in Nat
  BY <1>1, EntryType
<1>3. UNCHANGED discoveryVars
  BY DEF ExecNext
<1>4. CASE Emit \/ DispatchMiss \/ BudgetStop \/ YieldToHost \/ HostResumes \/ StopReturns
  <2>1. m68k' \in Cpu
    BY <1>1, <1>4 DEF Emit, DispatchMiss, BudgetStop, YieldToHost, HostResumes, StopReturns
  <2>2. \E m \in {"refused", "pending", "host", "miss"}, l \in Nat \cup {None} :
           Goto(m, exec.pc, l)
    BY <1>1, <1>4 DEF Emit, DispatchMiss, BudgetStop, YieldToHost, HostResumes, StopReturns
  <2> QED BY <1>1, <1>3, <2>1, <2>2, GotoType
<1>5. CASE Dispatch
  <2>1. PICK k \in Cases(exec.pc) : exec' = State("body", k, exec.pc, None)
    BY <1>5 DEF Dispatch
  <2>2. k \in DOMAIN list /\ k \in Nat
    BY <1>1 DEF Cases
  <2>3. m68k' = m68k /\ list' = list
    BY <1>3, <1>5 DEF Dispatch, discoveryVars
  <2> QED BY <1>1, <2>1, <2>2, <2>3 DEF ExecType, Placed, Places, State
<1>6. CASE TakeInterrupt
  <2>1. m68k' \in Cpu /\ Goto("pending", rom.vector["interrupt"], None)
    BY <1>1, <1>6, FrameType DEF TakeInterrupt
  <2> QED BY <1>2, <1>3, <2>1, GotoType DEF Causes
<1>7. CASE ServiceReset
  <2> DEFINE cleared == [a \in DOMAIN m68k.mem |->
                            IF a < UserTop THEN m68k.mem[a] ELSE None]
  <2>1. m68k' = [m68k EXCEPT !.sr = Handling, !.ssp = SuperTop, !.a7 = SuperTop,
                             !.mem = cleared]
    BY <1>7 DEF ServiceReset
  <2>2. m68k.mem \in [1..(SuperTop - 1) -> StackWord]
    BY <1>1 DEF Cpu
  <2>3. cleared \in [1..(SuperTop - 1) -> StackWord]
    BY <2>2 DEF StackWord
  <2>4. Handling \in Nat /\ SuperTop \in Int
    BY EmitAssumption DEF Handling, SuperTop
  <2> HIDE DEF cleared
  <2>5. m68k' \in Cpu
    BY <1>1, <2>1, <2>3, <2>4 DEF Cpu
  <2> QED BY <1>2, <1>3, <1>7, <2>5, GotoType DEF ServiceReset
<1>8. ASSUME NEW ops, Executing(ops), "bad" \notin ops
      PROVE  /\ exec.mode = "body" /\ This.op \in ops
             /\ This.target \in Nat /\ After \in Nat
             /\ ComputedTargets(This, rom.active) \subseteq Nat
  BY <1>8, ThisType DEF Executing, This
<1>9. ASSUME NEW c \in Cpu, NEW a \in Nat, DispatchTo(c, a)
      PROVE  ExecType'
  <2>1. Placed(To("pending", a, exec.pc))
    BY <1>1, <1>9 DEF Placed, Places, To, State
  <2> QED BY <1>3, <1>9, <2>1, RetireType DEF DispatchTo
<1>10. CASE Plain
  <2>1. exec.mode = "body" /\ After \in Nat
    BY <1>8, <1>10 DEF Plain
  <2>2. Placed(RunOn(After))
    BY <2>1, RunOnPlaced
  <2> QED BY <1>1, <1>3, <1>10, <2>1, <2>2, RetireType DEF Plain
<1>11. CASE TakeBranch
  <2>1. exec.mode = "body" /\ This.target \in Nat
    BY <1>8, <1>11 DEF TakeBranch
  <2>2. Placed(Branch(This.target))
    BY <2>1, RunOnPlaced
  <2> QED BY <1>1, <1>3, <1>11, <2>1, <2>2, RetireType DEF TakeBranch
<1>12. CASE Jump
  <2>1. This.target \in Nat /\ ComputedTargets(This, rom.active) \subseteq Nat
    BY <1>8, <1>12 DEF Jump
  <2>2. PICK t \in (IF This.op = "jmp" THEN {This.target}
                    ELSE ComputedTargets(This, rom.active)) :
           DispatchTo(m68k, t)
    BY <1>12 DEF Jump
  <2>3. t \in Nat
    BY <2>1, <2>2
  <2> QED BY <1>1, <1>9, <2>2, <2>3
<1>13. CASE Call
  <2>1. This.target \in Nat /\ ComputedTargets(This, rom.active) \subseteq Nat /\ After \in Nat
    BY <1>8, <1>13 DEF Call
  <2>2. PICK t \in (IF This.op = "call" THEN {This.target}
                    ELSE ComputedTargets(This, rom.active)) :
           DispatchTo(Pushed(m68k, PcWord(After)), t)
    BY <1>13 DEF Call
  <2>3. t \in Nat
    BY <2>1, <2>2
  <2>4. Pushed(m68k, PcWord(After)) \in Cpu
    BY <1>1, <2>1, WordTypes, PushType
  <2> QED BY <1>9, <2>2, <2>3, <2>4
<1>14. CASE Return
  BY <1>1, <1>9, <1>14, TopType, PopType DEF Return
<1>15. CASE Trap
  <2>1. After \in Nat
    BY <1>8, <1>15 DEF Trap
  <2> QED BY <1>1, <1>2, <1>9, <1>15, <2>1, FrameType DEF Trap, Causes
<1>16. CASE Illegal
  <2>1. After \in Nat
    BY <1>8, <1>16 DEF Illegal
  <2> QED BY <1>1, <1>2, <1>3, <1>16, <2>1, FrameType, GotoType DEF Illegal, Causes
<1>17. CASE PrivilegeViolation
  BY <1>1, <1>2, <1>3, <1>17, FrameType, GotoType DEF PrivilegeViolation, Causes
<1>18. CASE ToSr
  <2>1. exec.mode = "body" /\ After \in Nat /\ This.target \in Nat
    BY <1>8, <1>18 DEF ToSr
  <2>2. Placed(RunOn(After)) /\ ng_set_sr(m68k, This.target) \in Cpu
    BY <1>1, <2>1, RunOnPlaced, SetSrType
  <2> QED BY <1>3, <1>18, <2>1, <2>2, RetireType DEF ToSr
<1>19. CASE ReturnFromException
  <2> DEFINE sr == m68k.mem[m68k.a7][2]
             pc == m68k.mem[m68k.a7 + 1][2]
  <2>1. sr \in Nat /\ pc \in Nat
    BY <1>1, <1>19, FrameTop DEF ReturnFromException
  <2>2. DispatchTo(ng_set_sr(Popped(Popped(m68k)), sr), pc)
    BY <1>19 DEF ReturnFromException
  <2>3. ng_set_sr(Popped(Popped(m68k)), sr) \in Cpu
    BY <1>1, <2>1, PopType, SetSrType
  <2> QED BY <1>9, <2>1, <2>2, <2>3
<1>20. CASE Stop
  <2>1. exec.mode = "body" /\ After \in Nat /\ This.target \in Nat
    BY <1>8, <1>20 DEF Stop
  <2>2. ng_set_sr(m68k, This.target) \in Cpu
    BY <1>1, <2>1, SetSrType
  <2>3. Placed(To("stopped", After, exec.pc))
    BY <1>1, <2>1 DEF Placed, Places, To, State
  <2> QED BY <1>3, <1>20, <2>1, <2>2, <2>3, RetireType DEF Stop
<1> QED BY <1>4, <1>5, <1>6, <1>7, <1>10, <1>11, <1>12, <1>13, <1>14, <1>15,
           <1>16, <1>17, <1>18, <1>19, <1>20 DEF ExecNext

LEMMA ExecTypeInit ==
  ASSUME ProgramInit
  PROVE  ExecType
<1>1. rom \in Roms
  BY DEF ProgramInit, Init
<1>2. rom.seeds[1].addr \in Nat
  BY <1>1, EntryType
<1>3. UserTop \in Int /\ SuperTop \in Int /\ Handling \in Nat
  BY EmitAssumption DEF UserTop, SuperTop, Handling
<1>4. [a \in 1..(SuperTop - 1) |-> None] \in [1..(SuperTop - 1) -> StackWord]
  BY DEF StackWord
<1>5. m68k \in Cpu
  BY <1>3, <1>4 DEF ProgramInit, Cpu
<1> QED BY <1>2, <1>5 DEF ProgramInit, ExecType, Placed, Places, State

\* Discovery goes its own way; no row of its list ever leaves it.
LEMMA DiscoveryKeepsExecType ==
  ASSUME TypeInv, ExecType, [DiscoveryNext]_discoveryVars, UNCHANGED execVars
  PROVE  ExecType'
<1>1. DOMAIN list \subseteq DOMAIN list'
  <2>1. CASE AddNext
    BY <2>1, ListGrows
  <2>2. CASE ~AddNext
    BY <2>2, ListKept
  <2> QED BY <2>1, <2>2
<1>2. exec' = exec /\ m68k' = m68k
  BY DEF execVars
<1> QED BY <1>1, <1>2 DEF ExecType, Placed

LEMMA ProgramTypes == ProgramSpec => []DiscoveryInv /\ []ExecType
<1>1. ProgramInit => DiscoveryInv /\ ExecType
  BY DiscoveryInit, ExecTypeInit DEF ProgramInit
<1>2. DiscoveryInv /\ ExecType /\ [ProgramNext]_vars => DiscoveryInv' /\ ExecType'
  <2> SUFFICES ASSUME DiscoveryInv, ExecType, [ProgramNext]_vars
               PROVE  DiscoveryInv' /\ ExecType'
    OBVIOUS
  <2>1. [DiscoveryNext]_discoveryVars
    BY DEF ProgramNext, ExecNext, vars
  <2>2. TypeInv
    BY DEF DiscoveryInv
  <2>3. CASE ExecNext
    BY <2>1, <2>2, <2>3, DiscoveryStep, ExecTypeStep
  <2>4. CASE ~ExecNext
    <3>1. UNCHANGED execVars
      BY <2>4 DEF ProgramNext, vars
    <3> QED BY <2>1, <2>2, <3>1, DiscoveryStep, DiscoveryKeepsExecType
  <2> QED BY <2>3, <2>4
<1> QED BY <1>1, <1>2, PTL DEF ProgramSpec

-----------------------------------------------------------------------------
(* The sharded dispatch table.                                             *)

\* The candidates that have a case of their own.
Firsts == UNION {Cases(list[j].addr) : j \in DOMAIN list}

Route(k) == [addr |-> list[k].addr, shard |-> (k - 1) \div PerShard]

\* No address has two cases.
LEMMA OneCase ==
  ASSUME list \in Seq(Row), NEW a, NEW j \in Cases(a), NEW k \in Cases(a)
  PROVE  j = k
<1>1. j \in Nat /\ k \in Nat /\ j >= 1 /\ k >= 1
      /\ list[j].addr = a /\ list[k].addr = a
  BY DEF Cases
<1>2. ~(j < k) /\ ~(k < j)
  BY <1>1 DEF Cases
<1> QED BY <1>1, <1>2

LEMMA RoutesOfFirsts ==
  ASSUME list \in Seq(Row)
  PROVE  /\ RouteSet = {Route(k) : k \in Firsts}
         /\ Firsts \subseteq DOMAIN list
         /\ \A k \in Firsts : k \in Cases(list[k].addr) /\ list[k].addr \in Nat
         /\ IsFiniteSet(RouteSet)
<1>1. RouteSet = {Route(k) : k \in Firsts}
  BY DEF RouteSet, Route, Firsts
<1>2. Firsts \subseteq DOMAIN list
  BY DEF Firsts, Cases
<1>3. \A k \in Firsts : k \in Cases(list[k].addr)
  BY DEF Firsts, Cases
<1>4. \A k \in DOMAIN list : list[k].addr \in Nat
  <2>1. \A k \in DOMAIN list : list[k] \in Row
    OBVIOUS
  <2> QED BY <2>1, RegionAssumption DEF Row, Addrs
<1>5. IsFiniteSet(Firsts)
  <2>1. DOMAIN list = 1..Len(list) /\ Len(list) \in Nat
    OBVIOUS
  <2>2. IsFiniteSet(1..Len(list))
    BY <2>1, FS_Interval
  <2> QED BY <1>2, <2>1, <2>2, FS_Subset
<1>6. IsFiniteSet({Route(k) : k \in Firsts})
  <2> DEFINE f == [k \in Firsts |-> Route(k)]
  <2>1. f \in Surjection(Firsts, {Route(k) : k \in Firsts})
    BY DEF Surjection
  <2> QED BY <1>5, <2>1, FS_Surjection
<1> QED BY <1>1, <1>2, <1>3, <1>4, <1>6

\* The table holds every route once, in the order of their addresses.
LEMMA RoutesSorted ==
  ASSUME list \in Seq(Row)
  PROVE  /\ Routes \in Seq(RouteSet)
         /\ \A m \in DOMAIN Routes : Routes[m].addr \in Nat
         /\ \A m, n \in DOMAIN Routes : m < n => Routes[m].addr < Routes[n].addr
         /\ \A r \in RouteSet : \E m \in DOMAIN Routes : Routes[m] = r
<1> DEFINE S == RouteSet
           N == Cardinality(S)
           Upto(r) == {q \in S : q.addr <= r.addr}
           Place(r) == Cardinality(Upto(r))
<1>1. Routes = [n \in 1..N |-> CHOOSE r \in S : Place(r) = n]
  BY DEF Routes
<1>2. IsFiniteSet(S)
  BY RoutesOfFirsts
<1>3. \A r \in S : r.addr \in Nat
  BY RoutesOfFirsts DEF Route
<1>4. \A q, r \in S : q.addr = r.addr => q = r
  <2> SUFFICES ASSUME NEW q \in S, NEW r \in S, q.addr = r.addr PROVE q = r
    OBVIOUS
  <2>1. PICK j \in Firsts : q = Route(j)
    BY RoutesOfFirsts
  <2>2. PICK k \in Firsts : r = Route(k)
    BY RoutesOfFirsts
  <2>3. list[j].addr = list[k].addr
    BY <2>1, <2>2 DEF Route
  <2>4. j = k
    BY <2>3, RoutesOfFirsts, OneCase
  <2> QED BY <2>1, <2>2, <2>4
<1> HIDE DEF S, N, Upto, Place
<1>5. N \in Nat
  BY <1>2, FS_CardinalityType DEF N
<1>6. \A r \in S : IsFiniteSet(Upto(r)) /\ Place(r) \in Nat /\ Place(r) <= N
  <2> SUFFICES ASSUME NEW r \in S
               PROVE  IsFiniteSet(Upto(r)) /\ Place(r) \in Nat /\ Place(r) <= N
    OBVIOUS
  <2>1. Upto(r) \in SUBSET S
    BY DEF Upto
  <2>2. IsFiniteSet(Upto(r)) /\ Cardinality(Upto(r)) <= Cardinality(S)
    BY <1>2, <2>1, FS_Subset
  <2> QED BY <2>2, FS_CardinalityType DEF N, Place
<1>7. \A q, r \in S : q.addr < r.addr => Place(q) < Place(r)
  <2> SUFFICES ASSUME NEW q \in S, NEW r \in S, q.addr < r.addr
               PROVE  Place(q) < Place(r)
    OBVIOUS
  <2>1. Upto(q) \subseteq Upto(r) /\ r \in Upto(r) /\ r \notin Upto(q)
    BY <1>3 DEF Upto
  <2>2. Place(q) <= Place(r) /\ Place(q) # Place(r)
    <3>1. Upto(q) \in SUBSET Upto(r) /\ Upto(q) # Upto(r)
      BY <2>1
    <3>2. /\ Cardinality(Upto(q)) <= Cardinality(Upto(r))
          /\ Cardinality(Upto(r)) = Cardinality(Upto(q)) => Upto(r) = Upto(q)
      BY <1>6, <3>1, FS_Subset
    <3> QED BY <3>1, <3>2 DEF Place
  <2> QED BY <1>6, <2>2
<1>8. \A r \in S : Place(r) >= 1
  <2> SUFFICES ASSUME NEW r \in S PROVE Place(r) # 0
    BY <1>6
  <2>1. r \in Upto(r)
    BY <1>3 DEF Upto
  <2>2. IsFiniteSet(Upto(r)) /\ (Cardinality(Upto(r)) = 0 <=> Upto(r) = {})
    BY <1>6, FS_EmptySet
  <2> QED BY <2>1, <2>2 DEF Place
<1> DEFINE place == [r \in S |-> Place(r)]
<1>9. place \in Injection(S, 1..N)
  <2>1. \A r \in S : place[r] = Place(r) /\ place[r] \in 1..N
    BY <1>5, <1>6, <1>8
  <2>2. \A q, r \in S : place[q] = place[r] => q = r
    <3> SUFFICES ASSUME NEW q \in S, NEW r \in S, place[q] = place[r] PROVE q = r
      OBVIOUS
    <3>1. Place(q) = Place(r) /\ Place(q) \in Nat
      BY <2>1, <1>6
    <3>2. ~(q.addr < r.addr) /\ ~(r.addr < q.addr)
      BY <3>1, <1>7
    <3> QED BY <3>2, <1>3, <1>4
  <2>3. place \in [S -> 1..N]
    BY <2>1
  <2> HIDE DEF place
  <2> QED BY <2>2, <2>3 DEF Injection, IsInjective
<1>10. place \in Surjection(S, 1..N)
  <2>1. IsFiniteSet(1..N) /\ Cardinality(1..N) = N
    BY <1>5, FS_Interval
  <2> HIDE DEF place
  <2> QED BY <1>9, <2>1, FS_Injection DEF N
<1>11. \A n \in 1..N : Routes[n] \in S /\ Place(Routes[n]) = n
  <2> SUFFICES ASSUME NEW n \in 1..N PROVE Routes[n] \in S /\ Place(Routes[n]) = n
    OBVIOUS
  <2>1. \E r \in S : Place(r) = n
    BY <1>10 DEF Surjection
  <2>2. Routes[n] = CHOOSE r \in S : Place(r) = n
    BY <1>1
  <2> QED BY <2>1, <2>2
<1>12. Routes \in Seq(S) /\ DOMAIN Routes = 1..N
  <2>1. Routes = [n \in 1..N |-> Routes[n]]
    BY <1>1
  <2> QED BY <1>5, <1>11, <2>1
<1>13. ASSUME NEW m \in 1..N, NEW n \in 1..N, m < n
       PROVE  Routes[m].addr < Routes[n].addr
  <2>1. Routes[m] \in S /\ Routes[n] \in S /\ Place(Routes[m]) = m /\ Place(Routes[n]) = n
    BY <1>11
  <2>2. Routes[m] # Routes[n]
    BY <1>13, <2>1, <1>5
  <2>3. Routes[m].addr # Routes[n].addr /\ ~(Routes[n].addr < Routes[m].addr)
    BY <1>13, <2>1, <2>2, <1>4, <1>5, <1>7
  <2> QED BY <2>1, <2>3, <1>3
<1>14. ASSUME NEW r \in S PROVE \E m \in 1..N : Routes[m] = r
  <2>1. Place(r) \in 1..N
    BY <1>5, <1>6, <1>8
  <2>2. Routes[Place(r)] \in S /\ Place(Routes[Place(r)]) = Place(r)
    BY <2>1, <1>11
  <2>3. Routes[Place(r)] = r
    <3>1. place[Routes[Place(r)]] = place[r]
      BY <2>2
    <3> HIDE DEF place
    <3> QED BY <3>1, <2>2, <1>9 DEF Injection, IsInjective
  <2> QED BY <2>1, <2>3
<1> QED BY <1>3, <1>11, <1>12, <1>13, <1>14 DEF S

\* The binary search ends at the first route that is not below the address.
LEMMA SearchFinds ==
  ASSUME NEW routes, NEW S, routes \in Seq(S), NEW addr \in Nat,
         \A m \in DOMAIN routes : routes[m].addr \in Nat,
         \A m, n \in DOMAIN routes : m < n => routes[m].addr < routes[n].addr
  PROVE  LET lo == Search(routes, addr)
         IN  /\ lo \in 0..Len(routes)
             /\ \A n \in 1..Len(routes) : routes[n].addr < addr <=> n <= lo
<1> DEFINE N == Len(routes)
           D == (0..N) \X (0..N)
           Mid(b) == b[1] + (b[2] - b[1]) \div 2
           Half(f, b) == IF b[1] >= b[2] THEN b[1]
                         ELSE IF routes[Mid(b) + 1].addr < addr
                              THEN f[<<Mid(b) + 1, b[2]>>] ELSE f[<<b[1], Mid(b)>>]
           Recursion(f) == f = [b \in D |-> Half(f, b)]
           Lower == CHOOSE f : Recursion(f)
<1>1. N \in Nat /\ DOMAIN routes = 1..N
  OBVIOUS
<1>2. Search(routes, addr) = Lower[<<0, N>>]
  BY DEF Search
<1> HIDE DEF N, Lower
<1>0. /\ \A m \in 1..N : routes[m].addr \in Nat
      /\ \A m, n \in 1..N : m < n => routes[m].addr < routes[n].addr
  BY <1>1
<1>3. PICK p \in 0..N : \A n \in 1..N : routes[n].addr < addr <=> n <= p
  <2> DEFINE T == {n \in 0..N : n = N \/ addr <= routes[n + 1].addr}
  <2>1. N \in T /\ T \subseteq Nat
    BY <1>1
  <2>2. PICK p \in T : \A y \in T : p <= y
    BY <2>1, LeastNat
  <2>3. p \in 0..N /\ p \in Nat
    BY <1>1
  <2>4. ASSUME NEW n \in 1..N PROVE routes[n].addr < addr <=> n <= p
    <3>1. CASE n <= p
      <4>1. n - 1 \in 0..N /\ n - 1 # N /\ n - 1 < p
        BY <2>3, <3>1, <1>1
      <4>3. n - 1 \notin T
        <5> HIDE DEF T
        <5> QED BY <2>2, <2>3, <4>1, <1>1
      <4>2. ~(addr <= routes[n].addr)
        BY <4>1, <4>3, <1>1
      <4> QED BY <3>1, <4>2, <1>0
    <3>2. CASE n > p
      <4>1. p # N /\ addr <= routes[p + 1].addr /\ p + 1 \in 1..N
        BY <2>2, <2>3, <3>2, <1>1
      <4>2. p + 1 = n \/ routes[p + 1].addr < routes[n].addr
        BY <4>1, <3>2, <2>3, <1>1
      <4> QED BY <4>1, <4>2, <3>2, <2>3, <1>1
    <3> QED BY <3>1, <3>2, <2>3
  <2> QED BY <2>3, <2>4
<1> DEFINE Clamp(b) == IF b[1] >= b[2] \/ p < b[1] THEN b[1]
                       ELSE IF p > b[2] THEN b[2] ELSE p
<1>4. ASSUME NEW b \in D, b[1] < b[2]
      PROVE  /\ Mid(b) \in 0..N /\ Mid(b) + 1 \in 1..N
             /\ b[1] <= Mid(b) /\ Mid(b) < b[2]
             /\ b[1] \in 0..N /\ b[2] \in 0..N
             /\ routes[Mid(b) + 1].addr < addr <=> Mid(b) < p
  <2>1. b[1] \in 0..N /\ b[2] \in 0..N
    OBVIOUS
  <2>2. b[1] <= Mid(b) /\ Mid(b) < b[2] /\ Mid(b) \in Int
    BY <2>1, <1>1, <1>4
  <2> HIDE DEF Mid
  <2>3. Mid(b) \in 0..N /\ Mid(b) + 1 \in 1..N
    BY <2>1, <2>2, <1>1
  <2> QED BY <2>1, <2>2, <2>3, <1>1, <1>3
<1>5. \E f : Recursion(f)
  <2> DEFINE g == [b \in D |-> Clamp(b)]
  <2>1. ASSUME NEW b \in D PROVE Clamp(b) = Half(g, b)
    <3>1. CASE b[1] >= b[2]
      BY <3>1
    <3>2. CASE ~(b[1] >= b[2])
      <4> DEFINE m == Mid(b)
      <4>1. /\ m \in 0..N /\ m + 1 \in 0..N /\ b[1] <= m /\ m < b[2]
            /\ b[1] \in 0..N /\ b[2] \in 0..N
            /\ routes[m + 1].addr < addr <=> m < p
        <5>1. b[1] \in 0..N /\ b[2] \in 0..N
          OBVIOUS
        <5>2. b[1] < b[2]
          BY <3>2, <5>1, <1>1
        <5>3. /\ Mid(b) \in 0..N /\ Mid(b) + 1 \in 1..N
              /\ b[1] <= Mid(b) /\ Mid(b) < b[2]
              /\ routes[Mid(b) + 1].addr < addr <=> Mid(b) < p
          BY <5>2, <1>4, Zenon
        <5>4. m + 1 \in 0..N
          <6> HIDE DEF Mid
          <6> QED BY <5>3, <1>1
        <5> HIDE DEF Mid
        <5> QED BY <5>1, <5>3, <5>4
      <4> HIDE DEF m
      <4>2. <<m + 1, b[2]>> \in D /\ <<b[1], m>> \in D
        BY <4>1
      <4>3. g[<<m + 1, b[2]>>] = Clamp(<<m + 1, b[2]>>) /\ g[<<b[1], m>>] = Clamp(<<b[1], m>>)
        BY <4>2
      <4>4. Half(g, b) = IF m < p THEN g[<<m + 1, b[2]>>] ELSE g[<<b[1], m>>]
        BY <3>2, <4>1 DEF m
      <4> HIDE DEF g
      <4>5. CASE m < p
        <5>1. Clamp(<<m + 1, b[2]>>) = Clamp(b)
          BY <3>2, <4>1, <4>5, <1>1
        <5> QED BY <4>3, <4>4, <4>5, <5>1
      <4>6. CASE ~(m < p)
        <5>1. Clamp(<<b[1], m>>) = Clamp(b)
          BY <3>2, <4>1, <4>6, <1>1
        <5> QED BY <4>3, <4>4, <4>6, <5>1
      <4> QED BY <4>5, <4>6
    <3> QED BY <3>1, <3>2
  <2>2. g = [b \in D |-> Half(g, b)]
    BY <2>1
  <2> QED BY <2>2
<1>6. Recursion(Lower)
  <2> HIDE DEF Recursion
  <2> QED BY <1>5 DEF Lower
<1>7. ASSUME NEW b \in D PROVE Lower[b] = Half(Lower, b)
  BY <1>6
<1> HIDE DEF Recursion
<1> DEFINE T == {d \in Nat : \E b \in D : d = b[2] - b[1] /\ Lower[b] # Clamp(b)}
<1>8. T = {}
  <2> SUFFICES ASSUME T # {} PROVE FALSE
    OBVIOUS
  <2>1. PICK d \in T : \A y \in T : d <= y
    BY LeastNat
  <2>2. PICK b \in D : d = b[2] - b[1] /\ Lower[b] # Clamp(b)
    OBVIOUS
  <2>3. b[1] \in 0..N /\ b[2] \in 0..N
    OBVIOUS
  <2>4. b[1] < b[2]
    <3>1. CASE b[1] >= b[2]
      BY <3>1, <1>7, <2>2
    <3> QED BY <3>1, <2>3, <1>1
  <2> DEFINE m == Mid(b)
  <2>5. /\ m \in 0..N /\ m + 1 \in 0..N /\ b[1] <= m /\ m < b[2]
        /\ routes[m + 1].addr < addr <=> m < p
    <3>1. /\ m \in 0..N /\ m + 1 \in 1..N /\ b[1] <= m /\ m < b[2]
          /\ routes[m + 1].addr < addr <=> m < p
      BY <2>4, <1>4
    <3> HIDE DEF m
    <3> QED BY <3>1
  <2>6. Lower[b] = IF m < p THEN Lower[<<m + 1, b[2]>>] ELSE Lower[<<b[1], m>>]
    <3>1. ~(b[1] >= b[2])
      BY <2>3, <2>4, <1>1
    <3> QED BY <3>1, <1>7, <2>5
  <2> HIDE DEF m
  <2>7. ASSUME NEW c \in D, c[2] - c[1] \in Nat, c[2] - c[1] < b[2] - b[1]
        PROVE  Lower[c] = Clamp(c)
    <3>1. c[2] - c[1] \notin T
      <4> HIDE DEF T
      <4> QED BY <2>1, <2>2, <2>3, <2>7, <1>1
    <3> QED BY <3>1, <2>7
  <2>8. <<m + 1, b[2]>> \in D /\ <<b[1], m>> \in D
    BY <2>3, <2>5
  <2>9. Lower[<<m + 1, b[2]>>] = Clamp(<<m + 1, b[2]>>)
    <3>1. b[2] - (m + 1) \in Nat /\ b[2] - (m + 1) < b[2] - b[1]
      BY <2>3, <2>5, <1>1, SMTT(60)
    <3> HIDE DEF Clamp
    <3> QED BY <3>1, <2>7, <2>8
  <2>10. Lower[<<b[1], m>>] = Clamp(<<b[1], m>>)
    <3>1. m - b[1] \in Nat /\ m - b[1] < b[2] - b[1]
      BY <2>3, <2>5, <1>1, SMTT(60)
    <3> HIDE DEF Clamp
    <3> QED BY <3>1, <2>7, <2>8
  <2>11. Lower[b] = Clamp(b)
    BY <2>3, <2>4, <2>5, <2>6, <2>9, <2>10, <1>1
  <2> QED BY <2>2, <2>11
<1>9. Lower[<<0, N>>] = p
  <2>1. <<0, N>> \in D /\ N - 0 \in Nat
    BY <1>1
  <2>2. N - 0 \notin T
    BY <1>8
  <2>3. Lower[<<0, N>>] = Clamp(<<0, N>>)
    <3> HIDE DEF Clamp
    <3> QED BY <2>1, <2>2
  <2> QED BY <2>3, <1>1
<1> QED BY <1>2, <1>3, <1>9 DEF N

\* Every address that has a case is routed to the shard that holds it.
LEMMA ShardsName ==
  ASSUME list \in Seq(Row), NEW addr \in Nat
  PROVE  ShardedCases(addr) = Cases(addr)
<1> DEFINE R == Routes
           lo == Search(R, addr)
<1>1. /\ R \in Seq(RouteSet) /\ \A m \in DOMAIN R : R[m].addr \in Nat
      /\ \A m, n \in DOMAIN R : m < n => R[m].addr < R[n].addr
      /\ \A r \in RouteSet : \E m \in DOMAIN R : R[m] = r
  BY RoutesSorted
<1>2. ShardedCases(addr) = IF lo < Len(R) /\ R[lo + 1].addr = addr
                           THEN ShardCases(R[lo + 1].shard, addr) ELSE {}
  BY DEF ShardedCases
<1> HIDE DEF R
<1>3. lo \in 0..Len(R) /\ \A n \in 1..Len(R) : R[n].addr < addr <=> n <= lo
  BY <1>1, SearchFinds
<1> HIDE DEF lo
<1>4. CASE Cases(addr) = {}
  BY <1>2, <1>4 DEF ShardCases
<1>5. CASE Cases(addr) # {}
  <2>1. PICK k \in Cases(addr) : TRUE
    BY <1>5
  <2>2. k \in DOMAIN list /\ list[k].addr = addr /\ k \in Firsts
    BY DEF Cases, Firsts
  <2>3. Route(k) \in RouteSet
    BY <2>2, RoutesOfFirsts
  <2>4. PICK m \in DOMAIN R : R[m] = Route(k)
    BY <1>1, <2>3
  <2>5. R[m].addr = addr /\ R[m].shard = (k - 1) \div PerShard
    BY <2>2, <2>4 DEF Route
  <2>6. m \in 1..Len(R) /\ Len(R) \in Nat
    BY <1>1
  <2>7. ~(m <= lo) /\ lo + 1 \in 1..Len(R)
    BY <1>3, <2>5, <2>6
  <2>8. ~(R[lo + 1].addr < addr)
    BY <1>3, <2>7
  <2>9. lo + 1 = m
    <3>1. lo + 1 <= m
      BY <1>3, <2>6, <2>7
    <3>2. ~(lo + 1 < m)
      BY <1>1, <2>5, <2>6, <2>7, <2>8
    <3> QED BY <1>3, <2>6, <3>1, <3>2
  <2>10. ShardedCases(addr) = ShardCases(R[m].shard, addr)
    BY <1>2, <1>3, <2>5, <2>6, <2>9
  <2>11. ShardCases(R[m].shard, addr) = Cases(addr)
    BY <2>5, OneCase DEF ShardCases
  <2> QED BY <2>10, <2>11
<1> QED BY <1>4, <1>5

\* Whatever the program, the capacity, the size of the shards and the limits,
\* the binary search over the sorted routes leads to the function that the
\* switch of the unsharded table names, and to none where it names none.
THEOREM ShardsNameTheSameFunctions == ProgramSpec => []ShardsAgree
<1>1. DiscoveryInv /\ ExecType => ShardsAgree
  <2> SUFFICES ASSUME DiscoveryInv, ExecType PROVE ShardsAgree
    OBVIOUS
  <2>1. list \in Seq(Row) /\ exec.pc \in Nat
    BY DEF DiscoveryInv, TypeInv, ExecType, Placed, Places
  <2> QED BY <2>1, ShardsName DEF ShardsAgree
<1> QED BY <1>1, ProgramTypes, PTL

-----------------------------------------------------------------------------
(* Programs that can be translated.  The generated code is a faithful copy *)
(* of the program only under conditions that nothing in the recompiler     *)
(* enforces; they are hypotheses here.                                     *)

\* The place is a candidate, in the bank the ROM was loaded with.
Enters(a) == Node(rom.active, a) \in Found

\* A table of a computed transfer names the place.
InSomeTable(a) ==
    \E n \in Found : LET i == Code(rom, rom.active, n[1])
                     IN  i.op \in {"ijmp", "icall"} /\ a \in ComputedTargets(i, rom.active)

\* No body is cut off at the limit; the case of an address that control can
\* be handed to is the candidate of the bank that is in; the vectors lead to
\* code, and so do static transfers and returns.
Translatable ==
    phase = "done" =>
        /\ \A k \in DOMAIN list :
              /\ InstrOf(k, Body(k)[Len(Body(k))]).op \in EndsBody
              /\ (Enters(list[k].addr) \/ InSomeTable(list[k].addr))
                    /\ k \in Cases(list[k].addr) => RowView(k) = rom.active
        /\ Enters(rom.seeds[1].addr) /\ \A cause \in Causes : Enters(rom.vector[cause])
        /\ \A n \in Found :
              LET i == Code(rom, rom.active, n[1])
              IN  RunsIn(n) = rom.active =>
                     \A a \in Next(i, n[1]) \cup JumpsTo(i) : Probable(rom, rom.active, a)

-----------------------------------------------------------------------------
(* Where the generated code can be, and what its stacks hold.              *)

\* A computed transfer, or the return to one that was traced, led to a.
Computed(last, a) ==
    /\ last # None /\ Code(rom, rom.active, last).op \in {"ijmp", "icall", "rte"}
    /\ InSomeTable(a)

PlaceInv(e) ==
    /\ e.mode = "body" =>
          /\ RowView(e.fn) = rom.active /\ InBody(e.fn, e.pc)
          /\ Enters(e.pc)
    /\ e.mode = "stopped" => Enters(e.pc)
    /\ e.mode \in {"pending", "host"} =>
          Enters(e.pc) \/ Computed(e.last, e.pc)
    /\ e.mode = "miss" => ~Enters(e.pc) /\ Computed(e.last, e.pc)

Carries(c, a, kind) == c.mem[a] # None /\ c.mem[a][1] = kind

\* An address on a stack is a candidate's, except in the frame of a traced
\* computed transfer, which only an RTE can take off.
WordInv(c) ==
    /\ \A a \in 1..(UserTop - 1) :
          c.mem[a] # None => Carries(c, a, "pc") /\ Enters(c.mem[a][2])
    /\ \A a \in UserTop..(SuperTop - 1) :
          Carries(c, a, "pc") =>
             \/ Enters(c.mem[a][2])
             \/ /\ InSomeTable(c.mem[a][2])
                /\ a - 1 >= SuperPointer(c) /\ a - 1 >= UserTop /\ Carries(c, a - 1, "sr")

\* Once the program runs, the list is finished and fit for it.
FlowInv ==
    /\ InStacks(m68k) /\ WordInv(m68k)
    /\ exec.mode = "off" => exec.pc = rom.seeds[1].addr
    /\ ~Running => \A a \in 1..(SuperTop - 1) : m68k.mem[a] = None
    /\ Running => phase = "done" /\ ~truncated /\ Emittable /\ PlaceInv(exec)

-----------------------------------------------------------------------------
(* What the stack operations do to the two stacks.                         *)

LEMMA SetSrKeeps ==
  ASSUME NEW c \in Cpu, NEW v \in Nat
  PROVE  LET d == ng_set_sr(c, v)
         IN  /\ d.sr = v /\ d.mem = c.mem
             /\ UserPointer(d) = UserPointer(c) /\ SuperPointer(d) = SuperPointer(c)
<1>1. CASE Supervisor(c.sr) = Supervisor(v)
  <2> DEFINE d == [c EXCEPT !.sr = v]
  <2>1. ng_set_sr(c, v) = d
    BY <1>1 DEF ng_set_sr
  <2>2. d.sr = v /\ d.mem = c.mem /\ d.a7 = c.a7 /\ d.usp = c.usp /\ d.ssp = c.ssp
    BY DEF Cpu
  <2>3. Supervisor(d.sr) <=> Supervisor(c.sr)
    BY <1>1, <2>2 DEF Supervisor
  <2> HIDE DEF d
  <2> QED BY <2>1, <2>2, <2>3 DEF UserPointer, SuperPointer
<1>2. CASE Supervisor(c.sr) # Supervisor(v) /\ Supervisor(c.sr)
  BY <1>2 DEF ng_set_sr, Cpu, UserPointer, SuperPointer
<1>3. CASE Supervisor(c.sr) # Supervisor(v) /\ ~Supervisor(c.sr)
  <2>1. Supervisor(v)
    BY <1>3 DEF Supervisor
  <2> QED BY <1>3, <2>1 DEF ng_set_sr, Cpu, UserPointer, SuperPointer
<1> QED BY <1>1, <1>2, <1>3

LEMMA PushMoves ==
  ASSUME NEW c \in Cpu, NEW w
  PROVE  LET d == Pushed(c, w)
         IN  /\ d.sr = c.sr
             /\ Supervisor(c.sr) =>
                   /\ SuperPointer(d) = SuperPointer(c) - 1
                   /\ UserPointer(d) = UserPointer(c) /\ c.a7 = SuperPointer(c)
             /\ ~Supervisor(c.sr) =>
                   /\ UserPointer(d) = UserPointer(c) - 1
                   /\ SuperPointer(d) = SuperPointer(c) /\ c.a7 = UserPointer(c)
             /\ \A a \in 1..(SuperTop - 1) :
                   d.mem[a] = IF a = c.a7 - 1 THEN w ELSE c.mem[a]
<1> DEFINE d == Pushed(c, w)
<1>1. /\ d.sr = c.sr /\ d.a7 = c.a7 - 1 /\ d.usp = c.usp /\ d.ssp = c.ssp
      /\ d.mem = [a \in DOMAIN c.mem |-> IF a = c.a7 - 1 THEN w ELSE c.mem[a]]
  BY DEF Pushed, Cpu
<1>2. DOMAIN c.mem = 1..(SuperTop - 1)
  BY DEF Cpu
<1> HIDE DEF d
<1> QED BY <1>1, <1>2 DEF UserPointer, SuperPointer, d

LEMMA PopMoves ==
  ASSUME NEW c \in Cpu
  PROVE  LET d == Popped(c)
         IN  /\ d.sr = c.sr
             /\ Supervisor(c.sr) =>
                   /\ SuperPointer(d) = SuperPointer(c) + 1
                   /\ UserPointer(d) = UserPointer(c) /\ c.a7 = SuperPointer(c)
             /\ ~Supervisor(c.sr) =>
                   /\ UserPointer(d) = UserPointer(c) + 1
                   /\ SuperPointer(d) = SuperPointer(c) /\ c.a7 = UserPointer(c)
             /\ \A a \in 1..(SuperTop - 1) :
                   d.mem[a] = IF a = c.a7 THEN None ELSE c.mem[a]
<1> DEFINE d == Popped(c)
<1>1. /\ d.sr = c.sr /\ d.a7 = c.a7 + 1 /\ d.usp = c.usp /\ d.ssp = c.ssp
      /\ d.mem = [c.mem EXCEPT ![c.a7] = None]
  BY DEF Popped, Cpu
<1>2. c.mem \in [1..(SuperTop - 1) -> StackWord]
  BY DEF Cpu
<1> HIDE DEF d
<1> QED BY <1>1, <1>2 DEF UserPointer, SuperPointer, d

LEMMA PointerType ==
  ASSUME NEW c \in Cpu
  PROVE  UserPointer(c) \in Int /\ SuperPointer(c) \in Int
  BY DEF Cpu, UserPointer, SuperPointer

LEMMA FrameMoves ==
  ASSUME NEW c \in Cpu, NEW p \in Nat
  PROVE  LET d == ng_push_exception_frame(c, p)
         IN  /\ d.sr = Handling /\ UserPointer(d) = UserPointer(c)
             /\ SuperPointer(d) = SuperPointer(c) - 2
             /\ \A a \in 1..(SuperTop - 1) :
                   d.mem[a] = IF a = SuperPointer(c) - 2 THEN SrWord(c.sr)
                              ELSE IF a = SuperPointer(c) - 1 THEN PcWord(p)
                              ELSE c.mem[a]
<1> DEFINE h == ng_set_sr(c, Handling)
           g == Pushed(h, PcWord(p))
           d == Pushed(g, SrWord(c.sr))
<1>1. Handling \in Nat /\ Supervisor(Handling) /\ c.sr \in Nat
  BY DEF Handling, Supervisor, Cpu
<1>2. h \in Cpu /\ g \in Cpu
  BY <1>1, SetSrType, PushType, WordTypes
<1>3. /\ h.sr = Handling /\ h.mem = c.mem /\ UserPointer(h) = UserPointer(c)
      /\ SuperPointer(h) = SuperPointer(c)
  BY <1>1, SetSrKeeps
<1>4. d = ng_push_exception_frame(c, p)
  BY DEF ng_push_exception_frame
<1> HIDE DEF h, g, d
<1>5. /\ g.sr = Handling /\ SuperPointer(g) = SuperPointer(c) - 1
      /\ UserPointer(g) = UserPointer(c)
      /\ \A a \in 1..(SuperTop - 1) :
            g.mem[a] = IF a = SuperPointer(c) - 1 THEN PcWord(p) ELSE c.mem[a]
  BY <1>1, <1>2, <1>3, PushMoves DEF g
<1>6. /\ d.sr = Handling /\ SuperPointer(d) = SuperPointer(g) - 1
      /\ UserPointer(d) = UserPointer(c) /\ g.a7 = SuperPointer(g)
      /\ \A a \in 1..(SuperTop - 1) :
            d.mem[a] = IF a = g.a7 - 1 THEN SrWord(c.sr) ELSE g.mem[a]
  BY <1>1, <1>2, <1>5, PushMoves DEF d
<1>7. SuperPointer(c) \in Int
  BY PointerType
<1> QED BY <1>4, <1>5, <1>6, <1>7

-----------------------------------------------------------------------------
(* They keep the words that stand on them.                                 *)

LEMMA TopsType == UserTop \in Nat /\ SuperTop \in Nat /\ 1 <= UserTop /\ UserTop <= SuperTop
  BY EmitAssumption DEF UserTop, SuperTop

LEMMA WordsSetSr ==
  ASSUME NEW c \in Cpu, NEW v \in Nat, WordInv(c)
  PROVE  WordInv(ng_set_sr(c, v))
<1>1. ng_set_sr(c, v).mem = c.mem /\ SuperPointer(ng_set_sr(c, v)) = SuperPointer(c)
  BY SetSrKeeps
<1> QED BY <1>1 DEF WordInv, Carries

LEMMA WordsFrame ==
  ASSUME NEW c \in Cpu, NEW p \in Nat, WordInv(c), InStacks(c),
         InStacks(ng_push_exception_frame(c, p)), Enters(p) \/ InSomeTable(p)
  PROVE  WordInv(ng_push_exception_frame(c, p))
<1> DEFINE d == ng_push_exception_frame(c, p)
           s == SuperPointer(c)
<1>1. /\ SuperPointer(d) = s - 2
      /\ \A a \in 1..(SuperTop - 1) :
            d.mem[a] = IF a = s - 2 THEN SrWord(c.sr)
                       ELSE IF a = s - 1 THEN PcWord(p) ELSE c.mem[a]
  BY FrameMoves
<1> HIDE DEF d
<1>2. s \in Int /\ s - 2 >= UserTop /\ s <= SuperTop
  BY <1>1, PointerType, TopsType DEF InStacks, d
<1>3. /\ c.mem \in [1..(SuperTop - 1) -> StackWord] /\ SrWord(c.sr) # None
      /\ SrWord(c.sr)[1] = "sr" /\ PcWord(p)[1] = "pc" /\ PcWord(p)[2] = p
  BY NoneAssumption DEF Cpu, SrWord, PcWord
<1> HIDE DEF s
<1>4. ASSUME NEW a \in 1..(UserTop - 1), d.mem[a] # None
      PROVE  Carries(d, a, "pc") /\ Enters(d.mem[a][2])
  <2>1. a \in 1..(SuperTop - 1) /\ a # s - 2 /\ a # s - 1
    BY <1>2, TopsType
  <2> QED BY <1>1, <1>4, <2>1 DEF WordInv, Carries
<1>5. ASSUME NEW a \in UserTop..(SuperTop - 1), Carries(d, a, "pc")
      PROVE  \/ Enters(d.mem[a][2])
             \/ /\ InSomeTable(d.mem[a][2])
                /\ a - 1 >= SuperPointer(d) /\ a - 1 >= UserTop /\ Carries(d, a - 1, "sr")
  <2>1. a \in 1..(SuperTop - 1) /\ (a - 1 >= UserTop => a - 1 \in 1..(SuperTop - 1))
    BY TopsType
  <2>2. CASE a = s - 1
    BY <1>1, <1>2, <1>3, <2>1, <2>2, TopsType DEF Carries
  <2>3. CASE a # s - 1
    <3>1. a # s - 2
      BY <1>1, <1>3, <1>5, <2>1 DEF Carries
    <3>2. d.mem[a] = c.mem[a]
      BY <1>1, <2>1, <2>3, <3>1
    <3>3. \/ Enters(c.mem[a][2])
          \/ /\ InSomeTable(c.mem[a][2])
             /\ a - 1 >= s /\ a - 1 >= UserTop /\ Carries(c, a - 1, "sr")
      BY <1>5, <3>2 DEF WordInv, Carries, s
    <3>4. a - 1 >= s /\ a - 1 >= UserTop => d.mem[a - 1] = c.mem[a - 1]
      BY <1>1, <1>2, <2>1, TopsType
    <3> QED BY <1>1, <1>2, <3>2, <3>3, <3>4, TopsType DEF Carries
  <2> QED BY <2>2, <2>3
<1> QED BY <1>4, <1>5 DEF WordInv, d

LEMMA WordsPush ==
  ASSUME NEW c \in Cpu, NEW p \in Nat, WordInv(c), InStacks(c), Enters(p),
         InStacks(Pushed(c, PcWord(p)))
  PROVE  WordInv(Pushed(c, PcWord(p)))
<1> DEFINE d == Pushed(c, PcWord(p))
           s == SuperPointer(c)
<1>1. /\ Supervisor(c.sr) => SuperPointer(d) = s - 1 /\ c.a7 = s
      /\ ~Supervisor(c.sr) => /\ SuperPointer(d) = s /\ UserPointer(d) = UserPointer(c) - 1
                              /\ c.a7 = UserPointer(c)
      /\ \A a \in 1..(SuperTop - 1) :
            d.mem[a] = IF a = c.a7 - 1 THEN PcWord(p) ELSE c.mem[a]
  BY PushMoves
<1> HIDE DEF d
<1>2. s \in Int /\ UserPointer(c) \in Int
  BY PointerType
<1>3. /\ SuperPointer(d) <= s /\ c.a7 - 1 < s /\ c.a7 \in Int
      /\ Supervisor(c.sr) => c.a7 - 1 >= UserTop
      /\ s >= UserTop
  BY <1>1, <1>2, TopsType DEF InStacks, d
<1>4. PcWord(p)[1] = "pc" /\ PcWord(p)[2] = p
  BY DEF PcWord
<1>5. PcWord(p) # None
  BY NoneAssumption DEF PcWord
<1> HIDE DEF s
<1>6. ASSUME NEW a \in 1..(UserTop - 1), d.mem[a] # None
      PROVE  Carries(d, a, "pc") /\ Enters(d.mem[a][2])
  <2>1. a \in 1..(SuperTop - 1)
    BY TopsType
  <2>2. CASE a = c.a7 - 1
    BY <1>1, <1>4, <1>5, <2>1, <2>2 DEF Carries
  <2>3. CASE a # c.a7 - 1
    BY <1>1, <1>6, <2>1, <2>3 DEF WordInv, Carries
  <2> QED BY <2>2, <2>3
<1>7. ASSUME NEW a \in UserTop..(SuperTop - 1), Carries(d, a, "pc")
      PROVE  \/ Enters(d.mem[a][2])
             \/ /\ InSomeTable(d.mem[a][2])
                /\ a - 1 >= SuperPointer(d) /\ a - 1 >= UserTop /\ Carries(d, a - 1, "sr")
  <2>1. a \in 1..(SuperTop - 1) /\ (a - 1 >= UserTop => a - 1 \in 1..(SuperTop - 1))
    BY TopsType
  <2>2. CASE a = c.a7 - 1
    BY <1>1, <1>4, <2>1, <2>2
  <2>3. CASE a # c.a7 - 1
    <3>2. d.mem[a] = c.mem[a]
      BY <1>1, <2>1, <2>3
    <3>3. \/ Enters(c.mem[a][2])
          \/ /\ InSomeTable(c.mem[a][2])
             /\ a - 1 >= s /\ a - 1 >= UserTop /\ Carries(c, a - 1, "sr")
      BY <1>7, <3>2 DEF WordInv, Carries, s
    <3>4. a - 1 >= s /\ a - 1 >= UserTop => /\ d.mem[a - 1] = c.mem[a - 1]
                                            /\ a - 1 >= SuperPointer(d)
      BY <1>1, <1>2, <1>3, <2>1, TopsType
    <3> QED BY <3>2, <3>3, <3>4 DEF Carries
  <2> QED BY <2>2, <2>3
<1> QED BY <1>6, <1>7 DEF WordInv, d

\* A return takes a candidate's address, and keeps what is above it.
LEMMA WordsPop ==
  ASSUME NEW c \in Cpu, WordInv(c), InStacks(c), IsTop(c, "pc"),
         UserPointer(Popped(c)) \in 1..UserTop
  PROVE  WordInv(Popped(c)) /\ InStacks(Popped(c)) /\ Enters(c.mem[c.a7][2])
<1> DEFINE d == Popped(c)
           s == SuperPointer(c)
<1>1. /\ Supervisor(c.sr) => /\ SuperPointer(d) = s + 1 /\ c.a7 = s
                             /\ UserPointer(d) = UserPointer(c)
      /\ ~Supervisor(c.sr) => /\ SuperPointer(d) = s /\ UserPointer(d) = UserPointer(c) + 1
                              /\ c.a7 = UserPointer(c)
      /\ \A a \in 1..(SuperTop - 1) : d.mem[a] = IF a = c.a7 THEN None ELSE c.mem[a]
  BY PopMoves
<1> HIDE DEF d
<1>2. s \in Int /\ UserPointer(c) \in Int
  BY PointerType
<1>3. c.a7 \in 1..(SuperTop - 1) /\ c.mem[c.a7][1] = "pc" /\ c.mem[c.a7] # None
  BY TopType DEF IsTop
<1>4. /\ Supervisor(c.sr) => c.a7 = s /\ c.a7 \in UserTop..(SuperTop - 1)
      /\ ~Supervisor(c.sr) => c.a7 \in 1..(UserTop - 1)
  BY <1>1, <1>2, <1>3, TopsType DEF InStacks, d
<1>5. InStacks(d)
  BY <1>1, <1>2, <1>3, <1>4, TopsType DEF InStacks, d
<1>6. Enters(c.mem[c.a7][2])
  <2>1. CASE Supervisor(c.sr)
    BY <1>2, <1>3, <1>4, <2>1 DEF WordInv, Carries
  <2>2. CASE ~Supervisor(c.sr)
    BY <1>3, <1>4, <2>2 DEF WordInv
  <2> QED BY <2>1, <2>2
<1> HIDE DEF s
<1>7. ASSUME NEW a \in 1..(UserTop - 1), d.mem[a] # None
      PROVE  Carries(d, a, "pc") /\ Enters(d.mem[a][2])
  <2>1. a \in 1..(SuperTop - 1)
    BY TopsType
  <2>2. a # c.a7 /\ d.mem[a] = c.mem[a]
    BY <1>1, <1>7, <2>1
  <2> QED BY <1>7, <2>2 DEF WordInv, Carries
<1>8. ASSUME NEW a \in UserTop..(SuperTop - 1), Carries(d, a, "pc")
      PROVE  \/ Enters(d.mem[a][2])
             \/ /\ InSomeTable(d.mem[a][2])
                /\ a - 1 >= SuperPointer(d) /\ a - 1 >= UserTop /\ Carries(d, a - 1, "sr")
  <2>1. a \in 1..(SuperTop - 1) /\ (a - 1 >= UserTop => a - 1 \in 1..(SuperTop - 1))
    BY TopsType
  <2>2. a # c.a7 /\ d.mem[a] = c.mem[a]
    BY <1>1, <1>8, <2>1 DEF Carries
  <2>3. \/ Enters(c.mem[a][2])
        \/ /\ InSomeTable(c.mem[a][2])
           /\ a - 1 >= s /\ a - 1 >= UserTop /\ Carries(c, a - 1, "sr")
    BY <1>8, <2>2 DEF WordInv, Carries, s
  <2>4. CASE InSomeTable(c.mem[a][2]) /\ a - 1 >= s /\ a - 1 >= UserTop
             /\ Carries(c, a - 1, "sr")
    <3>1. a - 1 # c.a7
      BY <1>3, <2>4 DEF Carries
    <3>2. d.mem[a - 1] = c.mem[a - 1]
      BY <1>1, <2>1, <2>4, <3>1
    <3>3. a - 1 >= SuperPointer(d)
      BY <1>1, <1>2, <1>4, <2>4, <3>1, TopsType
    <3> QED BY <2>2, <2>4, <3>2, <3>3 DEF Carries
  <2> QED BY <2>2, <2>3, <2>4
<1> QED BY <1>5, <1>6, <1>7, <1>8 DEF WordInv, d

\* An RTE takes a whole frame.
LEMMA WordsPopFrame ==
  ASSUME NEW c \in Cpu, WordInv(c), InStacks(c), Supervisor(c.sr),
         IsTop(c, "sr"), IsTop(Popped(c), "pc")
  PROVE  LET d == Popped(Popped(c))
             p == c.mem[c.a7 + 1][2]
         IN  /\ WordInv(d) /\ InStacks(d) /\ (Enters(p) \/ InSomeTable(p))
             /\ SuperPointer(d) = SuperPointer(c) + 2
             /\ UserPointer(d) = UserPointer(c) /\ c.a7 = SuperPointer(c)
             /\ \A a \in 1..(SuperTop - 1) :
                   d.mem[a] = IF a = c.a7 \/ a = c.a7 + 1 THEN None ELSE c.mem[a]
<1> DEFINE g == Popped(c)
           d == Popped(g)
           s == SuperPointer(c)
<1>1. g \in Cpu
  BY PopType
<1>2. /\ g.sr = c.sr /\ SuperPointer(g) = s + 1 /\ UserPointer(g) = UserPointer(c)
      /\ c.a7 = s
      /\ \A a \in 1..(SuperTop - 1) : g.mem[a] = IF a = c.a7 THEN None ELSE c.mem[a]
  BY PopMoves
<1> HIDE DEF g
<1>3. /\ SuperPointer(d) = SuperPointer(g) + 1 /\ UserPointer(d) = UserPointer(g)
      /\ g.a7 = SuperPointer(g)
      /\ \A a \in 1..(SuperTop - 1) : d.mem[a] = IF a = g.a7 THEN None ELSE g.mem[a]
  BY <1>1, <1>2, PopMoves
<1> HIDE DEF d
<1>4. s \in Int
  BY PointerType
<1>5. /\ c.a7 \in 1..(SuperTop - 1) /\ c.a7 + 1 \in 1..(SuperTop - 1)
      /\ c.mem[c.a7] = SrWord(c.mem[c.a7][2])
      /\ c.mem[c.a7 + 1] = PcWord(c.mem[c.a7 + 1][2])
      /\ c.mem[c.a7 + 1][2] \in Nat
  BY FrameTop
<1>6. /\ SuperPointer(d) = s + 2 /\ UserPointer(d) = UserPointer(c)
      /\ \A a \in 1..(SuperTop - 1) :
            d.mem[a] = IF a = s \/ a = s + 1 THEN None ELSE c.mem[a]
  BY <1>2, <1>3, <1>4
<1>7. s >= UserTop /\ s + 1 \in UserTop..(SuperTop - 1)
  BY <1>2, <1>4, <1>5, TopsType DEF InStacks
<1>8. InStacks(d)
  BY <1>4, <1>6, <1>7, TopsType DEF InStacks
<1>9. Carries(c, s + 1, "pc") /\ ~Carries(c, s + 1, "sr")
  <2>1. c.mem[s + 1][1] = "pc" /\ c.mem[s + 1] # None
    <3>1. ASSUME NEW x \in Nat PROVE PcWord(x) # None /\ PcWord(x)[1] = "pc"
      BY NoneAssumption DEF PcWord
    <3>2. c.a7 + 1 = s + 1
      BY <1>2
    <3> QED BY <1>5, <3>1, <3>2
  <2> QED BY <2>1 DEF Carries
<1>10. Enters(c.mem[s + 1][2]) \/ InSomeTable(c.mem[s + 1][2])
  BY <1>7, <1>9 DEF WordInv
<1> HIDE DEF s
<1>11. ASSUME NEW a \in 1..(UserTop - 1), d.mem[a] # None
       PROVE  Carries(d, a, "pc") /\ Enters(d.mem[a][2])
  <2>1. a \in 1..(SuperTop - 1)
    BY TopsType
  <2>2. d.mem[a] = c.mem[a]
    BY <1>6, <1>11, <2>1
  <2> QED BY <1>11, <2>2 DEF WordInv, Carries
<1>12. ASSUME NEW a \in UserTop..(SuperTop - 1), Carries(d, a, "pc")
       PROVE  \/ Enters(d.mem[a][2])
              \/ /\ InSomeTable(d.mem[a][2])
                 /\ a - 1 >= SuperPointer(d) /\ a - 1 >= UserTop /\ Carries(d, a - 1, "sr")
  <2>1. a \in 1..(SuperTop - 1) /\ (a - 1 >= UserTop => a - 1 \in 1..(SuperTop - 1))
    BY TopsType
  <2>2. a # s /\ a # s + 1 /\ d.mem[a] = c.mem[a]
    BY <1>6, <1>12, <2>1 DEF Carries
  <2>3. \/ Enters(c.mem[a][2])
        \/ /\ InSomeTable(c.mem[a][2])
           /\ a - 1 >= s /\ a - 1 >= UserTop /\ Carries(c, a - 1, "sr")
    BY <1>12, <2>2 DEF WordInv, Carries, s
  <2>4. CASE InSomeTable(c.mem[a][2]) /\ a - 1 >= s /\ a - 1 >= UserTop
             /\ Carries(c, a - 1, "sr")
    <3>1. a - 1 # s + 1
      BY <1>9, <2>4
    <3>2. a - 1 >= s + 2
      BY <1>4, <2>2, <2>4, <3>1
    <3>3. d.mem[a - 1] = c.mem[a - 1]
      BY <1>4, <1>6, <2>1, <2>4, <3>2
    <3> QED BY <1>6, <2>2, <2>4, <3>2, <3>3 DEF Carries
  <2> QED BY <2>2, <2>3, <2>4
<1>13. WordInv(d)
  BY <1>11, <1>12 DEF WordInv
<1> QED BY <1>2, <1>6, <1>8, <1>10, <1>13 DEF d, g, s

-----------------------------------------------------------------------------
(* Where control can go.                                                   *)

\* A candidate of the bank that is in is code there.
LEMMA EntersCode ==
  ASSUME DiscoveryInv, NEW a, Enters(a)
  PROVE  /\ a \in Addrs /\ a \in Nat /\ Probable(rom, rom.active, a)
         /\ RunsIn(Node(rom.active, a)) = rom.active /\ Node(rom.active, a)[1] = a
         /\ \E k \in DOMAIN list : list[k].addr = a
<1>1. TypeInv /\ RowInv /\ rom \in Roms /\ list \in Seq(Row)
  BY DEF DiscoveryInv, TypeInv
<1>2. rom.active \in Banks /\ NoBank \notin Banks
  BY <1>1, RomAssumption, RegionAssumption DEF WellFormed
<1>3. PICK k \in DOMAIN list : At(k) = Node(rom.active, a)
  BY DEF Enters, Found, At
<1>4. list[k].addr = a /\ At(k)[1] = a
  BY <1>3 DEF At, Node
<1>5. RunsIn(Node(rom.active, a)) = rom.active
  BY <1>2 DEF RunsIn, Node, BankFor
<1>6. Probable(rom, rom.active, a)
  BY <1>1, <1>3, <1>4, <1>5 DEF RowInv
<1>7. a \in Addrs /\ a \in Nat
  BY <1>1, <1>2, <1>6, CodeType
<1> QED BY <1>3, <1>4, <1>5, <1>6, <1>7

LEMMA CaseEnters ==
  ASSUME TypeInv, RowInv, NEW k \in DOMAIN list, RowView(k) = rom.active
  PROVE  Enters(list[k].addr)
<1>1. list[k] \in Row /\ rom \in Roms
  BY DEF TypeInv
<1>2. RunsIn(At(k)) = rom.active
  <2>1. list[k].bank \in Banks \cup {NoBank}
    BY <1>1 DEF Row
  <2> QED BY <1>1, <2>1, ViewType DEF At, RowView
<1>3. At(k) = Node(rom.active, list[k].addr)
  BY <1>2 DEF RowInv
<1>4. At(k) \in Found
  BY DEF Found, At
<1> QED BY <1>3, <1>4 DEF Enters

\* A candidate's address has a case.
LEMMA HasCase ==
  ASSUME list \in Seq(Row), NEW j \in DOMAIN list
  PROVE  Cases(list[j].addr) # {}
<1> DEFINE T == {k \in DOMAIN list : list[k].addr = list[j].addr}
<1>1. T \subseteq Nat /\ T # {}
  OBVIOUS
<1>2. PICK k \in T : \A y \in T : k <= y
  BY <1>1, LeastNat
<1>3. k \in DOMAIN list /\ list[k].addr = list[j].addr
  OBVIOUS
<1>4. ASSUME NEW i \in 1..(k - 1) PROVE list[i].addr # list[j].addr
  <2>1. i \in DOMAIN list /\ ~(k <= i)
    BY <1>3
  <2>2. i \notin T
    <3> HIDE DEF T
    <3> QED BY <1>2, <2>1
  <2> QED BY <2>1, <2>2
<1>5. k \in Cases(list[j].addr)
  BY <1>3, <1>4 DEF Cases
<1> QED BY <1>5

\* What a candidate leads to is one, if it is code.
LEMMA LeadsEnter ==
  ASSUME DiscoveryInv, phase = "done", ~truncated, NEW a, Enters(a),
         NEW b, Probable(rom, rom.active, b),
         LET i == Code(rom, rom.active, a) IN b \in Next(i, a) \cup JumpsTo(i)
  PROVE  Enters(b)
<1> DEFINE n == Node(rom.active, a)
           i == Code(rom, rom.active, a)
<1>1. n \in Found /\ RunsIn(n) = rom.active /\ n[1] = a
  BY EntersCode DEF Enters
<1>2. Leads(n, FALSE) \subseteq Found
  BY <1>1, ClosedWhenDone DEF Closed
<1>3. Leads(n, FALSE) = Lands(rom.active, Next(i, a) \cup JumpsTo(i) \cup RowAt(rom.active, a))
  <2>1. Leads(n, FALSE) = Lands(rom.active, Next(i, a) \cup JumpsTo(i) \cup RowAt(rom.active, a))
                             \cup {}
    BY <1>1 DEF Leads
  <2> QED BY <2>1
<1>4. Node(rom.active, b)
        \in Lands(rom.active, Next(i, a) \cup JumpsTo(i) \cup RowAt(rom.active, a))
  BY DEF Lands
<1> QED BY <1>2, <1>3, <1>4 DEF Enters

\* Every instruction of a body that is run is a candidate.
LEMMA BodyEnters ==
  ASSUME DiscoveryInv, phase = "done", ~truncated, Emittable,
         NEW k \in DOMAIN list, RowView(k) = rom.active,
         NEW a, InBody(k, a)
  PROVE  Enters(a)
<1> DEFINE B == Body(k)
           T == {j \in 1..Len(B) : ~Enters(B[j])}
<1>1. TypeInv /\ RowInv /\ rom \in Roms /\ list \in Seq(Row)
  BY DEF DiscoveryInv, TypeInv
<1>2. IsRun(k, EmitLimit, B)
  BY <1>1, BodyIsRun
<1>3. \A j \in 1..Len(B) : Probable(rom, rom.active, B[j])
  <2>1. \A x : InstrOf(k, x) = Code(rom, rom.active, x)
    BY DEF InstrOf, RowView
  <2>2. DOMAIN B = 1..Len(B)
    BY <1>2 DEF IsRun
  <2>3. \A j \in 1..Len(B) : B[j] \in ToSet(B)
    BY <2>2 DEF ToSet
  <2> QED BY <2>1, <2>3 DEF Emittable, Probable
<1>4. \A j \in 1..(Len(B) - 1) :
         /\ Code(rom, rom.active, B[j]).op \in {"plain", "cond", "check", "tosr"}
         /\ B[j + 1] = B[j] + Code(rom, rom.active, B[j]).len
  <2> SUFFICES ASSUME NEW j \in 1..(Len(B) - 1)
               PROVE  /\ Code(rom, rom.active, B[j]).op \in {"plain", "cond", "check", "tosr"}
                      /\ B[j + 1] = B[j] + Code(rom, rom.active, B[j]).len
    OBVIOUS
  <2>1. InstrOf(k, B[j]).op \notin EndsBody /\ B[j + 1] = B[j] + InstrOf(k, B[j]).len
    BY <1>2 DEF IsRun
  <2>2. B[j] \in Nat
    BY <1>2 DEF IsRun
  <2> QED BY <1>1, <2>1, <2>2, RunsOn
<1>5. B \in Seq(Nat) /\ B[1] = list[k].addr /\ Len(B) \in Nat
  BY <1>2 DEF IsRun
<1> HIDE DEF B
<1>6. T = {}
  <2> SUFFICES ASSUME T # {} PROVE FALSE
    OBVIOUS
  <2>1. T \subseteq Nat
    BY <1>5
  <2>2. PICK j \in T : \A y \in T : j <= y
    BY <2>1, LeastNat
  <2>3. j \in 1..Len(B) /\ j \in Nat /\ ~Enters(B[j])
    BY <1>5
  <2>4. CASE j = 1
    BY <1>1, <1>5, <2>3, <2>4, CaseEnters
  <2>5. CASE j # 1
    <3>1. j - 1 \in 1..(Len(B) - 1) /\ j - 1 \in 1..Len(B) /\ j - 1 < j
      BY <1>5, <2>3, <2>5
    <3>2. j - 1 \notin T
      <4> HIDE DEF T
      <4> QED BY <2>2, <2>3, <3>1
    <3>3. Enters(B[j - 1])
      BY <3>1, <3>2
    <3>4. /\ Code(rom, rom.active, B[j - 1]).op \in {"plain", "cond", "check", "tosr"}
          /\ B[j] = B[j - 1] + Code(rom, rom.active, B[j - 1]).len
      BY <1>4, <2>3, <3>1
    <3>5. B[j] \in Next(Code(rom, rom.active, B[j - 1]), B[j - 1])
      BY <3>4 DEF Next
    <3>6. Enters(B[j])
      BY <1>3, <2>3, <3>3, <3>5, LeadsEnter
    <3> QED BY <2>3, <3>6
  <2> QED BY <2>4, <2>5
<1>7. PICK j \in 1..Len(B) : B[j] = a
  BY DEF InBody, Contains, B
<1> QED BY <1>6, <1>7

\* A body that is not cut off goes on behind each of its instructions that
\* passes control on.
LEMMA BodyGoesOn ==
  ASSUME DiscoveryInv, NEW k \in DOMAIN list,
         InstrOf(k, Body(k)[Len(Body(k))]).op \in EndsBody,
         NEW a, InBody(k, a), InstrOf(k, a).op \notin EndsBody
  PROVE  InBody(k, a + InstrOf(k, a).len)
<1> DEFINE B == Body(k)
<1>1. rom \in Roms /\ list \in Seq(Row)
  BY DEF DiscoveryInv, TypeInv
<1>2. IsRun(k, EmitLimit, B)
  BY <1>1, BodyIsRun
<1>3. PICK j \in 1..Len(B) : B[j] = a
  BY DEF InBody, Contains
<1>4. InstrOf(k, B[Len(B)]).op \in EndsBody
  OBVIOUS
<1> HIDE DEF B
<1>5. Len(B) \in Nat /\ j # Len(B)
  BY <1>2, <1>3, <1>4 DEF IsRun
<1>6. j \in 1..(Len(B) - 1) /\ j + 1 \in 1..Len(B)
  BY <1>5
<1>7. B[j + 1] = a + InstrOf(k, a).len
  BY <1>2, <1>3, <1>6 DEF IsRun
<1> QED BY <1>6, <1>7 DEF InBody, Contains, B

-----------------------------------------------------------------------------
(* The invariant of the running program is kept.                           *)

\* The list no longer changes: what held of a place or a stack still holds.
LEMMA SameProgram ==
  ASSUME UNCHANGED discoveryVars, NEW e, NEW c, exec' = e, m68k' = c
  PROVE  /\ PlaceInv(e) => PlaceInv(exec)'
         /\ WordInv(c) => WordInv(m68k)'
         /\ Emittable => Emittable'
<1>1. rom' = rom /\ list' = list
  BY DEF discoveryVars
<1>2. PlaceInv(exec)' = PlaceInv(e)
  BY <1>1 DEF PlaceInv, Computed, InSomeTable, Enters, Node, Found, RowView, InBody, Body, InstrOf
<1>3. WordInv(m68k)' = WordInv(c)
  BY <1>1 DEF WordInv, Carries, InSomeTable, Enters, Node, Found
<1>4. Emittable' = Emittable
  BY <1>1 DEF Emittable, Body, InstrOf
<1> QED BY <1>2, <1>3, <1>4

\* The hypotheses under which a program is running.
Fit == /\ DiscoveryInv /\ ExecType /\ FlowInv /\ Translatable
       /\ phase = "done" /\ ~truncated /\ Emittable

LEMMA FlowInvNext ==
  ASSUME Fit, UNCHANGED discoveryVars, InStacks(m68k'), NEW e, NEW c,
         exec' = e, m68k' = c, e.mode \notin {"off", "refused"}, PlaceInv(e), WordInv(c)
  PROVE  FlowInv'
<1>1. PlaceInv(exec)' /\ WordInv(m68k)' /\ Emittable'
  BY SameProgram DEF Fit
<1>2. InStacks(m68k)'
  BY DEF InStacks, UserPointer, SuperPointer
<1>3. phase' = "done" /\ ~truncated'
  BY DEF Fit, discoveryVars
<1> QED BY <1>1, <1>2, <1>3 DEF FlowInv, Running

\* The vectors lead to candidates.
LEMMA VectorsEnter ==
  ASSUME Fit
  PROVE  Enters(rom.seeds[1].addr) /\ \A cause \in Causes : Enters(rom.vector[cause])
  BY DEF Fit, Translatable

\* The pointers an instruction leaves, traced or not, are in the stacks.
LEMMA RetireStacks ==
  ASSUME NEW c \in Cpu, NEW a \in Nat, NEW e, Retire(c, a, e), InStacks(m68k')
  PROVE  UserPointer(c) \in 1..UserTop /\ SuperPointer(c) >= UserTop
<1>1. CASE Tracing(m68k.sr)
  <2>1. m68k' = ng_push_exception_frame(c, a)
    BY <1>1 DEF Retire
  <2>2. UserPointer(m68k') = UserPointer(c) /\ SuperPointer(m68k') = SuperPointer(c) - 2
    BY <2>1, FrameMoves
  <2> QED BY <2>2, PointerType, TopsType DEF InStacks
<1>2. CASE ~Tracing(m68k.sr)
  <2>1. m68k' = c
    BY <1>2 DEF Retire
  <2> QED BY <2>1, TopsType DEF InStacks
<1> QED BY <1>1, <1>2

\* The end of an instruction.
LEMMA RetireInv ==
  ASSUME Fit, UNCHANGED discoveryVars, InStacks(m68k'),
         NEW c \in Cpu, InStacks(c), WordInv(c),
         NEW a \in Nat, Enters(a) \/ InSomeTable(a),
         NEW e, e.mode \notin {"off", "refused"}, PlaceInv(e), Retire(c, a, e)
  PROVE  FlowInv'
<1>1. CASE Tracing(m68k.sr)
  <2> DEFINE d == ng_push_exception_frame(c, a)
             f == To("pending", rom.vector["trace"], exec.pc)
  <2>1. m68k' = d /\ exec' = f
    BY <1>1 DEF Retire, Goto
  <2>2. WordInv(d)
    BY <2>1, WordsFrame
  <2>3. f.mode = "pending" /\ f.pc = rom.vector["trace"]
    BY DEF To, State
  <2>4. Enters(rom.vector["trace"])
    BY VectorsEnter DEF Causes
  <2> HIDE DEF d, f
  <2>5. PlaceInv(f)
    BY <2>3, <2>4 DEF PlaceInv
  <2> QED BY <2>1, <2>2, <2>3, <2>5, FlowInvNext
<1>2. CASE ~Tracing(m68k.sr)
  <2>1. m68k' = c /\ exec' = e
    BY <1>2 DEF Retire
  <2> QED BY <2>1, FlowInvNext
<1> QED BY <1>1, <1>2

\* An exception that nothing follows: it goes to a vector.
LEMMA ExceptionInv ==
  ASSUME Fit, UNCHANGED discoveryVars, InStacks(m68k'), NEW a \in Nat, Enters(a),
         NEW cause \in Causes, NEW last,
         m68k' = ng_push_exception_frame(m68k, a), Goto("pending", rom.vector[cause], last)
  PROVE  FlowInv'
<1> DEFINE f == To("pending", rom.vector[cause], last)
<1>1. m68k \in Cpu /\ WordInv(m68k) /\ InStacks(m68k)
  BY DEF Fit, ExecType, FlowInv
<1>2. WordInv(ng_push_exception_frame(m68k, a))
  BY <1>1, WordsFrame
<1>3. f.mode = "pending" /\ f.pc = rom.vector[cause] /\ exec' = f
  BY DEF To, State, Goto
<1>4. Enters(rom.vector[cause])
  BY VectorsEnter
<1> HIDE DEF f
<1>5. PlaceInv(f)
  BY <1>3, <1>4 DEF PlaceInv
<1> QED BY <1>2, <1>3, <1>5, FlowInvNext

\* A step that leaves the processor alone.
LEMMA PassOnInv ==
  ASSUME Fit, UNCHANGED discoveryVars, InStacks(m68k'), m68k' = m68k,
         NEW e, exec' = e, e.mode \notin {"off", "refused"}, PlaceInv(e)
  PROVE  FlowInv'
<1>1. WordInv(m68k)
  BY DEF Fit, FlowInv
<1> QED BY <1>1, FlowInvNext

\* The instruction that is executed: it is a candidate of the bank that is
\* in, and what it leads to are.
LEMMA ThisEnters ==
  ASSUME Fit, exec.mode = "body"
  PROVE  /\ exec.fn \in DOMAIN list /\ RowView(exec.fn) = rom.active
         /\ InBody(exec.fn, exec.pc) /\ Enters(exec.pc)
         /\ This = Code(rom, rom.active, exec.pc) /\ This.op # "bad"
         /\ \A a \in Next(This, exec.pc) \cup JumpsTo(This) : Enters(a)
         /\ exec.pc # None
         /\ \A a \in ComputedTargets(This, rom.active) :
               This.op \in {"ijmp", "icall"} => InSomeTable(a)
<1>1. /\ DiscoveryInv /\ ExecType /\ FlowInv /\ Translatable
      /\ phase = "done" /\ ~truncated /\ Emittable
  BY DEF Fit
<1>2. /\ exec.fn \in DOMAIN list /\ RowView(exec.fn) = rom.active
      /\ InBody(exec.fn, exec.pc) /\ Enters(exec.pc)
  BY <1>1 DEF ExecType, Placed, FlowInv, Running, PlaceInv
<1>3. This = Code(rom, rom.active, exec.pc)
  BY <1>2 DEF This, InstrOf, RowView
<1>4. /\ Probable(rom, rom.active, exec.pc) /\ exec.pc \in Nat
      /\ RunsIn(Node(rom.active, exec.pc)) = rom.active
      /\ Node(rom.active, exec.pc)[1] = exec.pc
  BY <1>1, <1>2, EntersCode
<1>5. Node(rom.active, exec.pc) \in Found
  BY <1>2 DEF Enters
<1>6. \A a \in Next(This, exec.pc) \cup JumpsTo(This) : Probable(rom, rom.active, a)
  BY <1>1, <1>3, <1>4, <1>5 DEF Translatable
<1>7. \A a \in Next(This, exec.pc) \cup JumpsTo(This) : Enters(a)
  BY <1>1, <1>2, <1>3, <1>6, LeadsEnter
<1>8. \A a \in ComputedTargets(This, rom.active) :
         This.op \in {"ijmp", "icall"} => InSomeTable(a)
  BY <1>3, <1>4, <1>5 DEF InSomeTable
<1> QED BY <1>2, <1>3, <1>4, <1>7, <1>8, NoneAssumption DEF Probable

\* Places an instruction can go on to.
LEMMA PendingAt ==
  ASSUME NEW a, NEW l, Enters(a) \/ Computed(l, a)
  PROVE  PlaceInv(To("pending", a, l)) /\ To("pending", a, l).mode = "pending"
<1> DEFINE e == To("pending", a, l)
<1>1. e.mode = "pending" /\ e.pc = a /\ e.last = l
  BY DEF To, State
<1> HIDE DEF e
<1>2. PlaceInv(e) /\ e.mode = "pending"
  BY <1>1 DEF PlaceInv
<1> QED BY <1>2 DEF e

LEMMA RunsOnAt ==
  ASSUME Fit, exec.mode = "body", This.op \in {"plain", "cond", "check", "tosr"}
  PROVE  /\ RunOn(After) = To("body", After, exec.pc) /\ Enters(After)
         /\ PlaceInv(RunOn(After)) /\ RunOn(After).mode = "body"
<1> DEFINE e == To("body", After, exec.pc)
<1>1. /\ exec.fn \in DOMAIN list /\ RowView(exec.fn) = rom.active
      /\ InBody(exec.fn, exec.pc) /\ Enters(exec.pc) /\ DiscoveryInv
      /\ InstrOf(exec.fn, Body(exec.fn)[Len(Body(exec.fn))]).op \in EndsBody
  BY ThisEnters DEF Fit, Translatable
<1>2. InstrOf(exec.fn, exec.pc) = This /\ This.op \notin EndsBody
  BY DEF This, EndsBody
<1>3. InBody(exec.fn, After)
  BY <1>1, <1>2, BodyGoesOn DEF After
<1>4. RunOn(After) = e
  BY <1>3 DEF RunOn
<1>5. After \in Next(This, exec.pc)
  BY DEF Next, After
<1>6. Enters(After)
  BY <1>5, ThisEnters
<1>7. e.mode = "body" /\ e.pc = After /\ e.fn = exec.fn
  BY DEF To, State
<1> HIDE DEF e
<1>8. PlaceInv(e)
  BY <1>1, <1>3, <1>6, <1>7 DEF PlaceInv
<1> QED BY <1>4, <1>6, <1>7, <1>8 DEF e

LEMMA BranchAt ==
  ASSUME Fit, exec.mode = "body", This.op \in {"cond", "bra"}
  PROVE  /\ Enters(This.target) /\ PlaceInv(Branch(This.target))
         /\ Branch(This.target).mode \notin {"off", "refused"} /\ Branch(This.target).pc = This.target
<1>1. RowView(exec.fn) = rom.active
  BY ThisEnters
<1>2. Enters(This.target)
  BY ThisEnters DEF JumpsTo
<1>3. CASE InBody(exec.fn, This.target)
  <2> DEFINE e == To("body", This.target, exec.pc)
  <2>1. Branch(This.target) = e
    BY <1>3 DEF Branch
  <2>2. e.mode = "body" /\ e.pc = This.target /\ e.fn = exec.fn
    BY DEF To, State
  <2> HIDE DEF e
  <2> QED BY <1>1, <1>2, <1>3, <2>1, <2>2 DEF PlaceInv
<1>4. CASE ~InBody(exec.fn, This.target)
  <2>1. Branch(This.target) = To("pending", This.target, exec.pc)
    BY <1>4 DEF Branch
  <2>2. To("pending", This.target, exec.pc).pc = This.target
    BY DEF To, State
  <2> QED BY <1>2, <2>1, <2>2, PendingAt
<1> QED BY <1>2, <1>3, <1>4

\* A pushed return address.
LEMMA CallInv ==
  ASSUME Fit, exec.mode = "body", This.op \in {"call", "icall"},
         NEW a \in Nat, NEW e, Retire(Pushed(m68k, PcWord(After)), a, e),
         InStacks(m68k')
  PROVE  LET c == Pushed(m68k, PcWord(After))
         IN  c \in Cpu /\ InStacks(c) /\ WordInv(c) /\ Enters(After) /\ After \in Nat
<1> DEFINE c == Pushed(m68k, PcWord(After))
<1>1. m68k \in Cpu /\ WordInv(m68k) /\ InStacks(m68k) /\ DiscoveryInv
  BY DEF Fit, ExecType, FlowInv
<1>2. After \in Next(This, exec.pc)
  BY DEF Next, After
<1>3. Enters(After)
  BY <1>2, ThisEnters
<1>4. After \in Nat
  BY <1>1, <1>3, EntersCode
<1>5. c \in Cpu
  BY <1>1, <1>4, PushType, WordTypes
<1>6. UserPointer(c) \in 1..UserTop /\ SuperPointer(c) >= UserTop
  BY <1>5, RetireStacks
<1>7. SuperPointer(c) = SuperPointer(m68k) \/ SuperPointer(c) = SuperPointer(m68k) - 1
  BY <1>1, PushMoves
<1>8. InStacks(c)
  BY <1>1, <1>5, <1>6, <1>7, PointerType, TopsType DEF InStacks
<1>9. WordInv(c)
  BY <1>1, <1>3, <1>4, <1>8, WordsPush
<1> QED BY <1>3, <1>4, <1>5, <1>8, <1>9

LEMMA SetSrInv ==
  ASSUME Fit, NEW v \in Nat
  PROVE  /\ ng_set_sr(m68k, v) \in Cpu /\ InStacks(ng_set_sr(m68k, v))
         /\ WordInv(ng_set_sr(m68k, v))
<1>1. m68k \in Cpu /\ WordInv(m68k) /\ InStacks(m68k)
  BY DEF Fit, ExecType, FlowInv
<1> QED BY <1>1, SetSrType, SetSrKeeps, WordsSetSr DEF InStacks

\* The frame a TRAP pushes, traced or not.
LEMMA TrapInv ==
  ASSUME Fit, exec.mode = "body", This.op \in {"trap", "check"}, NEW a \in Nat, NEW e,
         Retire(ng_push_exception_frame(m68k, After), a, e), InStacks(m68k')
  PROVE  LET c == ng_push_exception_frame(m68k, After)
         IN  c \in Cpu /\ InStacks(c) /\ WordInv(c) /\ After \in Nat
<1> DEFINE c == ng_push_exception_frame(m68k, After)
<1>1. m68k \in Cpu /\ WordInv(m68k) /\ InStacks(m68k) /\ DiscoveryInv
  BY DEF Fit, ExecType, FlowInv
<1>2. After \in Next(This, exec.pc)
  BY DEF Next, After
<1>3. Enters(After)
  BY <1>2, ThisEnters
<1>4. After \in Nat
  BY <1>1, <1>3, EntersCode
<1>5. c \in Cpu
  BY <1>1, <1>4, FrameType
<1>6. UserPointer(c) \in 1..UserTop /\ SuperPointer(c) >= UserTop
  BY <1>5, RetireStacks
<1>7. SuperPointer(c) = SuperPointer(m68k) - 2
  BY <1>1, <1>4, FrameMoves
<1>8. InStacks(c)
  BY <1>1, <1>5, <1>6, <1>7, PointerType, TopsType DEF InStacks
<1>9. WordInv(c)
  BY <1>1, <1>3, <1>4, <1>8, WordsFrame
<1> QED BY <1>4, <1>5, <1>8, <1>9

\* What an RTS takes off, and an RTE.
LEMMA ReturnInv ==
  ASSUME Fit, IsTop(m68k, "pc"), NEW e, NEW a \in Nat, Retire(Popped(m68k), a, e),
         InStacks(m68k')
  PROVE  /\ Popped(m68k) \in Cpu /\ InStacks(Popped(m68k)) /\ WordInv(Popped(m68k))
         /\ Enters(m68k.mem[m68k.a7][2])
<1>1. m68k \in Cpu /\ WordInv(m68k) /\ InStacks(m68k)
  BY DEF Fit, ExecType, FlowInv
<1>2. Popped(m68k) \in Cpu
  BY <1>1, PopType
<1>3. UserPointer(Popped(m68k)) \in 1..UserTop
  BY <1>2, RetireStacks
<1> QED BY <1>1, <1>2, <1>3, WordsPop

LEMMA ResumeInv ==
  ASSUME Fit, Supervisor(m68k.sr), IsTop(m68k, "sr"), IsTop(Popped(m68k), "pc")
  PROVE  LET c == ng_set_sr(Popped(Popped(m68k)), m68k.mem[m68k.a7][2])
             p == m68k.mem[m68k.a7 + 1][2]
         IN  c \in Cpu /\ InStacks(c) /\ WordInv(c) /\ p \in Nat
             /\ (Enters(p) \/ InSomeTable(p))
<1> DEFINE d == Popped(Popped(m68k))
           s == m68k.mem[m68k.a7][2]
<1>1. m68k \in Cpu /\ WordInv(m68k) /\ InStacks(m68k)
  BY DEF Fit, ExecType, FlowInv
<1>2. s \in Nat /\ m68k.mem[m68k.a7 + 1][2] \in Nat
  BY <1>1, FrameTop
<1>3. d \in Cpu
  BY <1>1, PopType
<1>4. WordInv(d) /\ InStacks(d)
      /\ (Enters(m68k.mem[m68k.a7 + 1][2]) \/ InSomeTable(m68k.mem[m68k.a7 + 1][2]))
  BY <1>1, WordsPopFrame
<1> HIDE DEF d, s
<1>5. InStacks(ng_set_sr(d, s)) /\ WordInv(ng_set_sr(d, s)) /\ ng_set_sr(d, s) \in Cpu
  BY <1>2, <1>3, <1>4, SetSrType, SetSrKeeps, WordsSetSr DEF InStacks
<1> QED BY <1>2, <1>4, <1>5 DEF d, s

\* A reset clears the supervisor's stack and leaves the user's words.
LEMMA ResetInv ==
  ASSUME Fit, UNCHANGED discoveryVars, InStacks(m68k'), ServiceReset
  PROVE  FlowInv'
<1> DEFINE c == [m68k EXCEPT !.sr = Handling, !.ssp = SuperTop, !.a7 = SuperTop,
                   !.mem = [a \in DOMAIN m68k.mem |->
                               IF a < UserTop THEN m68k.mem[a] ELSE None]]
           e == To("pending", rom.seeds[1].addr, None)
<1>1. m68k \in Cpu /\ WordInv(m68k)
  BY DEF Fit, ExecType, FlowInv
<1>2. m68k' = c /\ exec' = e
  BY DEF ServiceReset, Goto
<1>3. \A a \in 1..(SuperTop - 1) : c.mem[a] = IF a < UserTop THEN m68k.mem[a] ELSE None
  BY <1>1 DEF Cpu
<1> HIDE DEF c
<1>4. \A a \in 1..(UserTop - 1) : c.mem[a] = m68k.mem[a]
  BY <1>3, TopsType
<1>5. \A a \in UserTop..(SuperTop - 1) : c.mem[a] = None
  BY <1>3, TopsType
<1>6. WordInv(c)
  BY <1>1, <1>4, <1>5 DEF WordInv, Carries
<1>7. PlaceInv(e) /\ e.mode = "pending"
  BY VectorsEnter, PendingAt
<1> HIDE DEF e
<1> QED BY <1>2, <1>6, <1>7, FlowInvNext

\* Starting the program.
LEMMA EmitInv ==
  ASSUME DiscoveryInv, ExecType, FlowInv, Translatable, Emit, InStacks(m68k'),
         UNCHANGED discoveryVars
  PROVE  FlowInv'
<1>1. phase = "done" /\ exec.mode = "off" /\ m68k' = m68k /\ WordInv(m68k)
      /\ exec.pc = rom.seeds[1].addr
      /\ \A a \in 1..(SuperTop - 1) : m68k.mem[a] = None
  BY DEF Emit, FlowInv, Running
<1>2. CASE ~truncated /\ Emittable
  <2>1. Fit
    BY <1>1, <1>2 DEF Fit
  <2>2. exec' = To("pending", exec.pc, None)
    BY <1>2 DEF Emit, Goto
  <2>3. PlaceInv(To("pending", exec.pc, None)) /\ To("pending", exec.pc, None).mode = "pending"
    BY <1>1, <2>1, VectorsEnter, PendingAt
  <2> QED BY <1>1, <2>1, <2>2, <2>3, FlowInvNext
<1>3. CASE ~(~truncated /\ Emittable)
  <2>1. exec' = To("refused", exec.pc, None)
    BY <1>3 DEF Emit, Goto
  <2>2. exec'.mode = "refused"
    BY <2>1 DEF To, State
  <2>3. WordInv(m68k)'
    BY <1>1, <2>1, SameProgram
  <2>4. InStacks(m68k)'
    BY DEF InStacks, UserPointer, SuperPointer
  <2> QED BY <1>1, <2>2, <2>3, <2>4 DEF FlowInv, Running
<1> QED BY <1>2, <1>3

LEMMA FlowInvStep ==
  ASSUME DiscoveryInv, ExecType, FlowInv, Translatable, ExecNext
  PROVE  FlowInv'
<1>1. UNCHANGED discoveryVars /\ InStacks(m68k')
  BY DEF ExecNext
<1>2. CASE Emit
  BY <1>1, <1>2, EmitInv
<1>3. ASSUME ~Emit PROVE Fit /\ Running /\ PlaceInv(exec)
  <2>1. Running
    BY <1>3 DEF ExecNext, Running, Executing, Dispatch, DispatchMiss, BudgetStop,
       YieldToHost, HostResumes, TakeInterrupt, ServiceReset, Plain, TakeBranch, Jump,
       Call, Return, Trap, Illegal, PrivilegeViolation, ToSr, ReturnFromException,
       Stop, StopReturns
  <2> QED BY <2>1 DEF Fit, FlowInv
<1> SUFFICES ASSUME ~Emit, Fit, PlaceInv(exec) PROVE FlowInv'
  BY <1>2, <1>3
<1>4. /\ m68k \in Cpu /\ InStacks(m68k) /\ WordInv(m68k) /\ rom \in Roms
      /\ TypeInv /\ RowInv /\ list \in Seq(Row) /\ exec.pc \in Nat
      /\ exec.last \in Nat \cup {None}
  BY DEF Fit, ExecType, FlowInv, DiscoveryInv, TypeInv, Placed, Places
<1>5. CASE Dispatch
  <2> DEFINE pc == exec.pc
  <2>1. PICK k \in Cases(pc) : exec' = State("body", k, pc, None)
    BY <1>5 DEF Dispatch
  <2>2. k \in DOMAIN list /\ list[k].addr = pc
    BY DEF Cases
  <2>3. Enters(pc) \/ InSomeTable(pc)
    BY <1>5 DEF Dispatch, PlaceInv, Computed
  <2>4. RowView(k) = rom.active
    BY <2>1, <2>2, <2>3 DEF Fit, Translatable
  <2>5. InBody(k, pc)
    <3>1. IsRun(k, EmitLimit, Body(k))
      BY <1>4, <2>2, BodyIsRun
    <3>2. Len(Body(k)) \in Nat /\ 1 \in 1..Len(Body(k)) /\ Body(k)[1] = pc
      BY <2>2, <3>1 DEF IsRun
    <3> QED BY <3>2 DEF InBody, Contains
  <2>6. Enters(pc)
    BY <1>4, <2>2, <2>4, CaseEnters
  <2> DEFINE e == State("body", k, pc, None)
  <2>7. e.mode = "body" /\ e.fn = k /\ e.pc = pc
    BY DEF State
  <2>8. exec' = e /\ m68k' = m68k
    BY <1>5, <2>1 DEF Dispatch
  <2> HIDE DEF e
  <2>9. PlaceInv(e)
    BY <2>4, <2>5, <2>6, <2>7 DEF PlaceInv
  <2> QED BY <1>1, <2>7, <2>8, <2>9, PassOnInv
<1>6. CASE DispatchMiss
  <2> DEFINE e == To("miss", exec.pc, exec.last)
  <2>1. exec' = e /\ m68k' = m68k /\ Cases(exec.pc) = {}
    BY <1>6 DEF DispatchMiss, Goto
  <2>2. e.mode = "miss" /\ e.pc = exec.pc /\ e.last = exec.last
    BY DEF To, State
  <2>3. ~Enters(exec.pc)
    BY <1>4, <2>1, EntersCode, HasCase DEF Fit
  <2>4. Computed(exec.last, exec.pc)
    BY <1>6, <2>3 DEF DispatchMiss, PlaceInv
  <2> HIDE DEF e
  <2>5. PlaceInv(e)
    BY <2>2, <2>3, <2>4 DEF PlaceInv
  <2> QED BY <1>1, <2>1, <2>2, <2>5, PassOnInv
<1>7. CASE BudgetStop \/ YieldToHost \/ HostResumes \/ StopReturns
  <2>1. PICK m \in {"pending", "host"}, l \in {exec.last, None} :
           /\ exec' = To(m, exec.pc, l) /\ m68k' = m68k
           /\ Enters(exec.pc) \/ Computed(l, exec.pc)
    BY <1>7 DEF BudgetStop, YieldToHost, HostResumes, StopReturns, Goto, PlaceInv
  <2> DEFINE e == To(m, exec.pc, l)
  <2>2. e.mode = m /\ e.pc = exec.pc /\ e.last = l
    BY DEF To, State
  <2>3. exec' = e
    BY <2>1
  <2> HIDE DEF e
  <2>4. PlaceInv(e) /\ e.mode \notin {"off", "refused"}
    BY <2>1, <2>2 DEF PlaceInv
  <2> QED BY <1>1, <2>1, <2>3, <2>4, PassOnInv
<1>8. CASE TakeInterrupt
  <2>1. Enters(exec.pc)
    BY <1>8 DEF TakeInterrupt, PlaceInv
  <2> QED BY <1>1, <1>4, <1>8, <2>1, ExceptionInv DEF TakeInterrupt, Causes
<1>9. CASE ServiceReset
  BY <1>1, <1>9, ResetInv
<1>10. ASSUME NEW ops, Executing(ops)
       PROVE  exec.mode = "body" /\ This.op \in ops
  BY <1>10 DEF Executing, This
<1>11. CASE Plain
  <2>1. /\ exec.mode = "body" /\ This.op \in {"plain", "cond", "check", "tosr"}
        /\ Retire(m68k, After, RunOn(After))
    BY <1>10, <1>11 DEF Plain
  <2>2. Enters(After) /\ PlaceInv(RunOn(After)) /\ RunOn(After).mode \notin {"off", "refused"}
    BY <2>1, RunsOnAt
  <2>3. After \in Nat
    BY <2>2, EntersCode DEF Fit
  <2> QED BY <1>1, <1>4, <2>1, <2>2, <2>3, RetireInv
<1>12. CASE TakeBranch
  <2>1. /\ exec.mode = "body" /\ This.op \in {"cond", "bra"}
        /\ Retire(m68k, This.target, Branch(This.target))
    BY <1>10, <1>12 DEF TakeBranch
  <2>2. /\ Enters(This.target) /\ PlaceInv(Branch(This.target))
        /\ Branch(This.target).mode \notin {"off", "refused"}
    BY <2>1, BranchAt
  <2>3. This.target \in Nat
    BY <2>2, EntersCode DEF Fit
  <2> QED BY <1>1, <1>4, <2>1, <2>2, <2>3, RetireInv
<1>13. ASSUME NEW c \in Cpu, InStacks(c), WordInv(c), NEW a \in Nat,
              DispatchTo(c, a), Enters(a) \/ Computed(exec.pc, a)
       PROVE  FlowInv'
  <2>1. /\ PlaceInv(To("pending", a, exec.pc))
        /\ To("pending", a, exec.pc).mode = "pending"
    BY <1>13, PendingAt
  <2>2. Enters(a) \/ InSomeTable(a)
    BY <1>13 DEF Computed
  <2>3. Retire(c, a, To("pending", a, exec.pc))
    BY <1>13 DEF DispatchTo
  <2> QED BY <1>1, <1>13, <2>1, <2>2, <2>3, RetireInv
<1>14. ASSUME exec.mode = "body", This.op \in {"ijmp", "icall"},
              NEW t \in ComputedTargets(This, rom.active)
       PROVE  t \in Nat /\ Computed(exec.pc, t)
  <2>1. /\ This = Code(rom, rom.active, exec.pc) /\ exec.pc # None /\ InSomeTable(t)
        /\ This.op # "bad"
    BY <1>14, ThisEnters
  <2>2. ComputedTargets(This, rom.active) \subseteq Nat
    BY <1>4, <1>14, ThisType DEF Fit
  <2> QED BY <1>14, <2>1, <2>2 DEF Computed
<1>15. ASSUME exec.mode = "body", This.op \in {"jmp", "call"}
       PROVE  This.target \in Nat /\ Enters(This.target)
  <2>1. Enters(This.target)
    BY <1>15, ThisEnters DEF JumpsTo
  <2> QED BY <2>1, EntersCode DEF Fit
<1>16. CASE Jump
  <2>1. exec.mode = "body" /\ This.op \in {"jmp", "ijmp"}
    BY <1>10, <1>16 DEF Jump
  <2>2. PICK t \in (IF This.op = "jmp" THEN {This.target}
                    ELSE ComputedTargets(This, rom.active)) :
           DispatchTo(m68k, t)
    BY <1>16 DEF Jump
  <2>3. t \in Nat /\ (Enters(t) \/ Computed(exec.pc, t))
    BY <1>14, <1>15, <2>1
  <2> QED BY <1>4, <1>13, <2>2, <2>3
<1>17. CASE Call
  <2>1. exec.mode = "body" /\ This.op \in {"call", "icall"}
    BY <1>10, <1>17 DEF Call
  <2>2. PICK t \in (IF This.op = "call" THEN {This.target}
                    ELSE ComputedTargets(This, rom.active)) :
           DispatchTo(Pushed(m68k, PcWord(After)), t)
    BY <1>17 DEF Call
  <2>3. t \in Nat /\ (Enters(t) \/ Computed(exec.pc, t))
    BY <1>14, <1>15, <2>1
  <2>4. LET c == Pushed(m68k, PcWord(After))
        IN  c \in Cpu /\ InStacks(c) /\ WordInv(c)
    BY <1>1, <2>1, <2>2, <2>3, CallInv DEF DispatchTo
  <2> QED BY <1>13, <2>2, <2>3, <2>4
<1>18. CASE Return
  <2> DEFINE a == m68k.mem[m68k.a7][2]
  <2>1. DispatchTo(Popped(m68k), a) /\ IsTop(m68k, "pc")
    BY <1>18 DEF Return
  <2>2. a \in Nat
    BY <1>4, <2>1, TopType
  <2> HIDE DEF a
  <2>3. InStacks(Popped(m68k)) /\ WordInv(Popped(m68k)) /\ Popped(m68k) \in Cpu /\ Enters(a)
    BY <1>1, <2>1, <2>2, ReturnInv DEF DispatchTo, a
  <2> QED BY <1>13, <2>1, <2>2, <2>3
<1>19. CASE Trap
  <2>1. /\ exec.mode = "body" /\ This.op \in {"trap", "check"}
        /\ DispatchTo(ng_push_exception_frame(m68k, After), rom.vector["trap"])
    BY <1>10, <1>19 DEF Trap
  <2>2. rom.vector["trap"] \in Nat /\ Enters(rom.vector["trap"])
    BY <1>4, EntryType, VectorsEnter DEF Causes
  <2>3. LET c == ng_push_exception_frame(m68k, After)
        IN  c \in Cpu /\ InStacks(c) /\ WordInv(c)
    BY <1>1, <2>1, <2>2, TrapInv DEF DispatchTo
  <2> QED BY <1>13, <2>1, <2>2, <2>3
<1>20. CASE Illegal
  <2>1. exec.mode = "body" /\ This.op = "illegal"
    BY <1>10, <1>20 DEF Illegal
  <2>2. After \in Next(This, exec.pc)
    BY <2>1 DEF Next, After
  <2>3. Enters(After)
    BY <2>1, <2>2, ThisEnters
  <2>4. After \in Nat
    BY <2>3, EntersCode DEF Fit
  <2> QED BY <1>1, <1>20, <2>3, <2>4, ExceptionInv DEF Illegal, Causes
<1>21. CASE PrivilegeViolation
  <2>1. Enters(exec.pc)
    BY <1>10, <1>21, ThisEnters DEF PrivilegeViolation
  <2> QED BY <1>1, <1>4, <1>21, <2>1, ExceptionInv DEF PrivilegeViolation, Causes
<1>22. CASE ToSr
  <2>1. /\ exec.mode = "body" /\ This.op = "tosr"
        /\ Retire(ng_set_sr(m68k, This.target), After, RunOn(After))
    BY <1>10, <1>22 DEF ToSr
  <2>2. Enters(After) /\ PlaceInv(RunOn(After)) /\ RunOn(After).mode \notin {"off", "refused"}
    BY <2>1, RunsOnAt
  <2>3. After \in Nat /\ This.target \in Nat
    BY <1>4, <2>1, ThisType DEF Fit
  <2> QED BY <1>1, <2>1, <2>2, <2>3, SetSrInv, RetireInv
<1>23. CASE ReturnFromException
  <2> DEFINE s == m68k.mem[m68k.a7][2]
             p == m68k.mem[m68k.a7 + 1][2]
             c == ng_set_sr(Popped(Popped(m68k)), s)
  <2>1. /\ exec.mode = "body" /\ This.op = "rte" /\ DispatchTo(c, p)
        /\ Supervisor(m68k.sr) /\ IsTop(m68k, "sr") /\ IsTop(Popped(m68k), "pc")
    BY <1>10, <1>23 DEF ReturnFromException
  <2>2. c \in Cpu /\ InStacks(c) /\ WordInv(c) /\ p \in Nat /\ (Enters(p) \/ InSomeTable(p))
    BY <2>1, ResumeInv
  <2> HIDE DEF c, p
  <2>3. Enters(p) \/ Computed(exec.pc, p)
    BY <2>1, <2>2, ThisEnters DEF Computed
  <2> QED BY <1>13, <2>1, <2>2, <2>3
<1>24. CASE Stop
  <2> DEFINE e == To("stopped", After, exec.pc)
  <2>1. /\ exec.mode = "body" /\ This.op = "stop"
        /\ Retire(ng_set_sr(m68k, This.target), After, e)
    BY <1>10, <1>24 DEF Stop
  <2>2. After \in Next(This, exec.pc)
    BY <2>1 DEF Next, After
  <2>3. Enters(After)
    BY <2>1, <2>2, ThisEnters
  <2>4. After \in Nat /\ This.target \in Nat
    BY <1>4, <2>1, ThisType DEF Fit
  <2>5. e.mode = "stopped" /\ e.pc = After
    BY DEF To, State
  <2> HIDE DEF e
  <2>6. PlaceInv(e)
    BY <2>3, <2>5 DEF PlaceInv
  <2> QED BY <1>1, <2>1, <2>3, <2>4, <2>5, <2>6, SetSrInv, RetireInv
<1> QED BY <1>5, <1>6, <1>7, <1>8, <1>9, <1>11, <1>12, <1>16, <1>17, <1>18, <1>19,
           <1>20, <1>21, <1>22, <1>23, <1>24 DEF ExecNext

\* Discovery is over when the program runs.
LEMMA FlowInvDiscovery ==
  ASSUME DiscoveryInv, FlowInv, ExecType, [DiscoveryNext]_discoveryVars, UNCHANGED execVars
  PROVE  FlowInv'
<1>1. exec' = exec /\ m68k' = m68k
  BY DEF execVars
<1>2. CASE Running
  <2>1. phase = "done" /\ ~truncated /\ todo = <<>>
    BY <1>2 DEF FlowInv, DiscoveryInv, WorkInv
  <2>2. UNCHANGED discoveryVars
    BY <2>1 DEF DiscoveryNext, AddNext, ScanInstruction, ScanMeetsBadCode,
       ScanLimitReached, Scanning, SeedsDone, PickAhead, PickBehind, Choosing,
       ScriptPass, ScriptPassDone, Finish
  <2>3. PlaceInv(exec)' /\ WordInv(m68k)' /\ Emittable'
    BY <1>1, <1>2, <2>2, SameProgram DEF FlowInv
  <2>4. UNCHANGED <<rom, phase, truncated>>
    BY <2>2 DEF discoveryVars
  <2> QED BY <1>1, <2>3, <2>4 DEF FlowInv, Running, InStacks, UserPointer, SuperPointer
<1>3. CASE ~Running
  <2>1. rom' = rom
    <3>1. CASE AddNext
      BY <3>1, Addition DEF DiscoveryInv
    <3>2. CASE ~AddNext
      BY <3>2, ListKept
    <3> QED BY <3>1, <3>2
  <2>2. \A a \in 1..(SuperTop - 1) : m68k.mem[a] = None
    BY <1>3 DEF FlowInv
  <2>3. \A a \in 1..(UserTop - 1) : a \in 1..(SuperTop - 1)
    BY TopsType
  <2>4. \A a \in UserTop..(SuperTop - 1) : a \in 1..(SuperTop - 1)
    BY TopsType
  <2>5. WordInv(m68k)'
    BY <1>1, <2>2, <2>3, <2>4 DEF WordInv, Carries
  <2> QED BY <1>1, <1>3, <2>1, <2>2, <2>5
          DEF FlowInv, Running, InStacks, UserPointer, SuperPointer
<1> QED BY <1>2, <1>3

LEMMA FlowInvInit ==
  ASSUME ProgramInit
  PROVE  FlowInv
<1>1. /\ exec = State("off", 0, rom.seeds[1].addr, None)
      /\ m68k = [sr |-> Handling, a7 |-> SuperTop, usp |-> UserTop, ssp |-> SuperTop,
                 mem |-> [a \in 1..(SuperTop - 1) |-> None]]
  BY DEF ProgramInit
<1>2. exec.mode = "off" /\ exec.pc = rom.seeds[1].addr
  BY <1>1 DEF State
<1>3. Supervisor(m68k.sr) /\ m68k.a7 = SuperTop /\ m68k.usp = UserTop
      /\ \A a \in 1..(SuperTop - 1) : m68k.mem[a] = None
  BY <1>1 DEF Supervisor, Handling
<1>4. InStacks(m68k)
  BY <1>3, TopsType DEF InStacks, UserPointer, SuperPointer
<1>5. \A a \in 1..(UserTop - 1) : a \in 1..(SuperTop - 1)
  BY TopsType
<1>6. \A a \in UserTop..(SuperTop - 1) : a \in 1..(SuperTop - 1)
  BY TopsType
<1>7. WordInv(m68k)
  BY <1>3, <1>5, <1>6 DEF WordInv, Carries
<1> QED BY <1>2, <1>3, <1>4, <1>7 DEF FlowInv, Running

LEMMA ProgramInvariant ==
  ProgramSpec /\ []Translatable => []DiscoveryInv /\ []ExecType /\ []FlowInv
<1>1. ProgramInit => FlowInv
  BY FlowInvInit
<1>2. /\ DiscoveryInv /\ ExecType /\ FlowInv /\ Translatable /\ [ProgramNext]_vars
      => FlowInv'
  <2> SUFFICES ASSUME DiscoveryInv, ExecType, FlowInv, Translatable, [ProgramNext]_vars
               PROVE  FlowInv'
    OBVIOUS
  <2>1. CASE ExecNext
    BY <2>1, FlowInvStep
  <2>2. CASE ~ExecNext
    <3>1. UNCHANGED execVars /\ [DiscoveryNext]_discoveryVars
      BY <2>2 DEF ProgramNext, vars
    <3> QED BY <3>1, FlowInvDiscovery
  <2> QED BY <2>1, <2>2
<1> QED BY <1>1, <1>2, ProgramTypes, PTL DEF ProgramSpec

\* For every program, capacity and limit: when no body is cut off, the bank
\* that is in comes first, and vectors, static transfers and returns lead to
\* code, then the only address the dispatch loop can fail to find is one
\* computed at run time out of a table, also after interrupts, traces, resets,
\* yields and exhausted budgets.
THEOREM OnlyComputedTransfersMiss ==
  ProgramSpec /\ []Translatable => []OnlyComputedMiss
<1>1. FlowInv => OnlyComputedMiss
  BY DEF FlowInv, Running, PlaceInv, OnlyComputedMiss, Computed, InSomeTable, Enters, Node
<1> QED BY <1>1, ProgramInvariant, PTL

-----------------------------------------------------------------------------
(* The 68000 that the generated code stands for.                           *)

\* The words from place p up to top, the oldest first.
WordsOf(c, top, p) == [k \in 1..(top - p) |-> c.mem[top - k]]

Machine(pc, c) == [pc    |-> pc,
                   sr    |-> c.sr,
                   user  |-> WordsOf(c, UserTop, UserPointer(c)),
                   super |-> WordsOf(c, SuperTop, SuperPointer(c))]

LEMMA WordsSame ==
  ASSUME NEW c, NEW d, NEW top \in Int, NEW p \in Int,
         \A a \in p..(top - 1) : d.mem[a] = c.mem[a]
  PROVE  WordsOf(d, top, p) = WordsOf(c, top, p)
<1>1. \A k \in 1..(top - p) : top - k \in p..(top - 1)
  OBVIOUS
<1> QED BY <1>1 DEF WordsOf

\* The words between p and the top, the last pushed last.
Stacked(w, c, top, p) ==
  /\ Len(w) = top - p
  /\ \A k \in 1..(top - p) : w[k] = c.mem[top - k]
  /\ \E S : w \in Seq(S)

LEMMA WordsLen ==
  ASSUME NEW c, NEW top \in Int, NEW p \in Int, p <= top
  PROVE  Stacked(WordsOf(c, top, p), c, top, p)
<1> DEFINE w == WordsOf(c, top, p)
           S == {c.mem[top - k] : k \in 1..(top - p)}
<1>1. top - p \in Nat
  OBVIOUS
<1>2. w = [k \in 1..(top - p) |-> c.mem[top - k]]
  BY DEF WordsOf
<1>3. w \in Seq(S) /\ Len(w) = top - p
  <2>1. PICK n \in Nat : n = top - p
    BY <1>1
  <2>2. w = [k \in 1..n |-> w[k]] /\ \A k \in 1..n : w[k] \in S
    BY <1>2, <2>1
  <2> HIDE DEF w, S
  <2>3. w \in Seq(S) /\ Len(w) = n
    BY <2>2
  <2> QED BY <2>1, <2>3
<1> QED BY <1>2, <1>3 DEF Stacked

\* The memories agree from p up to top.
SameFrom(c, d, p, top) == \A a \in p..(top - 1) : d.mem[a] = c.mem[a]

\* Append, kept from the provers where what it does is not wanted.
Put(s, w) == Append(s, w)

LEMMA WordsPushed ==
  ASSUME NEW c, NEW d, NEW top \in Int, NEW p \in Int, p <= top,
         SameFrom(c, d, p, top)
  PROVE  WordsOf(d, top, p - 1) = Put(WordsOf(c, top, p), d.mem[p - 1])
<1> DEFINE u == WordsOf(c, top, p)
           v == WordsOf(d, top, p - 1)
           w == d.mem[p - 1]
<1>0. Stacked(u, c, top, p) /\ Stacked(v, d, top, p - 1)
  <2>1. p - 1 \in Int /\ p - 1 <= top
    OBVIOUS
  <2> QED BY <2>1, WordsLen
<1> HIDE DEF u, v
<1>1. Len(u) = top - p /\ \A k \in 1..(top - p) : u[k] = c.mem[top - k]
  BY <1>0 DEF Stacked
<1>2. PICK S : u \in Seq(S)
  BY <1>0 DEF Stacked
<1>3. Len(v) = (top - p) + 1 /\ \A k \in 1..((top - p) + 1) : v[k] = d.mem[top - k]
  <2>1. top - (p - 1) = (top - p) + 1
    OBVIOUS
  <2> QED BY <1>0, <2>1 DEF Stacked
<1>4. PICK T : v \in Seq(T)
  BY <1>0 DEF Stacked
<1> HIDE DEF u, v, w
<1>5. Len(Append(u, w)) = (top - p) + 1 /\ Append(u, w) \in Seq(S \cup {w})
  <2>1. u \in Seq(S \cup {w})
    BY <1>2
  <2> QED BY <1>1, <2>1
<1>6. ASSUME NEW k \in 1..((top - p) + 1) PROVE v[k] = Append(u, w)[k]
  <2>1. CASE k = (top - p) + 1
    <3>1. top - k = p - 1
      BY <2>1
    <3>2. Append(u, w)[k] = w
      BY <1>1, <1>2, <2>1
    <3> QED BY <1>3, <3>1, <3>2 DEF w
  <2>2. CASE k # (top - p) + 1
    <3>1. k \in 1..(top - p) /\ top - k \in p..(top - 1)
      BY <2>2
    <3>2. Append(u, w)[k] = u[k]
      BY <1>1, <1>2, <3>1
    <3> QED BY <1>1, <1>3, <3>1, <3>2 DEF SameFrom
  <2> QED BY <2>1, <2>2
<1>7. v = Append(u, w)
  BY <1>3, <1>4, <1>5, <1>6
<1> QED BY <1>7 DEF u, v, w, Put

LEMMA WordsPopped ==
  ASSUME NEW c, NEW d, NEW top \in Int, NEW p \in Int, p < top,
         SameFrom(c, d, p + 1, top)
  PROVE  LET w == WordsOf(c, top, p)
         IN  /\ WordsOf(d, top, p + 1) = Flow!Front(w)
             /\ Flow!Top(w) = c.mem[p] /\ w # <<>>
<1> DEFINE u == WordsOf(c, top, p)
           v == WordsOf(d, top, p + 1)
<1>0. Stacked(u, c, top, p) /\ Stacked(v, d, top, p + 1)
  <2>1. p <= top /\ p + 1 \in Int /\ p + 1 <= top
    OBVIOUS
  <2> QED BY <2>1, WordsLen
<1> HIDE DEF u, v
<1>1. Len(u) = top - p /\ \A k \in 1..(top - p) : u[k] = c.mem[top - k]
  BY <1>0 DEF Stacked
<1>2. PICK S : u \in Seq(S)
  BY <1>0 DEF Stacked
<1>3. Len(v) = (top - p) - 1 /\ \A k \in 1..((top - p) - 1) : v[k] = d.mem[top - k]
  <2>1. top - (p + 1) = (top - p) - 1
    OBVIOUS
  <2> QED BY <1>0, <2>1 DEF Stacked
<1>4. PICK T : v \in Seq(T)
  BY <1>0 DEF Stacked
<1>5. u[Len(u)] = c.mem[p] /\ u # <<>>
  <2>1. top - p \in 1..(top - p) /\ top - (top - p) = p
    OBVIOUS
  <2> QED BY <1>1, <1>2, <2>1
<1> DEFINE f == SubSeq(u, 1, Len(u) - 1)
<1>6. f \in Seq(S) /\ Len(f) = (top - p) - 1
      /\ \A k \in 1..((top - p) - 1) : f[k] = u[k]
  BY <1>1, <1>2
<1>7. ASSUME NEW k \in 1..((top - p) - 1) PROVE v[k] = f[k]
  <2>1. k \in 1..(top - p) /\ top - k \in (p + 1)..(top - 1)
    OBVIOUS
  <2> QED BY <1>1, <1>3, <1>6, <2>1 DEF SameFrom
<1> HIDE DEF f
<1>8. v = f
  BY <1>3, <1>4, <1>6, <1>7
<1> QED BY <1>1, <1>5, <1>8 DEF u, v, f, Flow!Front, Flow!Top

LEMMA MachineSetSr ==
  ASSUME NEW c \in Cpu, NEW v \in Nat, NEW p
  PROVE  Machine(p, ng_set_sr(c, v)) = [Machine(p, c) EXCEPT !.sr = v]
<1>1. LET d == ng_set_sr(c, v)
      IN  /\ d.sr = v /\ d.mem = c.mem
          /\ UserPointer(d) = UserPointer(c) /\ SuperPointer(d) = SuperPointer(c)
  BY SetSrKeeps
<1>2. \A top, q : WordsOf(ng_set_sr(c, v), top, q) = WordsOf(c, top, q)
  BY <1>1 DEF WordsOf
<1> QED BY <1>1, <1>2 DEF Machine

\* Where the pointers are.
LEMMA Pointers ==
  ASSUME NEW c \in Cpu, InStacks(c)
  PROVE  /\ UserPointer(c) \in Int /\ SuperPointer(c) \in Int
         /\ 1 <= UserPointer(c) /\ UserPointer(c) <= UserTop
         /\ UserTop <= SuperPointer(c) /\ SuperPointer(c) <= SuperTop
         /\ UserTop \in Int /\ SuperTop \in Int
  BY PointerType, TopsType DEF InStacks

LEMMA MachinePush ==
  ASSUME NEW c \in Cpu, NEW w, Pushed(c, w) \in Cpu, InStacks(c), InStacks(Pushed(c, w)), NEW p
  PROVE  Machine(p, Pushed(c, w)) = Flow!Push(Machine(p, c), w)
<1> DEFINE d == Pushed(c, w)
           u == UserPointer(c)
           s == SuperPointer(c)
<1>1. /\ d.sr = c.sr
      /\ Supervisor(c.sr) => SuperPointer(d) = s - 1 /\ UserPointer(d) = u /\ c.a7 = s
      /\ ~Supervisor(c.sr) => UserPointer(d) = u - 1 /\ SuperPointer(d) = s /\ c.a7 = u
      /\ \A a \in 1..(SuperTop - 1) : d.mem[a] = IF a = c.a7 - 1 THEN w ELSE c.mem[a]
  BY PushMoves
<1>2. /\ u \in Int /\ s \in Int /\ UserTop \in Int /\ SuperTop \in Int
      /\ 1 <= u /\ u <= UserTop /\ UserTop <= s /\ s <= SuperTop
  BY Pointers
<1>3. 1 <= UserPointer(d) /\ UserTop <= SuperPointer(d)
  BY Pointers
<1>4. /\ Machine(p, c) = [pc |-> p, sr |-> c.sr, user |-> WordsOf(c, UserTop, u),
                          super |-> WordsOf(c, SuperTop, s)]
      /\ Machine(p, d) = [pc |-> p, sr |-> d.sr, user |-> WordsOf(d, UserTop, UserPointer(d)),
                          super |-> WordsOf(d, SuperTop, SuperPointer(d))]
  BY DEF Machine
<1>5. ASSUME NEW x PROVE Flow!Push(x, w) = IF Supervisor(x.sr)
                                           THEN [x EXCEPT !.super = Put(x.super, w)]
                                           ELSE [x EXCEPT !.user = Put(x.user, w)]
  BY DEF Flow!Push, Flow!Supervisor, Supervisor, Put
<1> HIDE DEF d, u, s
<1>6. CASE Supervisor(c.sr)
  <2>1. WordsOf(d, SuperTop, s - 1) = Put(WordsOf(c, SuperTop, s), w)
    <3>1. d.mem[s - 1] = w /\ SameFrom(c, d, s, SuperTop)
      BY <1>1, <1>2, <1>3, <1>6 DEF SameFrom
    <3>2. s - 1 \in Int
      BY <1>2
    <3>3. WordsOf(d, SuperTop, s - 1) = Put(WordsOf(c, SuperTop, s), d.mem[s - 1])
      BY <1>2, <3>1, <3>2, WordsPushed
    <3> QED BY <3>1, <3>3
  <2>2. WordsOf(d, UserTop, u) = WordsOf(c, UserTop, u)
    <3>1. \A a \in u..(UserTop - 1) : d.mem[a] = c.mem[a]
      BY <1>1, <1>2, <1>3, <1>6
    <3> QED BY <1>2, <3>1, WordsSame
  <2> QED BY <1>1, <1>4, <1>5, <1>6, <2>1, <2>2 DEF d
<1>7. CASE ~Supervisor(c.sr)
  <2>1. WordsOf(d, UserTop, u - 1) = Put(WordsOf(c, UserTop, u), w)
    <3>1. d.mem[u - 1] = w /\ SameFrom(c, d, u, UserTop)
      BY <1>1, <1>2, <1>3, <1>7 DEF SameFrom
    <3>2. u - 1 \in Int
      BY <1>2
    <3>3. WordsOf(d, UserTop, u - 1) = Put(WordsOf(c, UserTop, u), d.mem[u - 1])
      BY <1>2, <3>1, <3>2, WordsPushed
    <3> QED BY <3>1, <3>3
  <2>2. WordsOf(d, SuperTop, s) = WordsOf(c, SuperTop, s)
    <3>1. \A a \in s..(SuperTop - 1) : d.mem[a] = c.mem[a]
      BY <1>1, <1>2, <1>3, <1>7
    <3> QED BY <1>2, <3>1, WordsSame
  <2> QED BY <1>1, <1>4, <1>5, <1>7, <2>1, <2>2 DEF d
<1> QED BY <1>6, <1>7

LEMMA PutTwice ==
  ASSUME NEW S, NEW q \in Seq(S), NEW x, NEW y
  PROVE  Put(Put(q, x), y) = q \o <<x, y>>
<1>1. ASSUME NEW T, NEW r \in Seq(T), NEW v, NEW w
      PROVE  Append(Append(r, v), w) = r \o <<v, w>>
  BY <1>1
<1> QED BY <1>1 DEF Put

LEMMA MachineFrame ==
  ASSUME NEW c \in Cpu, NEW a \in Nat, InStacks(c),
         InStacks(ng_push_exception_frame(c, a)), NEW cause
  PROVE  Machine(rom.vector[cause], ng_push_exception_frame(c, a))
            = Flow!Exception(Machine(a, c), cause)
<1> DEFINE d == ng_push_exception_frame(c, a)
           u == UserPointer(c)
           s == SuperPointer(c)
           h == [mem |-> [b \in 1..(SuperTop - 1) |->
                             IF b = s - 1 THEN PcWord(a) ELSE c.mem[b]]]
<1>1. /\ d.sr = Handling /\ UserPointer(d) = u /\ SuperPointer(d) = s - 2
      /\ \A b \in 1..(SuperTop - 1) :
            d.mem[b] = IF b = s - 2 THEN SrWord(c.sr)
                       ELSE IF b = s - 1 THEN PcWord(a) ELSE c.mem[b]
  BY FrameMoves
<1>2. /\ u \in Int /\ s \in Int /\ UserTop \in Int /\ SuperTop \in Int
      /\ 1 <= u /\ u <= UserTop /\ UserTop <= s /\ s <= SuperTop
  BY Pointers
<1>3. d \in Cpu
  BY FrameType
<1>4. UserTop <= SuperPointer(d)
  BY <1>3, Pointers
<1>5. \A b \in 1..(SuperTop - 1) : h.mem[b] = IF b = s - 1 THEN PcWord(a) ELSE c.mem[b]
  OBVIOUS
<1> DEFINE w == WordsOf(c, SuperTop, s)
           x == PcWord(a)
           y == SrWord(c.sr)
<1>6. Machine(a, c) = [pc |-> a, sr |-> c.sr, user |-> WordsOf(c, UserTop, u), super |-> w]
  BY DEF Machine
<1>7. Flow!Exception(Machine(a, c), cause)
        = [pc |-> rom.vector[cause], sr |-> Handling, user |-> WordsOf(c, UserTop, u),
           super |-> w \o <<x, y>>]
  <2> DEFINE m == Machine(a, c)
             t == w \o <<x, y>>
             p == rom.vector[cause]
  <2>1. Flow!Exception(m, cause)
          = [m EXCEPT !.pc = p, !.sr = Handling, !.super = m.super \o <<PcWord(m.pc), SrWord(m.sr)>>]
    BY DEF Flow!Exception, Flow!Handling, Handling, Flow!PcWord, Flow!SrWord, PcWord, SrWord
  <2>2. m.super \o <<PcWord(m.pc), SrWord(m.sr)>> = t
    BY <1>6
  <2>3. m = [pc |-> a, sr |-> c.sr, user |-> WordsOf(c, UserTop, u), super |-> w]
    BY <1>6
  <2> HIDE DEF m, t, p
  <2>4. [m EXCEPT !.pc = p, !.sr = Handling, !.super = t]
          = [pc |-> p, sr |-> Handling, user |-> WordsOf(c, UserTop, u), super |-> t]
    <3> DEFINE m1 == [m EXCEPT !.pc = p]
               m2 == [m1 EXCEPT !.sr = Handling]
    <3>1. m1 = [pc |-> p, sr |-> c.sr, user |-> WordsOf(c, UserTop, u), super |-> w]
      BY <2>3
    <3> HIDE DEF m1
    <3>2. m2 = [pc |-> p, sr |-> Handling, user |-> WordsOf(c, UserTop, u), super |-> w]
      BY <3>1
    <3> HIDE DEF m2
    <3>3. [m2 EXCEPT !.super = t]
            = [pc |-> p, sr |-> Handling, user |-> WordsOf(c, UserTop, u), super |-> t]
      BY <3>2
    <3> QED BY <3>3, Zenon DEF m1, m2
  <2> QED BY <2>1, <2>2, <2>4 DEF m, t, p
<1> HIDE DEF d, u, s, h, x, y, w
<1>8. WordsOf(h, SuperTop, s - 1) = Put(w, x)
  <2>1. h.mem[s - 1] = x /\ SameFrom(c, h, s, SuperTop)
    BY <1>1, <1>2, <1>4, <1>5 DEF x, SameFrom
  <2>2. s - 1 \in Int
    BY <1>2
  <2>3. WordsOf(h, SuperTop, s - 1) = Put(WordsOf(c, SuperTop, s), h.mem[s - 1])
    BY <1>2, <2>1, <2>2, WordsPushed
  <2> QED BY <2>1, <2>3 DEF w
<1>9. WordsOf(d, SuperTop, s - 2) = Put(WordsOf(h, SuperTop, s - 1), y)
  <2>1. d.mem[s - 2] = y /\ SameFrom(h, d, s - 1, SuperTop)
    BY <1>1, <1>2, <1>4, <1>5 DEF y, SameFrom
  <2>2. s - 1 \in Int /\ s - 1 <= SuperTop /\ s - 2 \in Int /\ s - 2 = (s - 1) - 1
    BY <1>2
  <2>3. WordsOf(d, SuperTop, s - 2) = Put(WordsOf(h, SuperTop, s - 1), d.mem[s - 2])
    BY <1>2, <2>1, <2>2, WordsPushed
  <2> QED BY <2>1, <2>3
<1>10. WordsOf(d, SuperTop, s - 2) = w \o <<x, y>>
  <2>1. PICK S : w \in Seq(S)
    BY <1>2, WordsLen DEF w, Stacked
  <2>2. Put(Put(w, x), y) = w \o <<x, y>>
    BY <2>1, PutTwice
  <2> QED BY <1>8, <1>9, <2>2
<1>11. WordsOf(d, UserTop, u) = WordsOf(c, UserTop, u)
  <2>1. \A b \in u..(UserTop - 1) : d.mem[b] = c.mem[b]
    BY <1>1, <1>2, <1>4
  <2> QED BY <1>2, <2>1, WordsSame
<1>12. Machine(rom.vector[cause], d)
        = [pc |-> rom.vector[cause], sr |-> Handling, user |-> WordsOf(c, UserTop, u),
           super |-> w \o <<x, y>>]
  BY <1>1, <1>10, <1>11, Zenon DEF Machine
<1> QED BY <1>7, <1>12, Zenon DEF d

\* A word taken off the stack in use.
LEMMA MachinePop ==
  ASSUME NEW c \in Cpu, InStacks(c), InStacks(Popped(c)), NEW p
  PROVE  LET m == Machine(p, c)
         IN  IF Supervisor(c.sr)
             THEN /\ m.super # <<>> /\ Flow!Top(m.super) = c.mem[c.a7]
                  /\ Machine(p, Popped(c)) = [m EXCEPT !.super = Flow!Front(m.super)]
             ELSE /\ m.user # <<>> /\ Flow!Top(m.user) = c.mem[c.a7]
                  /\ Machine(p, Popped(c)) = [m EXCEPT !.user = Flow!Front(m.user)]
<1> DEFINE d == Popped(c)
           u == UserPointer(c)
           s == SuperPointer(c)
           m == Machine(p, c)
<1>1. /\ d.sr = c.sr
      /\ Supervisor(c.sr) => SuperPointer(d) = s + 1 /\ UserPointer(d) = u /\ c.a7 = s
      /\ ~Supervisor(c.sr) => UserPointer(d) = u + 1 /\ SuperPointer(d) = s /\ c.a7 = u
      /\ \A a \in 1..(SuperTop - 1) : d.mem[a] = IF a = c.a7 THEN None ELSE c.mem[a]
  BY PopMoves
<1>2. /\ u \in Int /\ s \in Int /\ UserTop \in Int /\ SuperTop \in Int
      /\ 1 <= u /\ u <= UserTop /\ UserTop <= s /\ s <= SuperTop
  BY Pointers
<1>3. d \in Cpu
  BY PopType
<1>4. UserPointer(d) <= UserTop /\ SuperPointer(d) <= SuperTop
  BY <1>3, Pointers
<1>5. /\ m = [pc |-> p, sr |-> c.sr, user |-> WordsOf(c, UserTop, u),
              super |-> WordsOf(c, SuperTop, s)]
      /\ Machine(p, d) = [pc |-> p, sr |-> d.sr, user |-> WordsOf(d, UserTop, UserPointer(d)),
                          super |-> WordsOf(d, SuperTop, SuperPointer(d))]
  BY DEF Machine
<1> HIDE DEF d, u, s, m
<1>6. CASE Supervisor(c.sr)
  <2> DEFINE w == WordsOf(c, SuperTop, s)
  <2>1. WordsOf(d, SuperTop, s + 1) = Flow!Front(w) /\ Flow!Top(w) = c.mem[s] /\ w # <<>>
    <3>1. s < SuperTop /\ SameFrom(c, d, s + 1, SuperTop)
      BY <1>1, <1>2, <1>4, <1>6 DEF SameFrom
    <3>2. s + 1 \in Int
      BY <1>2
    <3> QED BY <1>2, <3>1, <3>2, WordsPopped, SMTT(60)
  <2>2. WordsOf(d, UserTop, u) = WordsOf(c, UserTop, u)
    <3>1. \A a \in u..(UserTop - 1) : d.mem[a] = c.mem[a]
      BY <1>1, <1>2, <1>4, <1>6
    <3> QED BY <1>2, <3>1, WordsSame
  <2> HIDE DEF w
  <2>3. m.super = w /\ c.a7 = s
    BY <1>1, <1>5, <1>6 DEF w
  <2>4. Machine(p, d) = [m EXCEPT !.super = Flow!Front(w)]
    BY <1>1, <1>5, <1>6, <2>1, <2>2 DEF w
  <2> QED BY <1>6, <2>1, <2>3, <2>4 DEF m, d
<1>7. CASE ~Supervisor(c.sr)
  <2> DEFINE w == WordsOf(c, UserTop, u)
  <2>1. WordsOf(d, UserTop, u + 1) = Flow!Front(w) /\ Flow!Top(w) = c.mem[u] /\ w # <<>>
    <3>1. u < UserTop /\ SameFrom(c, d, u + 1, UserTop)
      BY <1>1, <1>2, <1>4, <1>7 DEF SameFrom
    <3>2. u + 1 \in Int
      BY <1>2
    <3> QED BY <1>2, <3>1, <3>2, WordsPopped, SMTT(60)
  <2>2. WordsOf(d, SuperTop, s) = WordsOf(c, SuperTop, s)
    <3>1. \A a \in s..(SuperTop - 1) : d.mem[a] = c.mem[a]
      BY <1>1, <1>2, <1>4, <1>7
    <3> QED BY <1>2, <3>1, WordsSame
  <2> HIDE DEF w
  <2>3. m.user = w /\ c.a7 = u
    BY <1>1, <1>5, <1>7 DEF w
  <2>4. Machine(p, d) = [m EXCEPT !.user = Flow!Front(w)]
    BY <1>1, <1>5, <1>7, <2>1, <2>2 DEF w
  <2> QED BY <1>7, <2>1, <2>3, <2>4 DEF m, d
<1> QED BY <1>6, <1>7

-----------------------------------------------------------------------------
(* One instruction of the generated code is one of the 68000.              *)

Now == Machine(exec.pc, m68k)

LEMMA MachineAt ==
  ASSUME NEW a, NEW p, NEW c
  PROVE  Machine(a, c) = Flow!At(Machine(p, c), a)
<1>1. ASSUME NEW x, NEW y, NEW z, NEW m, m = [pc |-> p, sr |-> x, user |-> y, super |-> z]
      PROVE  [m EXCEPT !.pc = a] = [pc |-> a, sr |-> x, user |-> y, super |-> z]
  BY <1>1
<1> QED BY <1>1, Zenon DEF Machine, Flow!At

LEMMA NowIs ==
  /\ Now = [pc |-> exec.pc, sr |-> m68k.sr, user |-> Words(UserTop, UserPointer(m68k)),
            super |-> Words(SuperTop, SuperPointer(m68k))]
  /\ Now.pc = exec.pc /\ Now.sr = m68k.sr
  BY DEF Now, Machine, WordsOf, Words

LEMMA SameCode ==
  ASSUME NEW r, NEW v, NEW a
  PROVE  Flow!Code(r, v, a) = Code(r, v, a)
  BY DEF Flow!Code, Code, Flow!NoInstr, NoInstr, Flow!Instr, Instr

LEMMA SameStatus ==
  ASSUME NEW x
  PROVE  /\ Flow!Supervisor(x) = Supervisor(x) /\ Flow!Tracing(x) = Tracing(x)
         /\ Flow!Handling = Handling /\ Flow!PcWord(x) = PcWord(x) /\ Flow!SrWord(x) = SrWord(x)
  BY DEF Flow!Supervisor, Supervisor, Flow!Tracing, Tracing, Flow!Handling, Handling,
         Flow!PcWord, PcWord, Flow!SrWord, SrWord

\* The instruction the 68000 is at, and what it can make of the machine.
LEMMA HereIs ==
  ASSUME Fit, exec.mode = "body"
  PROVE  /\ Flow!Here = This
         /\ Flow!Refused <=> This.op = "illegal"
                             \/ (This.op \in {"tosr", "stop", "rte"} /\ ~Supervisor(m68k.sr))
<1>1. This = Code(rom, rom.active, exec.pc)
  BY ThisEnters
<1>2. Flow!Here = This
  BY <1>1, SameCode DEF Flow!Here
<1> QED BY <1>2, SameStatus DEF Flow!Refused, Flow!Privileged

LEMMA ExecutedIs ==
  ASSUME Fit, exec.mode = "body"
  PROVE  /\ This.op \in {"plain", "check"} => Flow!At(Now, After) \in Flow!Executed
         /\ This.op = "cond" => /\ Flow!At(Now, After) \in Flow!Executed
                                /\ Flow!At(Now, This.target) \in Flow!Executed
         /\ This.op \in {"bra", "jmp"} => Flow!At(Now, This.target) \in Flow!Executed
         /\ This.op = "ijmp" => \A t \in ComputedTargets(This, rom.active) :
               Flow!At(Now, t) \in Flow!Executed
         /\ This.op = "call" =>
               Flow!At(Flow!Push(Now, PcWord(After)), This.target) \in Flow!Executed
         /\ This.op = "icall" => \A t \in ComputedTargets(This, rom.active) :
               Flow!At(Flow!Push(Now, PcWord(After)), t) \in Flow!Executed
         /\ This.op = "ret" => Flow!Executed = Flow!Returned(Now)
         /\ This.op = "rte" => Flow!Executed = Flow!Resumed(Now)
         /\ This.op \in {"trap", "check"} =>
               Flow!Exception(Flow!At(Now, After), "trap") \in Flow!Executed
         /\ This.op \in {"tosr", "stop"} =>
               [Flow!At(Now, After) EXCEPT !.sr = This.target] \in Flow!Executed
<1> DEFINE op == This.op
           after == exec.pc + This.len
           computed == Flow!ComputedTargets(This, rom.active)
<1>1. Flow!Executed =
        CASE op = "plain" -> {Flow!At(Now, after)}
          [] op = "cond"  -> {Flow!At(Now, after), Flow!At(Now, This.target)}
          [] op \in {"bra", "jmp"} -> {Flow!At(Now, This.target)}
          [] op = "ijmp"  -> {Flow!At(Now, t) : t \in computed}
          [] op = "call"  -> {Flow!At(Flow!Push(Now, Flow!PcWord(after)), This.target)}
          [] op = "icall" -> {Flow!At(Flow!Push(Now, Flow!PcWord(after)), t) : t \in computed}
          [] op = "ret"   -> Flow!Returned(Now)
          [] op = "rte"   -> Flow!Resumed(Now)
          [] op = "trap"  -> {Flow!Exception(Flow!At(Now, after), "trap")}
          [] op = "check" -> {Flow!At(Now, after), Flow!Exception(Flow!At(Now, after), "trap")}
          [] op \in {"tosr", "stop"} -> {[Flow!At(Now, after) EXCEPT !.sr = This.target]}
          [] OTHER -> {}
  <2>1. Flow!Here = This
    BY HereIs
  <2>2. Now = [pc |-> exec.pc, sr |-> m68k.sr, user |-> Words(UserTop, UserPointer(m68k)),
               super |-> Words(SuperTop, SuperPointer(m68k))]
        /\ Now.pc = exec.pc
    BY NowIs
  <2> QED BY <2>1, <2>2, SMTT(60) DEF Flow!Executed
<1>2. computed = ComputedTargets(This, rom.active) /\ after = After
  BY DEF ComputedTargets, TableOf, Pointed, Flow!ComputedTargets, Flow!TableOf,
         Flow!Pointed, After
<1>3. Flow!PcWord(after) = PcWord(After)
  BY <1>2, SameStatus
<1> HIDE DEF op, after, computed
<1>4. op = This.op
  BY DEF op
<1> QED BY <1>1, <1>2, <1>3, <1>4

LEMMA ExecuteStep ==
  ASSUME Fit, exec.mode = "body", ~Flow!Refused, NEW d \in Flow!Executed,
         Now' = IF Tracing(m68k.sr) THEN Flow!Exception(d, "trace") ELSE d
  PROVE  Flow!Execute
<1>1. Now' = [pc |-> exec.pc, sr |-> m68k.sr, user |-> Words(UserTop, UserPointer(m68k)),
              super |-> Words(SuperTop, SuperPointer(m68k))]'
  BY DEF Now, Machine, WordsOf, Words
<1>2. Flow!Tracing([pc |-> exec.pc, sr |-> m68k.sr,
                    user |-> Words(UserTop, UserPointer(m68k)),
                    super |-> Words(SuperTop, SuperPointer(m68k))].sr) = Tracing(m68k.sr)
  BY SameStatus
<1> QED BY <1>1, <1>2 DEF Flow!Execute

\* The end of an instruction that is not refused.
LEMMA RetireFlow ==
  ASSUME Fit, exec.mode = "body", rom' = rom, InStacks(m68k'),
         NEW c \in Cpu, InStacks(c), NEW a \in Nat, NEW e, e.pc = a, Retire(c, a, e),
         Machine(a, c) \in Flow!Executed, ~Flow!Refused
  PROVE  Flow!Execute
<1>1. CASE Tracing(m68k.sr)
  <2>1. m68k' = ng_push_exception_frame(c, a) /\ exec'.pc = rom.vector["trace"]
    BY <1>1 DEF Retire, Goto, To, State
  <2>2. Now' = Machine(rom.vector["trace"], ng_push_exception_frame(c, a))
    BY <2>1 DEF Now, Machine, WordsOf, UserPointer, SuperPointer, UserTop, SuperTop
  <2>3. Now' = Flow!Exception(Machine(a, c), "trace")
    BY <2>1, <2>2, MachineFrame
  <2> QED BY <1>1, <2>3, ExecuteStep
<1>2. CASE ~Tracing(m68k.sr)
  <2>1. m68k' = c /\ exec'.pc = a
    BY <1>2 DEF Retire
  <2>2. Now' = Machine(a, c)
    BY <2>1 DEF Now, Machine, WordsOf, UserPointer, SuperPointer, UserTop, SuperTop
  <2> QED BY <1>2, <2>2, ExecuteStep
<1> QED BY <1>1, <1>2

\* An instruction that is refused, and an interrupt.
LEMMA ExceptionNow ==
  ASSUME Fit, InStacks(m68k'), NEW a \in Nat, NEW cause, NEW last,
         m68k' = ng_push_exception_frame(m68k, a), Goto("pending", rom.vector[cause], last)
  PROVE  Now' = Flow!Exception(Flow!At(Now, a), cause)
<1>1. m68k \in Cpu /\ InStacks(m68k)
  BY DEF Fit, ExecType, FlowInv
<1>2. exec'.pc = rom.vector[cause]
  BY DEF Goto, To, State
<1>3. Now' = Machine(rom.vector[cause], ng_push_exception_frame(m68k, a))
  BY <1>2 DEF Now, Machine, WordsOf, UserPointer, SuperPointer, UserTop, SuperTop
<1>4. Now' = Flow!Exception(Machine(a, m68k), cause)
  BY <1>1, <1>3, MachineFrame
<1>5. Machine(a, m68k) = Flow!At(Now, a)
  BY MachineAt DEF Now
<1> QED BY <1>4, <1>5

\* RTS and RTR.
LEMMA ReturnFlow ==
  ASSUME Fit, exec.mode = "body", This.op = "ret", IsTop(m68k, "pc"),
         InStacks(Popped(m68k))
  PROVE  Machine(m68k.mem[m68k.a7][2], Popped(m68k)) \in Flow!Executed
<1> DEFINE a == m68k.mem[m68k.a7][2]
<1>1. m68k \in Cpu /\ InStacks(m68k)
  BY DEF Fit, ExecType, FlowInv
<1>2. Flow!Executed = Flow!Returned(Now)
  BY ExecutedIs
<1>3. m68k.mem[m68k.a7][1] = "pc"
  BY DEF IsTop
<1>4. Now.sr = m68k.sr
  BY NowIs
<1>5. Machine(a, Popped(m68k)) = Flow!At(Machine(exec.pc, Popped(m68k)), a)
  BY MachineAt
<1>6. CASE Supervisor(m68k.sr)
  <2>1. /\ Now.super # <<>> /\ Flow!Top(Now.super) = m68k.mem[m68k.a7]
        /\ Machine(exec.pc, Popped(m68k)) = [Now EXCEPT !.super = Flow!Front(Now.super)]
    BY <1>1, <1>6, MachinePop DEF Now
  <2>2. Flow!Supervisor(Now.sr)
    BY <1>4, <1>6, SameStatus
  <2> HIDE DEF a
  <2>3. Flow!Returned(Now) = {Flow!At([Now EXCEPT !.super = Flow!Front(Now.super)], a)}
    BY <1>3, <2>1, <2>2 DEF Flow!Returned, a
  <2> QED BY <1>2, <1>5, <2>1, <2>3 DEF a
<1>7. CASE ~Supervisor(m68k.sr)
  <2>1. /\ Now.user # <<>> /\ Flow!Top(Now.user) = m68k.mem[m68k.a7]
        /\ Machine(exec.pc, Popped(m68k)) = [Now EXCEPT !.user = Flow!Front(Now.user)]
    BY <1>1, <1>7, MachinePop DEF Now
  <2>2. ~Flow!Supervisor(Now.sr)
    BY <1>4, <1>7, SameStatus
  <2> HIDE DEF a
  <2>3. Flow!Returned(Now) = {Flow!At([Now EXCEPT !.user = Flow!Front(Now.user)], a)}
    BY <1>3, <2>1, <2>2 DEF Flow!Returned, a
  <2> QED BY <1>2, <1>5, <2>1, <2>3 DEF a
<1> QED BY <1>6, <1>7

\* RTE.
LEMMA ResumeFlow ==
  ASSUME Fit, exec.mode = "body", This.op = "rte", Supervisor(m68k.sr),
         IsTop(m68k, "sr"), IsTop(Popped(m68k), "pc")
  PROVE  Machine(m68k.mem[m68k.a7 + 1][2],
                 ng_set_sr(Popped(Popped(m68k)), m68k.mem[m68k.a7][2])) \in Flow!Executed
<1> DEFINE g == Popped(m68k)
           d == Popped(g)
           v == m68k.mem[m68k.a7][2]
           a == m68k.mem[m68k.a7 + 1][2]
           rest == Flow!Front(Now.super)
<1>1. m68k \in Cpu /\ InStacks(m68k) /\ WordInv(m68k)
  BY DEF Fit, ExecType, FlowInv
<1>2. /\ m68k.mem[m68k.a7][1] = "sr" /\ v \in Nat /\ m68k.mem[m68k.a7 + 1][1] = "pc"
      /\ g.a7 = m68k.a7 + 1 /\ g.mem[m68k.a7 + 1] = m68k.mem[m68k.a7 + 1]
  BY <1>1, FrameTop DEF PcWord, SrWord
<1>3. g \in Cpu /\ d \in Cpu
  BY <1>1, PopType
<1>4. InStacks(d) /\ SuperPointer(d) = SuperPointer(m68k) + 2
      /\ UserPointer(d) = UserPointer(m68k)
  BY <1>1, WordsPopFrame
<1>5. g.sr = m68k.sr /\ SuperPointer(g) = SuperPointer(m68k) + 1
      /\ UserPointer(g) = UserPointer(m68k)
  BY <1>1, PopMoves
<1>6. InStacks(g)
  BY <1>1, <1>3, <1>4, <1>5, PointerType, TopsType DEF InStacks
<1>7. Now.sr = m68k.sr
  BY NowIs
<1>8. /\ Flow!Top(Now.super) = m68k.mem[m68k.a7]
      /\ Machine(exec.pc, g) = [Now EXCEPT !.super = rest]
  BY <1>1, <1>6, MachinePop DEF Now
<1>9. Machine(exec.pc, g).super = rest
  BY <1>8 DEF Now, Machine
<1>10. Supervisor(g.sr)
  BY <1>5
<1> HIDE DEF g
<1>11. /\ Flow!Top(rest) = g.mem[g.a7]
       /\ Machine(exec.pc, d) = [Machine(exec.pc, g) EXCEPT !.super = Flow!Front(rest)]
  BY <1>3, <1>4, <1>6, <1>9, <1>10, MachinePop
<1>12. Len(Now.super) > 1
  <2>1. Now.super = WordsOf(m68k, SuperTop, SuperPointer(m68k))
    BY DEF Now, Machine
  <2>2. /\ SuperPointer(m68k) \in Int /\ SuperTop \in Int
        /\ SuperPointer(m68k) + 2 <= SuperTop
    BY <1>1, <1>3, <1>4, Pointers
  <2> DEFINE s == SuperPointer(m68k)
  <2> HIDE DEF s
  <2>3. s \in Int /\ SuperTop \in Int /\ s + 2 <= SuperTop /\ s <= SuperTop
    BY <2>2 DEF s
  <2>4. Len(WordsOf(m68k, SuperTop, s)) = SuperTop - s
    BY <2>3, WordsLen DEF Stacked
  <2> QED BY <2>1, <2>3, <2>4 DEF s
<1> HIDE DEF d, v, a, rest
<1>13. Machine(exec.pc, ng_set_sr(d, v)) = [Machine(exec.pc, d) EXCEPT !.sr = v]
  BY <1>2, <1>3, MachineSetSr
<1>14. Machine(a, ng_set_sr(d, v)) = Flow!At(Machine(exec.pc, ng_set_sr(d, v)), a)
  BY MachineAt
<1>15. Machine(a, ng_set_sr(d, v))
         = [Flow!At(Now, a) EXCEPT !.sr = v, !.super = Flow!Front(rest)]
  <2>1. PICK x, y, z : Now = [pc |-> exec.pc, sr |-> x, user |-> y, super |-> z]
    BY DEF Now, Machine
  <2>2. Machine(exec.pc, g) = [pc |-> exec.pc, sr |-> x, user |-> y, super |-> rest]
    BY <1>8, <2>1
  <2>3. Machine(exec.pc, d) = [pc |-> exec.pc, sr |-> x, user |-> y, super |-> Flow!Front(rest)]
    BY <1>11, <2>2
  <2>4. Machine(exec.pc, ng_set_sr(d, v))
          = [pc |-> exec.pc, sr |-> v, user |-> y, super |-> Flow!Front(rest)]
    BY <1>13, <2>3
  <2>5. Machine(a, ng_set_sr(d, v))
          = [pc |-> a, sr |-> v, user |-> y, super |-> Flow!Front(rest)]
    BY <1>14, <2>4 DEF Flow!At
  <2>6. Flow!At(Now, a) = [pc |-> a, sr |-> x, user |-> y, super |-> z]
    BY <2>1 DEF Flow!At
  <2>7. [Flow!At(Now, a) EXCEPT !.sr = v, !.super = Flow!Front(rest)]
          = [pc |-> a, sr |-> v, user |-> y, super |-> Flow!Front(rest)]
    <3> DEFINE m1 == [Flow!At(Now, a) EXCEPT !.sr = v]
    <3>1. m1 = [pc |-> a, sr |-> v, user |-> y, super |-> z]
      BY <2>6
    <3> HIDE DEF m1
    <3>2. [m1 EXCEPT !.super = Flow!Front(rest)]
            = [pc |-> a, sr |-> v, user |-> y, super |-> Flow!Front(rest)]
      BY <3>1
    <3> QED BY <3>2, Zenon DEF m1
  <2> QED BY <2>5, <2>7
<1>16. Flow!Executed = Flow!Resumed(Now)
  BY ExecutedIs
<1>17. /\ Flow!Top(Now.super)[1] = "sr" /\ Flow!Top(Now.super)[2] = v
       /\ Flow!Top(rest)[1] = "pc" /\ Flow!Top(rest)[2] = a
  BY <1>2, <1>8, <1>11 DEF v, a
<1>18. Flow!Resumed(Now) = {[Flow!At(Now, a) EXCEPT !.sr = v, !.super = Flow!Front(rest)]}
  BY <1>12, <1>17 DEF Flow!Resumed, rest
<1>19. Machine(a, ng_set_sr(d, v)) \in Flow!Executed
  BY <1>15, <1>16, <1>18
<1> QED BY <1>19 DEF d, g, v, a

\* MOVE to SR and STOP.
LEMMA SetSrFlow ==
  ASSUME Fit, exec.mode = "body", This.op \in {"tosr", "stop"}
  PROVE  Machine(After, ng_set_sr(m68k, This.target)) \in Flow!Executed
<1>1. m68k \in Cpu /\ TypeInv /\ ExecType
  BY DEF Fit, ExecType, DiscoveryInv
<1>2. This.target \in Nat
  BY <1>1, ThisType
<1>3. Machine(After, ng_set_sr(m68k, This.target))
        = [Machine(After, m68k) EXCEPT !.sr = This.target]
  BY <1>1, <1>2, MachineSetSr
<1>4. Machine(After, m68k) = Flow!At(Now, After)
  BY MachineAt DEF Now
<1> QED BY <1>3, <1>4, ExecutedIs

\* A reset.
LEMMA ResetFlow ==
  ASSUME Fit, ServiceReset
  PROVE  Flow!Reset
<1>1. m68k \in Cpu /\ InStacks(m68k)
  BY DEF Fit, ExecType, FlowInv
<1>2. /\ exec'.pc = rom.seeds[1].addr /\ m68k'.sr = Handling
      /\ m68k'.a7 = SuperTop /\ m68k'.usp = m68k.usp
      /\ \A a \in 1..(SuperTop - 1) : a < UserTop => m68k'.mem[a] = m68k.mem[a]
  BY <1>1 DEF ServiceReset, Goto, To, State, Cpu
<1>3. Supervisor(Handling)
  BY DEF Supervisor, Handling
<1>4. SuperPointer(m68k)' = SuperTop /\ UserPointer(m68k)' = m68k.usp
  BY <1>2, <1>3 DEF SuperPointer, UserPointer
<1>5. Words(SuperTop, SuperPointer(m68k))' = <<>>
  <2>1. SuperTop - SuperTop = 0
    BY TopsType
  <2>2. Words(SuperTop, SuperPointer(m68k))' = [k \in 1..0 |-> m68k'.mem[SuperTop - k]]
    BY <1>4, <2>1 DEF Words, SuperTop
  <2> QED BY <2>2
<1>6. ASSUME Supervisor(m68k.sr)
      PROVE  Words(UserTop, UserPointer(m68k))' = Words(UserTop, UserPointer(m68k))
  <2>1. UserPointer(m68k) = m68k.usp
    BY <1>6 DEF UserPointer
  <2> DEFINE u == m68k.usp
  <2>2. u \in Int /\ 1 <= u /\ UserTop \in Int /\ SuperTop \in Int /\ UserTop <= SuperTop
    BY <1>1, <2>1, Pointers, TopsType
  <2> HIDE DEF u
  <2>3. \A k \in 1..(UserTop - u) : m68k'.mem[UserTop - k] = m68k.mem[UserTop - k]
    <3>1. \A k \in 1..(UserTop - u) : UserTop - k \in 1..(SuperTop - 1) /\ UserTop - k < UserTop
      BY <2>2
    <3> QED BY <1>2, <3>1
  <2>4. [k \in 1..(UserTop - u) |-> m68k'.mem[UserTop - k]]
          = [k \in 1..(UserTop - u) |-> m68k.mem[UserTop - k]]
    BY <2>3
  <2>5. Words(UserTop, UserPointer(m68k))' = [k \in 1..(UserTop - u) |-> m68k'.mem[UserTop - k]]
    BY <1>4 DEF Words, u, UserTop
  <2>6. Words(UserTop, UserPointer(m68k)) = [k \in 1..(UserTop - u) |-> m68k.mem[UserTop - k]]
    BY <2>1 DEF Words, u
  <2> QED BY <2>4, <2>5, <2>6
<1> QED BY <1>2, <1>5, <1>6, SameStatus DEF Flow!Reset

\* A step of the C program that the 68000 does not see.
LEMMA NowKept ==
  ASSUME m68k' = m68k, exec'.pc = exec.pc, rom' = rom
  PROVE  UNCHANGED Flow!flowVars
<1>1. Words(UserTop, UserPointer(m68k))' = Words(UserTop, UserPointer(m68k))
      /\ Words(SuperTop, SuperPointer(m68k))' = Words(SuperTop, SuperPointer(m68k))
  BY DEF Words, UserPointer, SuperPointer, UserTop, SuperTop
<1> QED BY <1>1 DEF Flow!flowVars

\* Every step of the program is one of the 68000, or none.
LEMMA FlowStep ==
  ASSUME DiscoveryInv, ExecType, FlowInv, Translatable, ExecNext
  PROVE  [Flow!FlowNext]_(Flow!flowVars)
<1>1. UNCHANGED discoveryVars /\ InStacks(m68k') /\ rom' = rom
  BY DEF ExecNext, discoveryVars
<1>2. CASE Emit
  <2>1. m68k' = m68k /\ exec'.pc = exec.pc
    BY <1>2 DEF Emit, Goto, To, State
  <2> QED BY <1>1, <2>1, NowKept
<1>3. CASE Dispatch \/ DispatchMiss \/ BudgetStop \/ YieldToHost \/ HostResumes \/ StopReturns
  <2>1. m68k' = m68k /\ exec'.pc = exec.pc
    BY <1>3 DEF Dispatch, DispatchMiss, BudgetStop, YieldToHost, HostResumes, StopReturns,
                Goto, To, State
  <2> QED BY <1>1, <2>1, NowKept
<1>4. ASSUME ~Emit PROVE Fit /\ PlaceInv(exec)
  <2>1. Running
    BY <1>4 DEF ExecNext, Running, Executing, Dispatch, DispatchMiss, BudgetStop,
       YieldToHost, HostResumes, TakeInterrupt, ServiceReset, Plain, TakeBranch, Jump,
       Call, Return, Trap, Illegal, PrivilegeViolation, ToSr, ReturnFromException,
       Stop, StopReturns
  <2> QED BY <2>1 DEF Fit, FlowInv
<1> SUFFICES ASSUME ~Emit, Fit, PlaceInv(exec) PROVE [Flow!FlowNext]_(Flow!flowVars)
  BY <1>2, <1>4
<1>5. /\ m68k \in Cpu /\ InStacks(m68k) /\ WordInv(m68k) /\ rom \in Roms
      /\ TypeInv /\ exec.pc \in Nat
  BY DEF Fit, ExecType, FlowInv, DiscoveryInv, TypeInv, Placed, Places
<1>6. Flow!Execute => [Flow!FlowNext]_(Flow!flowVars)
  BY <1>1 DEF Flow!FlowNext
<1>7. CASE TakeInterrupt
  <2>1. Enters(exec.pc)
    BY <1>7 DEF TakeInterrupt, PlaceInv
  <2>2. Flow!Here.op # "bad"
    BY <2>1, EntersCode, SameCode DEF Flow!Here, Fit, Probable
  <2>3. Now' = Flow!Exception(Flow!At(Now, exec.pc), "interrupt")
    BY <1>1, <1>5, <1>7, ExceptionNow DEF TakeInterrupt
  <2>4. Flow!At(Now, exec.pc) = Now
    BY MachineAt DEF Now
  <2>5. Now' = Flow!Exception(Now, "interrupt")
    BY <2>3, <2>4
  <2>6. Flow!Interrupt
    BY <2>2, <2>5 DEF Flow!Interrupt, Now, Machine, WordsOf, Words
  <2> QED BY <1>1, <2>6 DEF Flow!FlowNext
<1>8. CASE ServiceReset
  BY <1>1, <1>8, ResetFlow DEF Flow!FlowNext
<1>9. ASSUME NEW ops, Executing(ops)
      PROVE  /\ exec.mode = "body" /\ This.op \in ops
             /\ Flow!Refused <=> This.op = "illegal"
                   \/ (This.op \in {"tosr", "stop", "rte"} /\ ~Supervisor(m68k.sr))
  <2>1. exec.mode = "body" /\ This.op \in ops
    BY <1>9 DEF Executing, This
  <2> QED BY <2>1, HereIs
<1>10. ASSUME NEW a PROVE Machine(a, m68k) = Flow!At(Now, a)
  BY MachineAt DEF Now
<1>11. CASE Plain
  <2>1. /\ exec.mode = "body" /\ This.op \in {"plain", "cond", "check"} /\ ~Flow!Refused
        /\ Retire(m68k, After, RunOn(After))
    BY <1>9, <1>11 DEF Plain
  <2>2. RunOn(After) = To("body", After, exec.pc) /\ Enters(After)
    BY <2>1, RunsOnAt
  <2>3. RunOn(After).pc = After /\ After \in Nat
    BY <2>2, EntersCode DEF Fit, To, State
  <2>4. Machine(After, m68k) \in Flow!Executed
    BY <1>10, <2>1, ExecutedIs
  <2> QED BY <1>1, <1>5, <1>6, <2>1, <2>3, <2>4, RetireFlow
<1>12. CASE TakeBranch
  <2>1. /\ exec.mode = "body" /\ This.op \in {"cond", "bra"} /\ ~Flow!Refused
        /\ Retire(m68k, This.target, Branch(This.target))
    BY <1>9, <1>12 DEF TakeBranch
  <2>2. Branch(This.target).pc = This.target /\ Enters(This.target)
    BY <2>1, BranchAt
  <2>3. This.target \in Nat
    BY <2>2, EntersCode DEF Fit
  <2>4. Machine(This.target, m68k) \in Flow!Executed
    BY <1>10, <2>1, ExecutedIs
  <2> QED BY <1>1, <1>5, <1>6, <2>1, <2>2, <2>3, <2>4, RetireFlow
<1>13. ASSUME exec.mode = "body", ~Flow!Refused, NEW c \in Cpu, InStacks(c), NEW a \in Nat,
              DispatchTo(c, a), Machine(a, c) \in Flow!Executed
       PROVE  [Flow!FlowNext]_(Flow!flowVars)
  <2>1. To("pending", a, exec.pc).pc = a
    BY DEF To, State
  <2>2. Retire(c, a, To("pending", a, exec.pc))
    BY <1>13 DEF DispatchTo
  <2> QED BY <1>1, <1>6, <1>13, <2>1, <2>2, RetireFlow
<1>14. ASSUME exec.mode = "body", This.op \in {"ijmp", "icall"},
              NEW t \in ComputedTargets(This, rom.active)
       PROVE  t \in Nat
  <2>1. ComputedTargets(This, rom.active) \subseteq Nat
    BY <1>5, <1>14, ThisType DEF Fit
  <2> QED BY <1>14, <2>1
<1>15. ASSUME exec.mode = "body", This.op \in {"jmp", "call"}
       PROVE  This.target \in Nat
  BY <1>5, <1>15, ThisType DEF Fit
<1>16. CASE Jump
  <2>1. exec.mode = "body" /\ This.op \in {"jmp", "ijmp"} /\ ~Flow!Refused
    BY <1>9, <1>16 DEF Jump
  <2>2. PICK t \in (IF This.op = "jmp" THEN {This.target}
                    ELSE ComputedTargets(This, rom.active)) :
           DispatchTo(m68k, t)
    BY <1>16 DEF Jump
  <2>3. t \in Nat
    BY <1>14, <1>15, <2>1
  <2>4. Machine(t, m68k) \in Flow!Executed
    BY <1>10, <2>1, ExecutedIs
  <2> QED BY <1>5, <1>13, <2>1, <2>2, <2>3, <2>4
<1>17. CASE Call
  <2> DEFINE c == Pushed(m68k, PcWord(After))
  <2>1. exec.mode = "body" /\ This.op \in {"call", "icall"} /\ ~Flow!Refused
    BY <1>9, <1>17 DEF Call
  <2>2. PICK t \in (IF This.op = "call" THEN {This.target}
                    ELSE ComputedTargets(This, rom.active)) :
           DispatchTo(c, t)
    BY <1>17 DEF Call
  <2>3. t \in Nat
    BY <1>14, <1>15, <2>1
  <2>4. c \in Cpu /\ InStacks(c)
    BY <1>1, <2>1, <2>2, <2>3, CallInv DEF DispatchTo
  <2>5. Machine(exec.pc, c) = Flow!Push(Now, PcWord(After))
    BY <1>5, <2>4, MachinePush DEF Now
  <2>6. Machine(t, c) = Flow!At(Machine(exec.pc, c), t)
    BY MachineAt
  <2> HIDE DEF c
  <2>7. Machine(t, c) \in Flow!Executed
    BY <2>1, <2>5, <2>6, ExecutedIs
  <2> QED BY <1>13, <2>1, <2>2, <2>3, <2>4, <2>7
<1>18. CASE Return
  <2> DEFINE a == m68k.mem[m68k.a7][2]
  <2>1. DispatchTo(Popped(m68k), a) /\ IsTop(m68k, "pc")
        /\ exec.mode = "body" /\ This.op = "ret" /\ ~Flow!Refused
    BY <1>9, <1>18 DEF Return
  <2>2. a \in Nat
    BY <1>5, <2>1, TopType
  <2>3. InStacks(Popped(m68k)) /\ Popped(m68k) \in Cpu
    BY <1>1, <2>1, <2>2, ReturnInv DEF DispatchTo
  <2>4. Machine(a, Popped(m68k)) \in Flow!Executed
    BY <2>1, <2>3, ReturnFlow
  <2> HIDE DEF a
  <2> QED BY <1>13, <2>1, <2>2, <2>3, <2>4
<1>19. CASE Trap
  <2> DEFINE c == ng_push_exception_frame(m68k, After)
             t == rom.vector["trap"]
  <2>1. /\ exec.mode = "body" /\ This.op \in {"trap", "check"}
        /\ DispatchTo(c, t) /\ ~Flow!Refused
    BY <1>9, <1>19 DEF Trap
  <2>2. t \in Nat
    BY <1>5, EntryType DEF Causes
  <2>3. c \in Cpu /\ InStacks(c) /\ After \in Nat
    BY <1>1, <2>1, <2>2, TrapInv DEF DispatchTo
  <2>4. Machine(t, c) = Flow!Exception(Machine(After, m68k), "trap")
    BY <1>5, <2>3, MachineFrame
  <2> HIDE DEF c, t
  <2>5. Machine(t, c) \in Flow!Executed
    BY <1>10, <2>1, <2>4, ExecutedIs
  <2> QED BY <1>13, <2>1, <2>2, <2>3, <2>5
<1>20. CASE Illegal
  <2>1. exec.mode = "body" /\ This.op = "illegal" /\ Flow!Refused
    BY <1>9, <1>20 DEF Illegal
  <2>2. After \in Nat
    BY <1>5, <2>1, ThisType DEF Fit
  <2>3. Now' = Flow!Exception(Flow!At(Now, After), "illegal")
    BY <1>1, <1>20, <2>2, ExceptionNow DEF Illegal
  <2>4. Flow!Here = This
    BY <2>1, HereIs
  <2>5. Flow!Refuse
    BY <2>1, <2>3, <2>4 DEF Flow!Refuse, Now, Machine, WordsOf, Words, After
  <2> QED BY <1>1, <2>5 DEF Flow!FlowNext
<1>21. CASE PrivilegeViolation
  <2>1. exec.mode = "body" /\ This.op \in {"tosr", "stop", "rte"} /\ Flow!Refused
    BY <1>9, <1>21 DEF PrivilegeViolation
  <2>2. Now' = Flow!Exception(Flow!At(Now, exec.pc), "privilege")
    BY <1>1, <1>5, <1>21, ExceptionNow DEF PrivilegeViolation
  <2>3. Flow!At(Now, exec.pc) = Now
    BY MachineAt DEF Now
  <2>4. Flow!Here = This
    BY <2>1, HereIs
  <2>5. Now' = Flow!Exception(Now, "privilege")
    BY <2>2, <2>3
  <2>6. Flow!Refuse
    BY <2>1, <2>4, <2>5 DEF Flow!Refuse, Now, Machine, WordsOf, Words
  <2> QED BY <1>1, <2>6 DEF Flow!FlowNext
<1>22. CASE ToSr
  <2> DEFINE c == ng_set_sr(m68k, This.target)
  <2>1. /\ exec.mode = "body" /\ This.op = "tosr" /\ ~Flow!Refused
        /\ Retire(c, After, RunOn(After))
    BY <1>9, <1>22 DEF ToSr
  <2>2. RunOn(After) = To("body", After, exec.pc)
    BY <2>1, RunsOnAt
  <2>3. RunOn(After).pc = After
    BY <2>2 DEF To, State
  <2>4. After \in Nat /\ This.target \in Nat
    BY <1>5, <2>1, ThisType DEF Fit
  <2>5. c \in Cpu /\ InStacks(c)
    BY <2>4, SetSrInv
  <2>6. Machine(After, c) \in Flow!Executed
    BY <2>1, SetSrFlow
  <2> HIDE DEF c
  <2> QED BY <1>1, <1>6, <2>1, <2>3, <2>4, <2>5, <2>6, RetireFlow
<1>23. CASE ReturnFromException
  <2> DEFINE s == m68k.mem[m68k.a7][2]
             p == m68k.mem[m68k.a7 + 1][2]
             c == ng_set_sr(Popped(Popped(m68k)), s)
  <2>1. /\ exec.mode = "body" /\ This.op = "rte" /\ DispatchTo(c, p) /\ ~Flow!Refused
        /\ Supervisor(m68k.sr) /\ IsTop(m68k, "sr") /\ IsTop(Popped(m68k), "pc")
    BY <1>9, <1>23 DEF ReturnFromException
  <2>2. c \in Cpu /\ InStacks(c) /\ p \in Nat
    BY <2>1, ResumeInv
  <2>3. Machine(p, c) \in Flow!Executed
    BY <2>1, ResumeFlow
  <2> HIDE DEF c, p
  <2> QED BY <1>13, <2>1, <2>2, <2>3
<1>24. CASE Stop
  <2> DEFINE e == To("stopped", After, exec.pc)
             c == ng_set_sr(m68k, This.target)
  <2>1. /\ exec.mode = "body" /\ This.op = "stop" /\ ~Flow!Refused /\ Retire(c, After, e)
    BY <1>9, <1>24 DEF Stop
  <2>2. After \in Nat /\ This.target \in Nat
    BY <1>5, <2>1, ThisType DEF Fit
  <2>3. e.pc = After
    BY DEF To, State
  <2>4. c \in Cpu /\ InStacks(c)
    BY <2>2, SetSrInv
  <2>5. Machine(After, c) \in Flow!Executed
    BY <2>1, SetSrFlow
  <2> HIDE DEF c, e
  <2> QED BY <1>1, <1>6, <2>1, <2>2, <2>3, <2>4, <2>5, RetireFlow
<1> QED BY <1>3, <1>7, <1>8, <1>11, <1>12, <1>16, <1>17, <1>18, <1>19,
           <1>20, <1>21, <1>22, <1>23, <1>24 DEF ExecNext

LEMMA FlowStarts ==
  ASSUME ProgramInit
  PROVE  Flow!FlowInit
<1>1. /\ exec = State("off", 0, rom.seeds[1].addr, None)
      /\ m68k = [sr |-> Handling, a7 |-> SuperTop, usp |-> UserTop, ssp |-> SuperTop,
                 mem |-> [a \in 1..(SuperTop - 1) |-> None]]
  BY DEF ProgramInit
<1>2. exec.pc = rom.seeds[1].addr /\ m68k.sr = Handling
  BY <1>1 DEF State
<1>3. Supervisor(m68k.sr) /\ m68k.a7 = SuperTop /\ m68k.usp = UserTop
  BY <1>1 DEF Supervisor, Handling
<1>4. UserPointer(m68k) = UserTop /\ SuperPointer(m68k) = SuperTop
  BY <1>3 DEF UserPointer, SuperPointer
<1>5. UserTop - UserTop = 0 /\ SuperTop - SuperTop = 0
  BY TopsType
<1>7. Words(UserTop, UserPointer(m68k)) = <<>> /\ Words(SuperTop, SuperPointer(m68k)) = <<>>
  BY <1>4, <1>5 DEF Words
<1> QED BY <1>2, <1>7, SameStatus DEF Flow!FlowInit

\* For every program, capacity and limit under which bodies are whole and
\* control is only handed to code: the generated C executes the instructions
\* of the ROM in an order a 68000 could execute them in and keeps both stacks
\* as the 68000 would, through every hand-over between C functions,
\* exception, trace, interrupt, reset, yield, STOP and exhausted budget.
THEOREM GeneratedCodeFollowsProgram ==
  ProgramSpec /\ []Translatable => FollowsProgram
<1>1. ProgramInit => Flow!FlowInit
  BY FlowStarts
<1>2. /\ DiscoveryInv /\ ExecType /\ FlowInv /\ Translatable /\ [ProgramNext]_vars
      => [Flow!FlowNext]_(Flow!flowVars)
  <2> SUFFICES ASSUME DiscoveryInv, ExecType, FlowInv, Translatable, [ProgramNext]_vars
               PROVE  [Flow!FlowNext]_(Flow!flowVars)
    OBVIOUS
  <2>1. CASE ExecNext
    BY <2>1, FlowStep
  <2>2. CASE ~ExecNext
    <3>1. UNCHANGED execVars /\ [DiscoveryNext]_discoveryVars
      BY <2>2 DEF ProgramNext, vars
    <3>2. rom' = rom
      <4>1. CASE AddNext
        BY <3>1, <4>1, Addition DEF DiscoveryInv
      <4>2. CASE ~AddNext
        BY <3>1, <4>2, ListKept
      <4> QED BY <4>1, <4>2
    <3> QED BY <3>1, <3>2, NowKept DEF execVars
  <2> QED BY <2>1, <2>2
<1> QED BY <1>1, <1>2, ProgramInvariant, PTL DEF ProgramSpec, FollowsProgram, Flow!FlowSpec
=============================================================================

-------------------------- MODULE NeoMachineProofs --------------------------
(***************************************************************************)
(* Proofs about NeoMachine for every value of its constants: the type      *)
(* invariant, the agreement of the interrupt line with the pending         *)
(* sources, of the scanline clock with the cycle counter, of the watchdog  *)
(* with its timeout and of the timer's loop with its closed form; and that *)
(* no step loses a pending interrupt or pushes a frame below the mask.     *)
(***************************************************************************)
EXTENDS NeoMachine, TLAPS

(***************************************************************************)
(* Facts about the operators of NeoRuntime.                                *)
(***************************************************************************)
\* A successor modulo m is the successor or zero.
LEMMA SuccMod ==
  ASSUME NEW m \in Nat \ {0}, NEW x \in 0..(m - 1)
  PROVE  /\ (x + 1) % m \in 0..(m - 1)
         /\ (x + 1) % m = IF x + 1 = m THEN 0 ELSE x + 1
<1>1. CASE x + 1 = m
  BY <1>1, SMT
<1>2. CASE x + 1 < m
  BY <1>2, SMT
<1> QED
  BY <1>1, <1>2, SMT

\* What refresh_interrupt_level establishes, for any pending set.
LEMMA RefreshLine ==
  ASSUME NEW q \in IrqState
  PROVE  /\ Refresh(q) \in IrqState
         /\ Refresh(q).pending = q.pending
         /\ Refresh(q).level = PriorityLevel(q.pending)
         /\ ~Refresh(q).edge7
<1> DEFINE p == PriorityLevel(q.pending)
<1>1. p \in 0..3
  BY DEF PriorityLevel
<1>2. CASE p = 0
  <2>1. Refresh(q) = [pending |-> q.pending, level |-> 0, edge7 |-> FALSE]
    BY <1>2 DEF Refresh, ClearLevel
  <2> QED
    BY <1>2, <2>1 DEF IrqState
<1>3. CASE p # 0
  <2>1. Refresh(q) = [pending |-> q.pending, level |-> p, edge7 |-> FALSE]
    <3>1. (p = 7 /\ (q.level < 7 \/ q.edge7)) = FALSE
      BY <1>1
    <3> QED
      BY <1>3, <3>1 DEF Refresh, SetLevel
  <2> HIDE DEF p
  <2>2. Refresh(q) \in IrqState /\ Refresh(q).level = p
    BY <1>1, <2>1 DEF IrqState
  <2>3. Refresh(q).pending = q.pending /\ ~Refresh(q).edge7
    BY <1>1, <2>1 DEF IrqState
  <2> QED
    BY <2>2, <2>3 DEF p
<1> QED
  BY <1>2, <1>3

LEMMA RequestLine ==
  ASSUME NEW q \in IrqState, NEW s \in Sources
  PROVE  /\ Request(q, s) \in IrqState
         /\ Request(q, s).level = PriorityLevel(Request(q, s).pending)
         /\ ~Request(q, s).edge7
<1> DEFINE r == [q EXCEPT !.pending = @ \cup {s}]
<1>1. r \in IrqState
  BY DEF IrqState
<1> QED
  BY <1>1, RefreshLine DEF Request

LEMMA AcknowledgeLine ==
  ASSUME NEW q \in IrqState, NEW s
  PROVE  /\ Acknowledge(q, s) \in IrqState
         /\ Acknowledge(q, s).level = PriorityLevel(Acknowledge(q, s).pending)
         /\ ~Acknowledge(q, s).edge7
<1> DEFINE r == [q EXCEPT !.pending = @ \ s]
<1>1. r \in IrqState
  BY DEF IrqState
<1> QED
  BY <1>1, RefreshLine DEF Acknowledge

LEMMA TimerTypes ==
  ASSUME NEW t \in TimerState, NEW mode
  PROVE  ReloadTimer(t) \in TimerState /\ ExpireTimer(t, mode) \in TimerState
<1>1. ReloadValue(t) \in Nat
  BY RuntimeAssumption DEF ReloadValue, TimerState
<1> QED
  BY <1>1 DEF ReloadTimer, ExpireTimer, CounterAt, TimerState

LEMMA WatchdogTypes ==
  ASSUME NEW d \in DogState, NEW a, NEW p \in Nat, NEW c \in Nat
  PROVE  /\ UpdateWatchdog(d, a, p, c) \in DogState
         /\ RestartWatchdog(d, p, c) \in DogState
BY DEF DogState, UpdateWatchdog, RestartWatchdog

\* The level that is handed out is a level of the 68000.
LEMMA AcceptedType ==
  ASSUME NEW q \in IrqState, NEW m
  PROVE  AcceptedLevel(q, m) \in 0..7 /\ ConsumeEdge(q) \in IrqState
<1>1. AcceptedLevel(q, m) \in 0..7
  <2>1. q.level \in 0..7
    BY DEF IrqState
  <2>2. AcceptedLevel(q, m) \in {q.level, 0}
    BY DEF AcceptedLevel
  <2> QED
    BY <2>1, <2>2
<1>2. ConsumeEdge(q) \in IrqState
  BY DEF IrqState, ConsumeEdge
<1> QED
  BY <1>1, <1>2

(***************************************************************************)
(* Type correctness.                                                       *)
(***************************************************************************)
LEMMA TypeInit == Init => TypeOK
<1> SUFFICES ASSUME Init
             PROVE  TypeOK
  OBVIOUS
<1>1. irq \in IrqState /\ timer \in TimerState /\ dog \in DogState
  BY DEF Init, IrqState, TimerState, DogState, Sources
<1>2. timer_entry \in [timer : TimerState, fired : BOOLEAN]
  BY <1>1 DEF Init
<1>3. /\ scanline \in 0..(ScanlinesPerFrame - 1) /\ polls \in 0..(PollModulus - 1)
      /\ scanline_cycle \in 0..(CyclesPerScanline - 1)
  BY RuntimeAssumption DEF Init
<1> QED
  <2>1. stop \in BOOLEAN /\ active \in BOOLEAN /\ api_line \in BOOLEAN
    BY Zenon DEF Init
  <2> QED
    BY <1>1, <1>2, <1>3, <2>1 DEF Init, TypeOK, Phases

LEMMA TypeStep == TypeOK /\ [Next]_vars => TypeOK'
<1> SUFFICES ASSUME TypeOK, [Next]_vars
             PROVE  TypeOK'
  OBVIOUS
<1> USE RuntimeAssumption, MachineAssumption
        DEF Phases, cpuVars, clockVars, lineVars
<1>0. polls \in Nat /\ cpu_cycles \in Nat
  BY DEF TypeOK
<1>1. CASE Instruction
  <2> USE DEF Executing, unwritten
  <2>1. CASE OtherInstruction
    BY <2>1 DEF OtherInstruction, TypeOK
  <2>2. CASE KickWatchdog
    <3>1. dog' \in DogState
      BY <2>2, <1>0, WatchdogTypes DEF KickWatchdog, TypeOK
    <3> QED
      BY <2>2, <3>1 DEF KickWatchdog, TypeOK
  <2>3. ASSUME NEW a \in Acks, AckInterrupts(a)
        PROVE  TypeOK'
    BY <2>3, AcknowledgeLine DEF AckInterrupts, TypeOK
  <2>4. ASSUME NEW m \in Modes, WriteLspcMode(m)
        PROVE  TypeOK'
    BY <2>4 DEF WriteLspcMode, TypeOK
  <2>5. ASSUME NEW w \in TimerWords, WriteTimerHigh(w)
        PROVE  TypeOK'
    <3>1. [timer EXCEPT !.high = w] \in TimerState
      BY DEF TypeOK, TimerState
    <3> QED
      BY <2>5, <3>1 DEF WriteTimerHigh, TypeOK
  <2>6. ASSUME NEW w \in TimerWords, WriteTimerLow(w)
        PROVE  TypeOK'
    <3>1. [timer EXCEPT !.low = w] \in TimerState
      BY DEF TypeOK, TimerState
    <3>2. timer' \in TimerState
      BY <2>6, <3>1, TimerTypes DEF WriteTimerLow
    <3> QED
      BY <2>6, <3>2 DEF WriteTimerLow, TypeOK
  <2>7. ASSUME NEW l \in Latches, NEW on \in BOOLEAN, SwitchLatch(l, on)
        PROVE  TypeOK'
    BY <2>7 DEF SwitchLatch, TypeOK
  <2>8. ASSUME NEW m \in Masks, LoadMask(m) \/ StopInstruction(m)
        PROVE  TypeOK'
    BY <2>8 DEF LoadMask, StopInstruction, TypeOK
  <2> QED
    BY <1>1, <2>1, <2>2, <2>3, <2>4, <2>5, <2>6, <2>7, <2>8 DEF Instruction
<1>2. CASE Runtime
  <2>1. CASE ServiceReset
    <3>1. irq' \in IrqState
      BY <2>1 DEF ServiceReset, TypeOK, IrqState, ClearLevel
    <3>2. dog' \in DogState
      BY <2>1, <1>0, WatchdogTypes DEF ServiceReset, TypeOK
    <3> QED
      <4>1. stop' \in BOOLEAN /\ api_line' \in BOOLEAN
        BY <2>1, Zenon DEF ServiceReset
      <4> QED
        BY <2>1, <3>1, <3>2, <4>1 DEF ServiceReset, TypeOK
  <2>2. CASE Poll
    <3>1. polls' \in 0..(PollModulus - 1)
      BY <2>2, SuccMod DEF Poll, TypeOK
    <3>2. \/ UNCHANGED <<scanline_cycle, lineVars>> /\ phase' = "pollTail"
          \/ EnterScanline("poll") /\ poll_lines' = poll_lines + 1
      BY <2>2 DEF Poll
    <3>3. /\ phase' \in Phases /\ scanline_cycle' \in 0..(CyclesPerScanline - 1)
          /\ ticks_left' \in Nat /\ caller' \in {"none", "poll", "cycles"}
          /\ poll_lines' \in Nat
          /\ timer_entry' \in [timer : TimerState, fired : BOOLEAN]
      <4>1. CASE UNCHANGED <<scanline_cycle, lineVars>> /\ phase' = "pollTail"
        BY <4>1 DEF TypeOK
      <4>2. CASE EnterScanline("poll") /\ poll_lines' = poll_lines + 1
        <5>1. timer_entry' \in [timer : TimerState, fired : BOOLEAN]
          BY <4>2 DEF EnterScanline, TypeOK
        <5> QED
          BY <4>2, <5>1 DEF EnterScanline, TypeOK
      <4> QED
        BY <3>2, <4>1, <4>2
    <3> QED
      BY <2>2, <3>1, <3>3 DEF Poll, TypeOK
  <2>3. CASE PollTail
    <3> DEFINE line == IF AutoVblankDue THEN Request(irq, "vblank") ELSE irq
    <3>1. line \in IrqState
      BY RequestLine DEF TypeOK, Sources
    <3> HIDE DEF line
    <3>2. /\ taken' = AcceptedLevel(line, mask)
          /\ irq' = line \/ irq' = ConsumeEdge(line)
      BY <2>3 DEF PollTail, line
    <3>3. taken' \in 0..7 /\ irq' \in IrqState
      BY <3>1, <3>2, AcceptedType
    <3>4. dog' \in DogState
      BY <2>3, WatchdogTypes DEF PollTail, TypeOK
    <3> QED
      BY <2>3, <3>3, <3>4 DEF PollTail, TypeOK
  <2>4. CASE AcceptInterrupt
    <3>1. stop' \in BOOLEAN
      BY <2>4, Zenon DEF AcceptInterrupt
    <3>2. mask' \in 0..7 /\ taken' \in 0..7
      BY <2>4 DEF AcceptInterrupt, TypeOK
    <3> QED
      BY <2>4, <3>1, <3>2 DEF AcceptInterrupt, TypeOK
  <2>5. CASE StopReturns
    BY <2>5 DEF StopReturns, TypeOK
  <2>6. ASSUME NEW n \in InstrCycles, BeginInstruction(n)
        PROVE  TypeOK'
    BY <2>6 DEF BeginInstruction, TypeOK
  <2>7. CASE FinishCycles
    <3>1. /\ cpu_cycles' \in Nat
          /\ scanline_cycle' \in 0..(CyclesPerScanline - 1)
      BY <2>7 DEF FinishCycles, CyclesUntilScanline, TypeOK
    <3>2. dog' \in DogState
      BY <2>7, <3>1, WatchdogTypes DEF FinishCycles, TypeOK
    <3> QED
      BY <2>7, <3>1, <3>2 DEF FinishCycles, TypeOK
  <2>8. CASE CrossScanline
    BY <2>8 DEF CrossScanline, CyclesUntilScanline, EnterScanline, TypeOK
  <2>9. CASE TimerCountDown
    <3>1. timer' \in TimerState
      BY <2>9 DEF TimerCountDown, TicksUntilZero, TypeOK, TimerState
    <3> QED
      BY <2>9, <3>1 DEF TimerCountDown, TypeOK
  <2>10. CASE TimerExpire
    <3>1. ticks_left' \in Nat
      BY <2>10 DEF TimerExpire, TicksUntilZero, TypeOK, TimerState
    <3>2. timer' \in TimerState
      BY <2>10, TimerTypes DEF TimerExpire, TypeOK
    <3>3. irq' \in IrqState
      BY <2>10, RequestLine DEF TimerExpire, TypeOK, Sources
    <3> QED
      BY <2>10, <3>1, <3>2, <3>3 DEF TimerExpire, TypeOK
  <2>11. CASE EndScanline
    <3>1. scanline' \in 0..(ScanlinesPerFrame - 1)
      BY <2>11, SuccMod DEF EndScanline, TypeOK
    <3>2. \/ BeginVblank
          \/ UNCHANGED <<frame_count, timer, irq, api_line>>
      BY <2>11 DEF EndScanline
    <3>3. /\ frame_count' \in Nat /\ timer' \in TimerState
          /\ irq' \in IrqState /\ api_line' \in BOOLEAN
      <4>1. CASE BeginVblank
        <5>1. timer' \in TimerState
          BY <4>1, TimerTypes DEF BeginVblank, TypeOK
        <5>2. irq' \in IrqState
          BY <4>1, RequestLine DEF BeginVblank, TypeOK, Sources
        <5>3. api_line' \in BOOLEAN
          BY <4>1, Zenon DEF BeginVblank
        <5> QED
          BY <4>1, <5>1, <5>2, <5>3 DEF BeginVblank, TypeOK
      <4>2. CASE UNCHANGED <<frame_count, timer, irq, api_line>>
        BY <4>2 DEF TypeOK
      <4> QED
        BY <3>2, <4>1, <4>2
    <3>4. dog' \in DogState
      BY <2>11, WatchdogTypes DEF EndScanline, TypeOK
    <3> QED
      BY <2>11, <3>1, <3>3, <3>4 DEF EndScanline, TypeOK
  <2> QED
    BY <1>2, <2>1, <2>2, <2>3, <2>4, <2>5, <2>6, <2>7, <2>8, <2>9, <2>10,
       <2>11 DEF Runtime
<1>3. CASE Embedder
  <2>1. CASE Yield \/ Halted
    BY <2>1 DEF Yield, Halted, vars, TypeOK
  <2>2. CASE RequestReset
    BY <2>2, RequestLine DEF RequestReset, TypeOK, Sources
  <2>3. ASSUME NEW l \in HostLevels, SetInterruptLevel(l)
        PROVE  TypeOK'
    <3>1. SetLevel(irq, l) \in IrqState
      BY DEF SetLevel, TypeOK, IrqState
    <3> QED
      BY <2>3, <3>1 DEF SetInterruptLevel, TypeOK
  <2> QED
    BY <1>3, <2>1, <2>2, <2>3 DEF Embedder
<1>4. CASE UNCHANGED vars
  BY <1>4 DEF vars, TypeOK
<1> QED
  BY <1>1, <1>2, <1>3, <1>4 DEF Next

\* Every reachable state is well typed, for every configuration.
THEOREM TypeCorrect == Spec => []TypeOK
BY TypeInit, TypeStep, PTL DEF Spec
(***************************************************************************)
(* The watchdog.                                                           *)
(***************************************************************************)
\* An update makes the request exact if it was not premature before.
LEMMA UpdateExact ==
  ASSUME NEW d \in DogState, NEW a, NEW p, NEW c,
         d.pending => Overdue(d, a, p, c)
  PROVE  LET u == UpdateWatchdog(d, a, p, c)
         IN  u.pending <=> Overdue(u, a, p, c)
<1> DEFINE u == UpdateWatchdog(d, a, p, c)
<1>1. u.last_poll = d.last_poll /\ u.last_cycle = d.last_cycle
  BY DEF UpdateWatchdog, DogState
<1>2. Overdue(u, a, p, c) <=> Overdue(d, a, p, c)
  BY <1>1 DEF Overdue, PollGap
<1>3. u.pending <=> d.pending \/ Overdue(d, a, p, c)
  BY Zenon DEF UpdateWatchdog, DogState
<1> QED
  BY <1>2, <1>3

\* After a restart no timeout has run out.
LEMMA RestartExact ==
  ASSUME NEW d, NEW a, NEW p \in Nat, NEW c \in Nat
  PROVE  LET r == RestartWatchdog(d, p, c)
         IN  ~r.pending /\ ~Overdue(r, a, p, c)
<1> DEFINE r == RestartWatchdog(d, p, c)
<1>1. r.last_poll = p /\ r.last_cycle = c /\ r.pending = FALSE
  BY DEF RestartWatchdog
<1>2. PollGap(r, p) = 0
  BY <1>1, RuntimeAssumption DEF PollGap
<1>3. ~Overdue(r, a, p, c)
  BY <1>1, <1>2, RuntimeAssumption DEF Overdue
<1> QED
  BY <1>1, <1>3

\* Charging cycles never makes an overdue watchdog look early.
LEMMA OverdueMonotone ==
  ASSUME NEW d \in DogState, NEW a, NEW p, NEW c \in Nat, NEW c2 \in Nat,
         a, c <= c2, Overdue(d, a, p, c)
  PROVE  Overdue(d, a, p, c2)
BY RuntimeAssumption DEF Overdue, DogState

LEMMA WatchdogInit == Init => WatchdogInv
<1> SUFFICES ASSUME Init
             PROVE  WatchdogInv
  OBVIOUS
<1>1. dog.last_poll = 0 /\ dog.last_cycle = 0 /\ ~dog.pending
  BY DEF Init
<1>2. PollGap(dog, polls) = 0
  BY <1>1, RuntimeAssumption DEF Init, PollGap
<1>3. ~Overdue(dog, active, polls, cpu_cycles)
  BY <1>1, <1>2, RuntimeAssumption DEF Init, Overdue
<1> QED
  BY <1>1, <1>3
     DEF Init, WatchdogInv, WatchdogExact, ChargingCycles, Polling

LEMMA WatchdogStep ==
  TypeOK /\ WatchdogInv /\ [Next]_vars => WatchdogInv'
<1> SUFFICES ASSUME TypeOK, WatchdogInv, [Next]_vars
             PROVE  WatchdogInv'
  OBVIOUS
<1> USE RuntimeAssumption, MachineAssumption
        DEF cpuVars, clockVars, lineVars, ChargingCycles, Polling
<1>1. dog \in DogState /\ polls \in Nat /\ cpu_cycles \in Nat
  BY DEF TypeOK
<1>2. ASSUME phase \in {"boundary", "accept", "execute", "halted"},
             phase' \in {"boundary", "accept", "execute", "halted"},
             UNCHANGED <<dog, active, polls, cpu_cycles>>
      PROVE  WatchdogInv'
  BY <1>2 DEF WatchdogInv, WatchdogExact, Overdue, PollGap
<1>3. ASSUME phase' = "boundary",
             dog' = RestartWatchdog(dog, polls, cpu_cycles),
             UNCHANGED <<polls, cpu_cycles>>
      PROVE  WatchdogInv'
  <2>1. ~dog'.pending /\ ~Overdue(dog', active', polls', cpu_cycles')
    BY <1>1, <1>3, RestartExact
  <2> QED
    BY <1>3, <2>1 DEF WatchdogInv, WatchdogExact
<1>4. CASE Instruction
  <2> USE DEF Executing, unwritten
  <2>1. CASE KickWatchdog
    BY <2>1, <1>3 DEF KickWatchdog
  <2>2. CASE OtherInstruction
    BY <2>2, <1>2 DEF OtherInstruction
  <2>3. ASSUME NEW a \in Acks, AckInterrupts(a)
        PROVE  WatchdogInv'
    BY <2>3, <1>2 DEF AckInterrupts
  <2>4. ASSUME NEW m \in Modes, WriteLspcMode(m)
        PROVE  WatchdogInv'
    BY <2>4, <1>2 DEF WriteLspcMode
  <2>5. ASSUME NEW w \in TimerWords, WriteTimerHigh(w) \/ WriteTimerLow(w)
        PROVE  WatchdogInv'
    BY <2>5, <1>2 DEF WriteTimerHigh, WriteTimerLow
  <2>6. ASSUME NEW l \in Latches, NEW on \in BOOLEAN, SwitchLatch(l, on)
        PROVE  WatchdogInv'
    BY <2>6, <1>2 DEF SwitchLatch
  <2>7. ASSUME NEW m \in Masks, LoadMask(m) \/ StopInstruction(m)
        PROVE  WatchdogInv'
    BY <2>7, <1>2 DEF LoadMask, StopInstruction
  <2> QED
    BY <1>4, <2>1, <2>2, <2>3, <2>4, <2>5, <2>6, <2>7 DEF Instruction
<1>5. CASE Runtime
  <2>1. CASE ServiceReset
    BY <2>1, <1>3 DEF ServiceReset
  <2>2. CASE Poll
    <3>1. ~dog'.pending
      BY <2>2 DEF Poll
    <3>2. phase' = "pollTail" \/ (phase' = "timer" /\ caller' = "poll")
      BY <2>2 DEF Poll, EnterScanline
    <3> QED
      BY <3>1, <3>2 DEF WatchdogInv, WatchdogExact
  <2>3. CASE PollTail
    <3>1. ~dog.pending
      BY <2>3 DEF PollTail, WatchdogInv
    <3>2. /\ dog' = UpdateWatchdog(dog, active, polls, cpu_cycles)
          /\ UNCHANGED <<active, polls, cpu_cycles>> /\ phase' = "accept"
      BY <2>3 DEF PollTail
    <3>3. dog'.pending <=> Overdue(dog', active', polls', cpu_cycles')
      BY <1>1, <3>1, <3>2, UpdateExact
    <3> QED
      BY <3>2, <3>3 DEF WatchdogInv, WatchdogExact
  <2>4. CASE AcceptInterrupt
    BY <2>4, <1>2 DEF AcceptInterrupt
  <2>5. CASE StopReturns
    BY <2>5, <1>2 DEF StopReturns
  <2>6. ASSUME NEW n \in InstrCycles, BeginInstruction(n)
        PROVE  WatchdogInv'
    <3>1. CASE n = 0
      <4>1. active' = active
        BY <2>6, <3>1, Zenon DEF BeginInstruction, TypeOK
      <4> QED
        BY <2>6, <3>1, <4>1, <1>2 DEF BeginInstruction
    <3>2. CASE n # 0
      <4>1. active' /\ phase' = "cycles" /\ ~dog'.pending
        BY <2>6, <3>2 DEF BeginInstruction
      <4> QED
        BY <4>1 DEF WatchdogInv, WatchdogExact
    <3> QED
      BY <3>1, <3>2
  <2>7. CASE FinishCycles
    <3>1. cpu_cycles' \in Nat /\ cpu_cycles <= cpu_cycles'
      BY <2>7 DEF FinishCycles, TypeOK
    <3>2. dog.pending => Overdue(dog, active, polls, cpu_cycles')
      BY <1>1, <2>7, <3>1, OverdueMonotone DEF FinishCycles, WatchdogInv
    <3>3. /\ dog' = UpdateWatchdog(dog, active, polls, cpu_cycles')
          /\ UNCHANGED <<active, polls>> /\ phase' = "execute"
      BY <2>7 DEF FinishCycles
    <3>4. dog'.pending <=> Overdue(dog', active', polls', cpu_cycles')
      BY <1>1, <3>2, <3>3, UpdateExact
    <3> QED
      BY <3>3, <3>4 DEF WatchdogInv, WatchdogExact
  <2>8. CASE CrossScanline
    <3>1. cpu_cycles' \in Nat /\ cpu_cycles <= cpu_cycles'
      BY <2>8 DEF CrossScanline, CyclesUntilScanline, TypeOK
    <3>2. dog.pending => Overdue(dog, active, polls, cpu_cycles')
      BY <1>1, <2>8, <3>1, OverdueMonotone DEF CrossScanline, WatchdogInv
    <3>3. /\ phase' = "timer" /\ caller' = "cycles" /\ active
          /\ UNCHANGED <<dog, active, polls>>
      BY <2>8 DEF CrossScanline, EnterScanline, WatchdogInv
    <3> QED
      BY <3>2, <3>3 DEF WatchdogInv, WatchdogExact
  <2>9. CASE TimerCountDown \/ TimerExpire
    <3>1. phase = "timer" /\ UNCHANGED <<phase, caller, dog, active, polls, cpu_cycles>>
      BY <2>9 DEF TimerCountDown, TimerExpire, TimerRuns
    <3> QED
      BY <3>1 DEF WatchdogInv, WatchdogExact
  <2>10. CASE EndScanline
    <3>1. UNCHANGED <<active, polls, cpu_cycles>>
      BY <2>10 DEF EndScanline
    <3>2. CASE caller = "poll"
      <4>1. phase' = "pollTail" /\ ~dog'.pending
        BY <2>10, <3>2 DEF EndScanline, WatchdogInv
      <4> QED
        BY <4>1 DEF WatchdogInv, WatchdogExact
    <3>3. CASE caller = "cycles"
      <4>1. /\ active /\ phase' \in {"cycles", "execute"}
            /\ dog.pending => Overdue(dog, active, polls, cpu_cycles)
            /\ dog' = UpdateWatchdog(dog, active, polls, cpu_cycles)
        BY <2>10, <3>3 DEF EndScanline, WatchdogInv
      <4>2. dog'.pending <=> Overdue(dog', active', polls', cpu_cycles')
        BY <1>1, <3>1, <4>1, UpdateExact
      <4> QED
        BY <3>1, <4>1, <4>2 DEF WatchdogInv, WatchdogExact
    <3> QED
      BY <2>10, <3>2, <3>3 DEF EndScanline, WatchdogInv
  <2> QED
    BY <1>5, <2>1, <2>2, <2>3, <2>4, <2>5, <2>6, <2>7, <2>8, <2>9, <2>10
       DEF Runtime
<1>6. CASE Embedder
  <2>1. CASE Yield
    BY <2>1, <1>2 DEF Yield
  <2>2. CASE RequestReset
    BY <2>2, <1>2 DEF RequestReset
  <2>3. ASSUME NEW l \in HostLevels, SetInterruptLevel(l)
        PROVE  WatchdogInv'
    BY <2>3, <1>2 DEF SetInterruptLevel
  <2>4. CASE Halted
    BY <2>4 DEF Halted, vars, WatchdogInv, WatchdogExact
  <2> QED
    BY <1>6, <2>1, <2>2, <2>3, <2>4 DEF Embedder
<1>7. CASE UNCHANGED vars
  BY <1>7 DEF vars, WatchdogInv, WatchdogExact
<1> QED
  BY <1>4, <1>5, <1>6, <1>7 DEF Next

\* Whatever the timeouts, the poll counter's width and the program: a
\* watchdog reset is pending at an instruction exactly when it is due.
THEOREM WatchdogCorrect == Spec => []WatchdogExact
<1>1. WatchdogInv => WatchdogExact
  BY DEF WatchdogInv
<1> QED
  BY <1>1, TypeCorrect, WatchdogInit, WatchdogStep, PTL DEF Spec
(***************************************************************************)
(* The interrupt line.                                                     *)
(***************************************************************************)
\* The line shows the sources of q.
Shows(q) == q.level = PriorityLevel(q.pending) /\ ~q.edge7

LEMMA LineInit == Init => LineMatchesPending
BY DEF Init, LineMatchesPending, PriorityLevel

LEMMA LineStep ==
  TypeOK /\ LineMatchesPending /\ [Next]_vars => LineMatchesPending'
<1> SUFFICES ASSUME TypeOK, LineMatchesPending, [Next]_vars
             PROVE  LineMatchesPending'
  OBVIOUS
<1> USE RuntimeAssumption, MachineAssumption
<1>1. irq \in IrqState
  BY DEF TypeOK
<1>2. ASSUME UNCHANGED <<irq, api_line>>
      PROVE  LineMatchesPending'
  BY <1>2 DEF LineMatchesPending
<1>3. ASSUME Shows(irq')
      PROVE  LineMatchesPending'
  BY <1>3 DEF LineMatchesPending, Shows
<1>4. \A source \in Sources : Shows(Request(irq, source))
  BY <1>1, RequestLine DEF Shows
<1>5. CASE Instruction
  <2>1. ASSUME NEW a \in Acks, AckInterrupts(a)
        PROVE  LineMatchesPending'
    BY <1>1, <1>3, <2>1, AcknowledgeLine DEF AckInterrupts, Shows
  <2>2. CASE OtherInstruction \/ KickWatchdog
    BY <1>2, <2>2 DEF OtherInstruction, KickWatchdog
  <2>3. ASSUME NEW m \in Modes, WriteLspcMode(m)
        PROVE  LineMatchesPending'
    BY <1>2, <2>3 DEF WriteLspcMode
  <2>4. ASSUME NEW w \in TimerWords, WriteTimerHigh(w) \/ WriteTimerLow(w)
        PROVE  LineMatchesPending'
    BY <1>2, <2>4 DEF WriteTimerHigh, WriteTimerLow
  <2>5. ASSUME NEW l \in Latches, NEW on \in BOOLEAN, SwitchLatch(l, on)
        PROVE  LineMatchesPending'
    BY <1>2, <2>5 DEF SwitchLatch
  <2>6. ASSUME NEW m \in Masks, LoadMask(m) \/ StopInstruction(m)
        PROVE  LineMatchesPending'
    BY <1>2, <2>6 DEF LoadMask, StopInstruction
  <2> QED
    BY <1>5, <2>1, <2>2, <2>3, <2>4, <2>5, <2>6 DEF Instruction
<1>6. CASE Runtime
  <2>1. CASE ServiceReset
    BY <1>1, <1>3, <2>1
       DEF ServiceReset, ClearLevel, PriorityLevel, Shows, IrqState
  <2>2. CASE PollTail
    <3> DEFINE line == IF AutoVblankDue THEN Request(irq, "vblank") ELSE irq
    <3>1. line \in IrqState /\ (AutoVblankDue => Shows(line))
      BY <1>1, <1>4, RequestLine DEF Sources
    <3>2. ~AutoVblankDue => line = irq
      OBVIOUS
    <3> HIDE DEF line
    <3>3. irq' = line \/ irq' = ConsumeEdge(line)
      BY <2>2 DEF PollTail, line
    <3>4. Shows(line) => Shows(irq')
      BY <3>1, <3>3 DEF Shows, ConsumeEdge, IrqState
    <3>5. ~api_line' => ~api_line \/ AutoVblankDue
      BY <2>2 DEF PollTail
    <3>6. ~api_line' => Shows(line)
      BY <3>1, <3>2, <3>5 DEF LineMatchesPending, Shows
    <3> QED
      BY <3>4, <3>6 DEF LineMatchesPending, Shows
  <2>3. CASE TimerExpire
    <3>1. CASE "enable" \in lspc_mode
      BY <1>3, <1>4, <2>3, <3>1 DEF TimerExpire, Sources
    <3>2. CASE "enable" \notin lspc_mode
      <4>1. irq' = irq /\ (~api_line' => ~api_line)
        BY <2>3, <3>2 DEF TimerExpire
      <4> QED
        BY <4>1 DEF LineMatchesPending
    <3> QED
      BY <3>1, <3>2
  <2>4. CASE EndScanline
    <3>1. \/ irq' = Request(irq, "vblank")
          \/ UNCHANGED <<irq, api_line>>
      BY <2>4 DEF EndScanline, BeginVblank
    <3> QED
      BY <1>2, <1>3, <1>4, <3>1 DEF Sources
  <2>5. CASE Poll \/ AcceptInterrupt \/ StopReturns \/ FinishCycles
             \/ CrossScanline \/ TimerCountDown
    BY <1>2, <2>5 DEF Poll, AcceptInterrupt, StopReturns, FinishCycles,
                      CrossScanline, TimerCountDown
  <2>6. ASSUME NEW n \in InstrCycles, BeginInstruction(n)
        PROVE  LineMatchesPending'
    BY <1>2, <2>6 DEF BeginInstruction
  <2> QED
    BY <1>6, <2>1, <2>2, <2>3, <2>4, <2>5, <2>6 DEF Runtime
<1>7. CASE Embedder
  <2>1. CASE Yield \/ Halted
    BY <1>2, <2>1 DEF Yield, Halted, vars
  <2>2. CASE RequestReset
    BY <1>3, <1>4, <2>2 DEF RequestReset, Sources
  <2>3. ASSUME NEW l \in HostLevels, SetInterruptLevel(l)
        PROVE  LineMatchesPending'
    BY <2>3 DEF SetInterruptLevel, LineMatchesPending
  <2> QED
    BY <1>7, <2>1, <2>2, <2>3 DEF Embedder
<1>8. CASE UNCHANGED vars
  BY <1>2, <1>8 DEF vars
<1> QED
  BY <1>5, <1>6, <1>7, <1>8 DEF Next

\* The interrupt line never shows anything but the highest pending source.
THEOREM LineCorrect == Spec => []LineMatchesPending
BY TypeCorrect, LineInit, LineStep, PTL DEF Spec

(***************************************************************************)
(* The clocks.                                                             *)
(***************************************************************************)
\* Scanlines completed or being completed by cycles.
CycleLines == frame_count * ScanlinesPerFrame + scanline + InLine - poll_lines

LEMMA Distributes ==
  ASSUME NEW c \in Int, NEW n \in Int
  PROVE  c * (n + 1) = c * n + c
BY SMT

LEMMA ClockInit == Init => ClockConsistent
<1> SUFFICES ASSUME Init
             PROVE  ClockConsistent
  OBVIOUS
<1>1. CycleLines = 0
  BY RuntimeAssumption DEF Init, CycleLines, InLine
<1>2. cpu_cycles = scanline_cycle + CyclesPerScanline * CycleLines
  BY <1>1, RuntimeAssumption DEF Init
<1> QED
  BY <1>2 DEF Init, ClockConsistent, CycleLines

LEMMA ClockStep ==
  TypeOK /\ WatchdogInv /\ ClockConsistent /\ [Next]_vars => ClockConsistent'
<1> SUFFICES ASSUME TypeOK, WatchdogInv, ClockConsistent, [Next]_vars
             PROVE  ClockConsistent'
  OBVIOUS
<1> USE RuntimeAssumption, MachineAssumption DEF clockVars, lineVars
<1>1. /\ cpu_cycles = scanline_cycle + CyclesPerScanline * CycleLines
      /\ ~active => cpu_cycles = 0 /\ scanline_cycle = 0
  BY DEF ClockConsistent, CycleLines
<1>2. CycleLines \in Int /\ InLine \in {0, 1}
  BY DEF CycleLines, InLine, TypeOK
<1>3. ASSUME cpu_cycles' = scanline_cycle' + CyclesPerScanline * CycleLines',
             ~active' => cpu_cycles' = 0 /\ scanline_cycle' = 0
      PROVE  ClockConsistent'
  BY <1>3 DEF ClockConsistent, CycleLines
<1>4. ASSUME UNCHANGED <<frame_count, scanline, poll_lines, cpu_cycles,
                         scanline_cycle, active>>,
             InLine' = InLine
      PROVE  ClockConsistent'
  BY <1>4 DEF ClockConsistent
<1>5. CASE Instruction
  <2> USE DEF Executing, unwritten
  <2>1. phase = "execute" /\ phase' = "boundary"
    BY <1>5 DEF Instruction, OtherInstruction, KickWatchdog, AckInterrupts,
         WriteLspcMode, WriteTimerHigh, WriteTimerLow, SwitchLatch, LoadMask,
         StopInstruction
  <2>2. UNCHANGED unwritten
    BY <1>5 DEF Instruction, OtherInstruction, KickWatchdog, AckInterrupts,
         WriteLspcMode, WriteTimerHigh, WriteTimerLow, SwitchLatch, LoadMask,
         StopInstruction
  <2> QED
    BY <1>4, <2>1, <2>2 DEF InLine
<1>6. CASE Runtime
  <2>1. CASE ServiceReset
    BY <1>4, <2>1 DEF ServiceReset, InLine
  <2>2. CASE Poll
    <3>1. CASE phase' = "pollTail"
      BY <1>4, <2>2, <3>1 DEF Poll, EnterScanline, InLine
    <3>2. CASE phase' # "pollTail"
      <4>1. /\ ~active /\ phase = "boundary" /\ phase' = "timer"
            /\ scanline_cycle' = 0 /\ poll_lines' = poll_lines + 1
            /\ UNCHANGED <<scanline, frame_count, cpu_cycles, active>>
        BY <2>2, <3>2 DEF Poll, EnterScanline, AutoScanlineDue
      <4>2. CycleLines' = CycleLines
        BY <4>1 DEF CycleLines, InLine, TypeOK
      <4> QED
        BY <1>1, <1>3, <4>1, <4>2
    <3> QED
      BY <3>1, <3>2
  <2>3. CASE PollTail
    BY <1>4, <2>3 DEF PollTail, InLine
  <2>4. CASE AcceptInterrupt \/ StopReturns
    BY <1>4, <2>4 DEF AcceptInterrupt, StopReturns, InLine
  <2>5. ASSUME NEW n \in InstrCycles, BeginInstruction(n)
        PROVE  ClockConsistent'
    <3>1. /\ phase # "timer" /\ phase' # "timer"
          /\ UNCHANGED <<frame_count, scanline, poll_lines, cpu_cycles,
                         scanline_cycle>>
          /\ active => active'
      BY <2>5 DEF BeginInstruction
    <3>2. CycleLines' = CycleLines
      BY <3>1 DEF CycleLines, InLine
    <3> QED
      BY <1>1, <1>3, <3>1, <3>2
  <2>6. CASE FinishCycles
    <3>1. /\ phase = "cycles" /\ phase' = "execute" /\ active
          /\ scanline_cycle' = scanline_cycle + cycles_left
          /\ cpu_cycles' = cpu_cycles + cycles_left
          /\ UNCHANGED <<frame_count, scanline, poll_lines, active>>
      BY <2>6 DEF FinishCycles, WatchdogInv, ChargingCycles
    <3>2. CycleLines' = CycleLines
      BY <3>1 DEF CycleLines, InLine
    <3>3. CyclesPerScanline * CycleLines \in Int
      BY <1>2
    <3>4. cpu_cycles' = scanline_cycle' + CyclesPerScanline * CycleLines'
      BY <1>1, <3>1, <3>2, <3>3 DEF TypeOK
    <3> QED
      BY <1>3, <3>1, <3>4
  <2>7. CASE CrossScanline
    <3>1. /\ phase = "cycles" /\ phase' = "timer" /\ active
          /\ scanline_cycle' = 0
          /\ cpu_cycles' = cpu_cycles + (CyclesPerScanline - scanline_cycle)
          /\ UNCHANGED <<frame_count, scanline, poll_lines, active>>
      BY <2>7 DEF CrossScanline, EnterScanline, CyclesUntilScanline,
                  WatchdogInv, ChargingCycles
    <3>2. CycleLines' = CycleLines + 1
      BY <3>1 DEF CycleLines, InLine, TypeOK
    <3>3. CyclesPerScanline * CycleLines'
            = CyclesPerScanline * CycleLines + CyclesPerScanline
      BY <1>2, <3>2, Distributes
    <3>4. CyclesPerScanline * CycleLines \in Int
      BY <1>2
    <3>5. cpu_cycles' = scanline_cycle' + CyclesPerScanline * CycleLines'
      BY <1>1, <3>1, <3>3, <3>4 DEF TypeOK
    <3> QED
      BY <1>3, <3>1, <3>5
  <2>8. CASE TimerCountDown \/ TimerExpire
    BY <1>4, <2>8 DEF TimerCountDown, TimerExpire, InLine
  <2>9. CASE EndScanline
    <3>1. /\ phase = "timer" /\ phase' # "timer"
          /\ scanline' = (scanline + 1) % ScanlinesPerFrame
          /\ UNCHANGED <<poll_lines, cpu_cycles, scanline_cycle, active>>
      BY <2>9 DEF EndScanline
    <3>2. frame_count' = IF scanline' = 0 THEN frame_count + 1 ELSE frame_count
      BY <2>9 DEF EndScanline, BeginVblank
    <3>3. scanline' = IF scanline + 1 = ScanlinesPerFrame
                      THEN 0 ELSE scanline + 1
      BY <3>1, SuccMod DEF TypeOK
    <3>4. frame_count' * ScanlinesPerFrame + scanline'
            = frame_count * ScanlinesPerFrame + scanline + 1
      <4>1. CASE scanline + 1 = ScanlinesPerFrame
        <5>1. frame_count' = frame_count + 1 /\ scanline' = 0
          BY <3>2, <3>3, <4>1
        <5>2. ScanlinesPerFrame * (frame_count + 1)
                = ScanlinesPerFrame * frame_count + ScanlinesPerFrame
          BY Distributes DEF TypeOK
        <5> QED
          BY <4>1, <5>1, <5>2 DEF TypeOK
      <4>2. CASE scanline + 1 # ScanlinesPerFrame
        <5>1. frame_count' = frame_count /\ scanline' = scanline + 1
          BY <3>2, <3>3, <4>2 DEF TypeOK
        <5>2. frame_count * ScanlinesPerFrame \in Int
          BY DEF TypeOK
        <5> QED
          BY <5>1, <5>2 DEF TypeOK
      <4> QED
        BY <4>1, <4>2
    <3>5. InLine = 1 /\ InLine' = 0
      BY <3>1 DEF InLine
    <3>6. CycleLines' = CycleLines
      <4> DEFINE a == frame_count * ScanlinesPerFrame + scanline
                 b == frame_count' * ScanlinesPerFrame + scanline'
      <4>1. a \in Int
        BY DEF TypeOK
      <4>2. b = a + 1
        BY <3>4
      <4>3. CycleLines = a + InLine - poll_lines
        BY DEF CycleLines
      <4>4. CycleLines' = b + InLine' - poll_lines'
        BY DEF CycleLines
      <4> HIDE DEF a, b
      <4> QED
        BY <3>1, <3>5, <4>1, <4>2, <4>3, <4>4 DEF TypeOK
    <3> QED
      BY <1>1, <1>3, <3>1, <3>6
  <2> QED
    BY <1>6, <2>1, <2>2, <2>3, <2>4, <2>5, <2>6, <2>7, <2>8, <2>9 DEF Runtime
<1>7. CASE Embedder
  <2>1. CASE Yield \/ Halted \/ RequestReset
    BY <1>4, <2>1 DEF Yield, Halted, RequestReset, vars, InLine
  <2>2. ASSUME NEW l \in HostLevels, SetInterruptLevel(l)
        PROVE  ClockConsistent'
    BY <1>4, <2>2 DEF SetInterruptLevel, InLine
  <2> QED
    BY <1>7, <2>1, <2>2 DEF Embedder
<1>8. CASE UNCHANGED vars
  BY <1>4, <1>8 DEF vars, InLine
<1> QED
  BY <1>5, <1>6, <1>7, <1>8 DEF Next

\* No scanline is lost or counted twice, for every geometry of the screen and
\* every sequence of instruction lengths.
THEOREM ClockCorrect == Spec => []ClockConsistent
BY TypeCorrect, WatchdogInit, WatchdogStep, ClockInit, ClockStep, PTL DEF Spec

(***************************************************************************)
(* The timer.  In the loop of advance_timer, what has been consumed of the *)
(* scanline's ticks and where the counter stands determine each other,     *)
(* modulo the period of the timer.                                         *)
(***************************************************************************)
Consumed == ticks_left # PixelsPerScanline

HasExpired == TimerFires(timer_entry.timer) /\ Consumed

TimerInv ==
  phase = "timer" =>
    LET e == timer_entry.timer
    IN  /\ ticks_left \in 0..PixelsPerScanline
        /\ timer.high = e.high /\ timer.low = e.low
        /\ "timer" \in irq.pending <=>
             timer_entry.fired \/ (HasExpired /\ "enable" \in lspc_mode)
        /\ ~Consumed => timer = e
        /\ Consumed => e.loaded
        /\ Consumed /\ ~TimerFires(e) =>
             /\ ticks_left = 0
             /\ timer = [e EXCEPT !.counter = @ - PixelsPerScanline]
        /\ HasExpired /\ "on_zero" \notin lspc_mode =>
             timer = CounterAt(e, 0, FALSE)
        /\ HasExpired /\ "on_zero" \in lspc_mode =>
             /\ timer.loaded /\ timer.counter <= ReloadValue(e)
             /\ ticks_left = 0 \/ timer.counter = ReloadValue(e)
             /\ (ReloadValue(e) - timer.counter + ticks_left)
                    % (ReloadValue(e) + 1)
                  = TicksPastZero(e) % (ReloadValue(e) + 1)

LEMMA Quotient ==
  ASSUME NEW q \in Nat \ {0}, NEW x \in Nat
  PROVE  /\ x = q * (x \div q) + (x % q)
         /\ x % q \in 0..(q - 1) /\ x \div q \in Nat
         /\ x < q => x % q = x
  BY SMT

\* A multiple of q between two remainders is nought.
LEMMA NoMultiple ==
  ASSUME NEW q \in Nat \ {0}, NEW d \in Int,
         NEW r \in 0..(q - 1), NEW s \in 0..(q - 1), q * d = r - s
  PROVE  r = s
  <1>1. CASE d >= 1
    BY <1>1, q * d >= q, SMT
  <1>2. CASE d <= -1
    BY <1>2, q * d <= -q, SMT
  <1> QED
    BY <1>1, <1>2

LEMMA ModPeriod ==
  ASSUME NEW q \in Nat \ {0}, NEW x \in Nat
  PROVE  (x + q) % q = x % q
  <1> DEFINE a == (x + q) \div q
             b == x \div q
             r == (x + q) % q
             s == x % q
  <1>1. x + q = q * a + r /\ r \in 0..(q - 1) /\ a \in Nat
    <2>1. x + q \in Nat
      OBVIOUS
    <2> QED
      BY <2>1, Quotient
  <1>2. x = q * b + s /\ s \in 0..(q - 1) /\ b \in Nat
    BY Quotient
  <1> HIDE DEF a, b, r, s
  <1>3. q * (b + 1 - a) = q * b + q - q * a
    BY <1>1, <1>2
  <1>4. q * a \in Int /\ q * b \in Int
    BY <1>1, <1>2
  <1>5. q * (b + 1 - a) = r - s
    BY <1>1, <1>2, <1>3, <1>4
  <1>6. b + 1 - a \in Int
    BY <1>1, <1>2
  <1>7. r = s
    BY <1>1, <1>2, <1>5, <1>6, NoMultiple
  <1> QED
    BY <1>7 DEF r, s

LEMMA RequestPending ==
  ASSUME NEW q \in IrqState, NEW s \in Sources
  PROVE  Request(q, s).pending = q.pending \cup {s}
<1> DEFINE r == [q EXCEPT !.pending = @ \cup {s}]
<1>1. r \in IrqState /\ r.pending = q.pending \cup {s}
  BY DEF IrqState
<1> QED
  BY <1>1, RefreshLine DEF Request

\* A scanline begins with the timer as it is.
LEMMA EnterTimer ==
  ASSUME TypeOK, NEW from, EnterScanline(from), UNCHANGED <<timer, irq, lspc_mode>>
  PROVE  TimerInv'
<1>1. /\ ticks_left' = PixelsPerScanline
      /\ timer_entry' = [timer |-> timer, fired |-> "timer" \in irq.pending]
      /\ timer' = timer /\ irq' = irq
  BY DEF EnterScanline
<1>2. timer_entry'.timer = timer' /\ timer_entry'.fired = ("timer" \in irq'.pending)
  BY <1>1
<1>3. PixelsPerScanline \in 0..PixelsPerScanline
  BY RuntimeAssumption
<1> QED
  BY <1>1, <1>2, <1>3 DEF TimerInv, HasExpired, Consumed

LEMMA CountDownTimer ==
  ASSUME TypeOK, TimerInv, TimerCountDown
  PROVE  TimerInv'
<1> DEFINE e == timer_entry.timer
           R == ReloadValue(e)
<1>1. /\ phase = "timer" /\ ticks_left # 0 /\ timer.loaded
      /\ ticks_left < timer.counter + 1
      /\ timer' = [timer EXCEPT !.counter = @ - ticks_left]
      /\ ticks_left' = 0 /\ irq' = irq /\ lspc_mode' = lspc_mode
      /\ timer_entry' = timer_entry /\ phase' = "timer"
  BY DEF TimerCountDown, TimerRuns, TicksUntilZero
<1>2. e \in TimerState /\ timer \in TimerState /\ ticks_left \in Nat
  BY DEF TypeOK
<1>3. /\ timer'.high = timer.high /\ timer'.low = timer.low
      /\ timer'.loaded = timer.loaded
      /\ timer'.counter = timer.counter - ticks_left
  BY <1>1, <1>2 DEF TimerState
<1>4. Consumed' /\ ticks_left' \in 0..PixelsPerScanline
  BY <1>1, RuntimeAssumption DEF Consumed
<1>5. CASE ~Consumed
  <2>1. timer = e /\ ticks_left = PixelsPerScanline
    BY <1>1, <1>5 DEF TimerInv, Consumed
  <2>2. ~TimerFires(e)
    BY <1>1, <1>2, <2>1, RuntimeAssumption
    DEF TimerFires, TicksPastZero, TimerState
  <2> QED
    BY <1>1, <1>3, <1>4, <1>5, <2>1, <2>2 DEF TimerInv, HasExpired
<1>6. CASE Consumed
  <2>1. TimerFires(e)
    BY <1>1, <1>6 DEF TimerInv
  <2>2. "on_zero" \in lspc_mode
    <3>1. CounterAt(e, 0, FALSE).loaded = FALSE
      BY DEF CounterAt
    <3> QED
      BY <1>1, <1>6, <2>1, <3>1 DEF TimerInv, HasExpired
  <2>3. /\ timer.counter = R
        /\ (R - timer.counter + ticks_left) % (R + 1)
             = TicksPastZero(e) % (R + 1)
        /\ timer.high = e.high /\ timer.low = e.low /\ e.loaded
        /\ "timer" \in irq.pending <=>
             timer_entry.fired \/ (HasExpired /\ "enable" \in lspc_mode)
    BY <1>1, <1>6, <2>1, <2>2 DEF TimerInv, HasExpired
  <2>4. R \in Nat
    BY <1>2, <2>3 DEF TimerState
  <2> HIDE DEF R
  <2>5. R - timer'.counter + ticks_left' = R - timer.counter + ticks_left
        /\ timer'.counter <= R
    BY <1>1, <1>2, <1>3, <2>3, <2>4
  <2>6. HasExpired /\ HasExpired'
    BY <1>1, <1>4, <1>6, <2>1 DEF HasExpired, TimerFires, TicksPastZero
  <2>7. R = ReloadValue(timer_entry'.timer)
        /\ TicksPastZero(timer_entry'.timer) = TicksPastZero(e)
    BY <1>1 DEF R
  <2> QED
    BY <1>1, <1>3, <1>4, <2>1, <2>2, <2>3, <2>5, <2>6, <2>7 DEF TimerInv
<1> QED
  BY <1>5, <1>6

LEMMA ExpiryOfTimer ==
  ASSUME TypeOK, TimerInv, TimerExpire
  PROVE  TimerInv'
<1> DEFINE e == timer_entry.timer
           R == ReloadValue(e)
<1>1. /\ phase = "timer" /\ ticks_left # 0 /\ timer.loaded
      /\ ticks_left >= timer.counter + 1
      /\ timer' = ExpireTimer(timer, lspc_mode)
      /\ ticks_left' = ticks_left - (timer.counter + 1)
      /\ irq' = IF "enable" \in lspc_mode THEN Request(irq, "timer") ELSE irq
      /\ lspc_mode' = lspc_mode
      /\ timer_entry' = timer_entry /\ phase' = "timer"
  BY DEF TimerExpire, TimerRuns, TicksUntilZero
<1>2. e \in TimerState /\ timer \in TimerState /\ ticks_left \in Nat
  BY DEF TypeOK
<1>3. /\ timer.high = e.high /\ timer.low = e.low
      /\ ticks_left \in 0..PixelsPerScanline
      /\ "timer" \in irq.pending <=>
           timer_entry.fired \/ (HasExpired /\ "enable" \in lspc_mode)
  BY <1>1 DEF TimerInv
<1>4. R \in Nat
  BY <1>2, RuntimeAssumption DEF ReloadValue, TimerState
<1>5. IF "on_zero" \in lspc_mode THEN timer' = CounterAt(e, R, TRUE)
                                 ELSE timer' = CounterAt(e, 0, FALSE)
  BY <1>1, <1>3 DEF ExpireTimer, ReloadTimer, CounterAt, ReloadValue
<1>6. /\ timer'.high = e.high /\ timer'.low = e.low
      /\ "on_zero" \in lspc_mode => timer'.counter = R /\ timer'.loaded
  BY <1>5 DEF CounterAt
<1>7. ticks_left' \in 0..PixelsPerScanline /\ Consumed'
  BY <1>1, <1>2, <1>3, RuntimeAssumption DEF TimerState, Consumed
\* The ticks that are left lie behind the first expiry by whole periods.
<1>8. /\ TimerFires(e)
      /\ "on_zero" \in lspc_mode =>
           ticks_left' % (R + 1) = TicksPastZero(e) % (R + 1)
  <2>1. CASE ~Consumed
    <3>1. timer = e /\ ticks_left = PixelsPerScanline
      BY <1>1, <2>1 DEF TimerInv, Consumed
    <3>2. ticks_left' = TicksPastZero(e)
      BY <1>1, <3>1 DEF TicksPastZero
    <3>3. TimerFires(e)
      BY <1>1, <1>2, <3>1, RuntimeAssumption
      DEF TimerFires, TicksPastZero, TimerState
    <3> QED
      BY <3>2, <3>3
  <2>2. CASE Consumed
    <3>1. TimerFires(e)
      BY <1>1, <2>2 DEF TimerInv
    <3>2. "on_zero" \in lspc_mode
      <4>1. CounterAt(e, 0, FALSE).loaded = FALSE
        BY DEF CounterAt
      <4> QED
        BY <1>1, <2>2, <3>1, <4>1 DEF TimerInv, HasExpired
    <3>3. /\ timer.counter = R
          /\ (R - timer.counter + ticks_left) % (R + 1)
               = TicksPastZero(e) % (R + 1)
      BY <1>1, <2>2, <3>1, <3>2 DEF TimerInv, HasExpired
    <3> HIDE DEF R
    <3>4. /\ R - timer.counter + ticks_left = ticks_left
          /\ ticks_left' + (R + 1) = ticks_left
          /\ ticks_left' \in Nat /\ R + 1 \in Nat \ {0}
      BY <1>1, <1>2, <1>4, <1>7, <3>3
    <3>5. (ticks_left' + (R + 1)) % (R + 1) = ticks_left' % (R + 1)
      BY <3>4, ModPeriod
    <3> QED
      BY <3>1, <3>3, <3>4, <3>5
  <2> QED
    BY <2>1, <2>2
<1>9. "timer" \in irq'.pending <=>
        timer_entry.fired \/ "enable" \in lspc_mode
  <2>1. CASE "enable" \in lspc_mode
    <3>1. irq'.pending = irq.pending \cup {"timer"}
      BY <1>1, <2>1, RequestPending DEF TypeOK, Sources
    <3> QED
      BY <2>1, <3>1
  <2>2. CASE "enable" \notin lspc_mode
    BY <1>1, <1>3, <2>2
  <2> QED
    BY <2>1, <2>2
<1>10. e.loaded /\ HasExpired'
  BY <1>1, <1>7, <1>8 DEF HasExpired, TimerFires, TicksPastZero
<1> HIDE DEF R
<1>11. "on_zero" \in lspc_mode =>
         /\ timer'.counter <= R
         /\ R - timer'.counter + ticks_left' = ticks_left'
  BY <1>4, <1>6, <1>7
<1>12. R = ReloadValue(timer_entry'.timer) /\ timer_entry'.timer = e
  BY <1>1 DEF R
<1> QED
  BY <1>1, <1>5, <1>6, <1>7, <1>8, <1>9, <1>10, <1>11, <1>12 DEF TimerInv

LEMMA TimerStep == TypeOK /\ TimerInv /\ [Next]_vars => TimerInv'
<1> SUFFICES ASSUME TypeOK, TimerInv, [Next]_vars
             PROVE  TimerInv'
  OBVIOUS
<1>1. CASE phase' # "timer"
  BY <1>1 DEF TimerInv
<1>2. CASE phase' = "timer"
  <2>1. CASE Instruction
    BY <1>2, <2>1
    DEF Instruction, Executing, OtherInstruction, KickWatchdog, AckInterrupts,
        WriteLspcMode, WriteTimerHigh, WriteTimerLow, SwitchLatch, LoadMask,
        StopInstruction
  <2>2. CASE Embedder
    <3>1. UNCHANGED vars
      BY <1>2, <2>2
      DEF Embedder, Yield, Halted, RequestReset, SetInterruptLevel
    <3> QED
      BY <3>1
      DEF vars, lineVars, TimerInv, HasExpired, Consumed, TimerFires, TicksPastZero
  <2>3. CASE Runtime
    <3>1. TimerCountDown \/ TimerExpire
          \/ \E from \in {"poll", "cycles"} :
                EnterScanline(from) /\ UNCHANGED <<timer, irq, lspc_mode>>
      BY <1>2, <2>3
      DEF Runtime, ServiceReset, Poll, PollTail, AcceptInterrupt, StopReturns,
          BeginInstruction, FinishCycles, CrossScanline, EndScanline
    <3> QED
      BY <3>1, EnterTimer, CountDownTimer, ExpiryOfTimer
  <2>4. CASE UNCHANGED vars
    BY <2>4
    DEF vars, lineVars, TimerInv, HasExpired, Consumed, TimerFires, TicksPastZero
  <2> QED
    BY <2>1, <2>2, <2>3, <2>4 DEF Next
<1> QED
  BY <1>1, <1>2

LEMMA TimerExactHere == TypeOK /\ TimerInv => TimerLoopExact
<1> SUFFICES ASSUME TypeOK, TimerInv, phase = "timer", ~TimerRuns
             PROVE  TimerLoopExact
  BY DEF TimerLoopExact
<1> DEFINE e == timer_entry.timer
           R == ReloadValue(e)
<1>1. e \in TimerState /\ timer \in TimerState /\ ticks_left \in Nat
  BY DEF TypeOK
<1>2. ticks_left = 0 \/ ~timer.loaded
  BY DEF TimerRuns
<1>3. "timer" \in irq.pending <=>
        timer_entry.fired \/ (HasExpired /\ "enable" \in lspc_mode)
  BY DEF TimerInv
<1>4. CASE ~Consumed
  <2>1. timer = e /\ ~e.loaded
    BY <1>2, <1>4, RuntimeAssumption DEF TimerInv, Consumed
  <2> QED
    BY <1>3, <1>4, <2>1
    DEF TimerLoopExact, TimerAfterLine, HasExpired, TimerFires
<1>5. CASE Consumed /\ ~TimerFires(e)
  <2>1. e.loaded /\ timer = [e EXCEPT !.counter = @ - PixelsPerScanline]
    BY <1>5 DEF TimerInv
  <2> QED
    BY <1>3, <1>5, <2>1 DEF TimerLoopExact, TimerAfterLine, HasExpired
<1>6. CASE Consumed /\ TimerFires(e) /\ "on_zero" \notin lspc_mode
  <2>1. e.loaded /\ timer = CounterAt(e, 0, FALSE)
    BY <1>6 DEF TimerInv, HasExpired
  <2> QED
    BY <1>3, <1>6, <2>1 DEF TimerLoopExact, TimerAfterLine, HasExpired
<1>7. CASE Consumed /\ TimerFires(e) /\ "on_zero" \in lspc_mode
  <2>1. /\ e.loaded /\ timer.loaded /\ timer.counter <= R
        /\ timer.high = e.high /\ timer.low = e.low
        /\ (R - timer.counter + ticks_left) % (R + 1)
             = TicksPastZero(e) % (R + 1)
    BY <1>7 DEF TimerInv, HasExpired
  <2>2. R \in Nat
    BY <1>1, RuntimeAssumption DEF ReloadValue, TimerState
  <2> HIDE DEF R
  <2>3. /\ R - timer.counter + ticks_left = R - timer.counter
        /\ R - timer.counter \in Nat /\ R - timer.counter < R + 1
        /\ R + 1 \in Nat \ {0}
    BY <1>1, <1>2, <2>1, <2>2 DEF TimerState
  <2>4. TicksPastZero(e) % (R + 1) = R - timer.counter
    BY <2>1, <2>3, Quotient
  <2>5. timer.counter = R - (TicksPastZero(e) % (R + 1))
    BY <1>1, <2>2, <2>4 DEF TimerState
  <2>6. timer = [e EXCEPT !.counter = R - (TicksPastZero(e) % (R + 1))]
    BY <1>1, <2>1, <2>5 DEF TimerState
  <2>7. timer = TimerAfterLine(e, lspc_mode)
    BY <1>7, <2>1, <2>6 DEF TimerAfterLine, R, ReloadValue
  <2> QED
    BY <1>3, <1>7, <2>7 DEF TimerLoopExact, HasExpired
<1> QED
  BY <1>4, <1>5, <1>6, <1>7

\* The loop of ng_neogeo_advance_timer puts the timer where the closed form
\* does, for every reload value, every length of a scanline and any number
\* of expiries in it, and asks for the interrupt exactly when it should.
THEOREM TimerCorrect == Spec => []TimerLoopExact
<1>1. Init => TimerInv
  BY DEF Init, TimerInv
<1> QED
  BY <1>1, TypeCorrect, TimerStep, TimerExactHere, PTL DEF Spec

(***************************************************************************)
(* What a step may do to the pending sources and to the mask.              *)
(***************************************************************************)
\* A request and the change of a level keep every source that is pending.
LEMMA RequestKeeps ==
  ASSUME NEW q \in IrqState, NEW s \in Sources, NEW l
  PROVE  /\ q.pending \subseteq Request(q, s).pending
         /\ SetLevel(q, l).pending = q.pending
         /\ ConsumeEdge(q).pending = q.pending
<1> DEFINE r == [q EXCEPT !.pending = @ \cup {s}]
<1>1. r \in IrqState /\ r.pending = q.pending \cup {s}
  BY DEF IrqState
<1>2. Request(q, s).pending = r.pending
  BY <1>1, RefreshLine DEF Request
<1>3. SetLevel(q, l).pending = q.pending
  BY DEF SetLevel
<1>4. ConsumeEdge(q).pending = q.pending
  BY DEF ConsumeEdge, IrqState
<1> QED
  BY <1>1, <1>2, <1>3, <1>4

Dropped == irq.pending \ irq'.pending

\* An acknowledgement drops only the sources it names.
LEMMA AcknowledgeDrops ==
  ASSUME irq \in IrqState, NEW a, AckInterrupts(a)
  PROVE  Dropped \subseteq a
<1> DEFINE r == [irq EXCEPT !.pending = @ \ a]
<1>1. r \in IrqState /\ r.pending = irq.pending \ a
  BY DEF IrqState
<1>2. irq'.pending = r.pending
  BY <1>1, RefreshLine DEF AckInterrupts, Acknowledge
<1> QED
  BY <1>1, <1>2 DEF Dropped

Accounted ==
  \A s \in Dropped :
    ServiceReset \/ \E a \in Acks : s \in a /\ AckInterrupts(a)

LEMMA LossStep == TypeOK /\ [Next]_vars => Accounted
<1> SUFFICES ASSUME TypeOK, [Next]_vars
             PROVE  Accounted
  OBVIOUS
<1>1. irq \in IrqState
  BY DEF TypeOK
<1>2. ASSUME UNCHANGED irq
      PROVE  Accounted
  BY <1>2 DEF Dropped, Accounted
<1>3. ASSUME NEW s \in Sources, irq' = Request(irq, s)
      PROVE  Accounted
  BY <1>1, <1>3, RequestKeeps DEF Dropped, Accounted
<1>4. CASE Instruction
  <2>1. ASSUME NEW a \in Acks, AckInterrupts(a)
        PROVE  Accounted
    BY <1>1, <2>1, AcknowledgeDrops DEF Accounted
  <2>2. CASE OtherInstruction \/ KickWatchdog
    BY <1>2, <2>2 DEF OtherInstruction, KickWatchdog
  <2>3. ASSUME NEW m \in Modes, WriteLspcMode(m)
        PROVE  Accounted
    BY <1>2, <2>3 DEF WriteLspcMode
  <2>4. ASSUME NEW w \in TimerWords, WriteTimerHigh(w) \/ WriteTimerLow(w)
        PROVE  Accounted
    BY <1>2, <2>4 DEF WriteTimerHigh, WriteTimerLow
  <2>5. ASSUME NEW l \in Latches, NEW on \in BOOLEAN, SwitchLatch(l, on)
        PROVE  Accounted
    BY <1>2, <2>5 DEF SwitchLatch
  <2>6. ASSUME NEW m \in Masks, LoadMask(m) \/ StopInstruction(m)
        PROVE  Accounted
    BY <1>2, <2>6 DEF LoadMask, StopInstruction
  <2> QED
    BY <1>4, <2>1, <2>2, <2>3, <2>4, <2>5, <2>6 DEF Instruction
<1>5. CASE Runtime
  <2>1. CASE ServiceReset
    BY <2>1 DEF Accounted
  <2>2. CASE PollTail
    <3> DEFINE line == IF AutoVblankDue THEN Request(irq, "vblank") ELSE irq
    <3>1. line \in IrqState /\ irq.pending \subseteq line.pending
      BY <1>1, RequestLine, RequestKeeps DEF Sources
    <3> HIDE DEF line
    <3>2. irq' = line \/ irq' = ConsumeEdge(line)
      BY <2>2 DEF PollTail, line
    <3>3. irq'.pending = line.pending
      BY <3>1, <3>2 DEF ConsumeEdge, IrqState
    <3> QED
      BY <3>1, <3>3 DEF Dropped, Accounted
  <2>3. CASE TimerExpire
    <3>1. irq' = Request(irq, "timer") \/ irq' = irq
      BY <2>3 DEF TimerExpire
    <3> QED
      BY <1>2, <1>3, <3>1 DEF Sources
  <2>4. CASE EndScanline
    <3>1. irq' = Request(irq, "vblank") \/ irq' = irq
      BY <2>4 DEF EndScanline, BeginVblank
    <3> QED
      BY <1>2, <1>3, <3>1 DEF Sources
  <2>5. CASE Poll \/ AcceptInterrupt \/ StopReturns \/ FinishCycles
             \/ CrossScanline \/ TimerCountDown
    BY <1>2, <2>5 DEF Poll, AcceptInterrupt, StopReturns, FinishCycles,
                      CrossScanline, TimerCountDown
  <2>6. ASSUME NEW n \in InstrCycles, BeginInstruction(n)
        PROVE  Accounted
    BY <1>2, <2>6 DEF BeginInstruction
  <2> QED
    BY <1>5, <2>1, <2>2, <2>3, <2>4, <2>5, <2>6 DEF Runtime
<1>6. CASE Embedder
  <2>1. CASE Yield \/ Halted
    BY <1>2, <2>1 DEF Yield, Halted, vars
  <2>2. CASE RequestReset
    BY <1>3, <2>2 DEF RequestReset, Sources
  <2>3. ASSUME NEW l \in HostLevels, SetInterruptLevel(l)
        PROVE  Accounted
    BY <2>3 DEF SetInterruptLevel, SetLevel, Dropped, Accounted
  <2> QED
    BY <1>6, <2>1, <2>2, <2>3 DEF Embedder
<1>7. CASE UNCHANGED vars
  BY <1>2, <1>7 DEF vars
<1> QED
  BY <1>4, <1>5, <1>6, <1>7 DEF Next

\* A pending source is dropped only by an acknowledgement that names it or by
\* a watchdog reset, whatever the program, the timer and the embedder do.
THEOREM InterruptsKept == Spec => NoLostInterrupt
<1>1. TypeOK /\ [Next]_vars =>
        [\A s \in irq.pending \ irq'.pending :
           ServiceReset \/ \E a \in Acks : s \in a /\ AckInterrupts(a)]_vars
  BY LossStep DEF Dropped, Accounted
<1> QED
  BY <1>1, TypeCorrect, PTL DEF Spec, NoLostInterrupt

\* Between take_interrupt and the push of the frame, the level handed out is
\* above the mask, or it is the level-7 edge and that edge is used up.
TakenInv ==
  phase = "accept" /\ taken # 0 => taken > mask \/ (taken = 7 /\ ~irq.edge7)

LEMMA TakenStep == TypeOK /\ TakenInv /\ [Next]_vars => TakenInv'
<1> SUFFICES ASSUME TypeOK, TakenInv, [Next]_vars
             PROVE  TakenInv'
  OBVIOUS
<1>1. ASSUME phase' # "accept"
      PROVE  TakenInv'
  BY <1>1 DEF TakenInv
<1>2. CASE PollTail
  <2> DEFINE line == IF AutoVblankDue THEN Request(irq, "vblank") ELSE irq
             l    == AcceptedLevel(line, mask)
  <2>1. line \in IrqState
    BY RequestLine DEF Sources, TypeOK
  <2>2. /\ taken' = l /\ mask' = mask
        /\ irq' = IF l = 7 /\ line.edge7 THEN ConsumeEdge(line) ELSE line
    BY <1>2 DEF PollTail, cpuVars
  <2> HIDE DEF line
  <2>3. l # 0 => l > mask \/ (l = 7 /\ line.level = 7 /\ line.edge7)
    BY <2>1 DEF AcceptedLevel
  <2> HIDE DEF l
  <2>4. ASSUME l = 7, line.edge7
        PROVE  ~irq'.edge7
    BY <2>1, <2>2, <2>4 DEF ConsumeEdge, IrqState
  <2> QED
    BY <2>2, <2>3, <2>4 DEF TakenInv
<1>3. CASE UNCHANGED vars
  BY <1>3 DEF vars, cpuVars, TakenInv
<1>4. CASE Instruction
  BY <1>1, <1>4
  DEF Instruction, Executing, OtherInstruction, KickWatchdog, AckInterrupts,
      WriteLspcMode, WriteTimerHigh, WriteTimerLow, SwitchLatch, LoadMask,
      StopInstruction
<1>5. CASE Embedder
  <2>1. CASE Halted
    BY <1>3, <2>1 DEF Halted
  <2>2. phase' # "accept" \/ Halted
    BY <1>5
    DEF Embedder, Yield, RequestReset, SetInterruptLevel
  <2> QED
    BY <1>1, <2>1, <2>2
<1>6. CASE Runtime /\ ~PollTail
  <2>1. phase' # "accept"
    <3>1. CASE ServiceReset \/ AcceptInterrupt \/ StopReturns \/ FinishCycles
      BY <3>1 DEF ServiceReset, AcceptInterrupt, StopReturns, FinishCycles
    <3>2. CASE Poll
      BY <3>2 DEF Poll, EnterScanline
    <3>3. CASE CrossScanline
      BY <3>3 DEF CrossScanline, EnterScanline
    <3>4. CASE TimerCountDown \/ TimerExpire
      BY <3>4 DEF TimerCountDown, TimerExpire, TimerRuns
    <3>5. CASE EndScanline
      BY <3>5 DEF EndScanline
    <3>6. ASSUME NEW n \in InstrCycles, BeginInstruction(n)
          PROVE  phase' # "accept"
      BY <3>6 DEF BeginInstruction
    <3> QED
      BY <1>6, <3>1, <3>2, <3>3, <3>4, <3>5, <3>6 DEF Runtime
  <2> QED
    BY <1>1, <2>1
<1> QED
  BY <1>2, <1>3, <1>4, <1>5, <1>6 DEF Next

\* An interrupt frame is pushed only above the mask of the code it
\* interrupts, or for a level-7 edge that no second frame can use.
THEOREM FramesDoNotNest == Spec => NoNesting
<1>1. Init => TakenInv
  BY DEF Init, TakenInv
<1>2. TypeOK /\ TakenInv /\ [Next]_vars =>
        [AcceptInterrupt => mask' > mask \/ (mask' = 7 /\ ~irq.edge7)]_vars
  BY DEF AcceptInterrupt, TakenInv, TypeOK
<1> QED
  BY <1>1, <1>2, TypeCorrect, TakenStep, PTL DEF Spec, NoNesting
=============================================================================

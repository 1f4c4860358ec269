--------------------------- MODULE LiveAudioProofs ---------------------------
(***************************************************************************)
(* Proofs about LiveAudio for every clock ratio, sync interval, overshoot, *)
(* queue capacity and number of commands.                                  *)
(***************************************************************************)
EXTENDS LiveAudio, TLAPS

\* A division with remainder loses nothing.
LEMMA DivMod ==
  ASSUME NEW a \in Nat, NEW d \in Nat \ {0}
  PROVE  /\ a \div d \in Nat /\ a % d \in Nat
         /\ d * (a \div d) + (a % d) = a
  <1>1. d * (a \div d) + (a % d) = a
    BY SMTT(60)
  <1>2. a \div d \in Nat /\ a % d \in Nat
    OBVIOUS
  <1> QED
    BY <1>1, <1>2

\* What advance_z80 makes of a step is a number of cycles; nothing is lost.
LEMMA ShareSplits ==
  ASSUME NEW h \in HostState, NEW step \in Nat
  PROVE  /\ Uncovered(h, step) \in Nat /\ Total(h, step) \in Nat
         /\ Z80Share(h, step) \in Nat
         /\ h.credit < step =>
              3 * Z80Share(h, step) + (Total(h, step) % 3)
                = Total(h, step)
         /\ h.credit >= step => Z80Share(h, step) = 0
  <1>1. Uncovered(h, step) \in Nat
    BY DEF Uncovered, HostState
  <1>2. Total(h, step) \in Nat
    BY <1>1 DEF Total, HostState
  <1> DEFINE t == Total(h, step)
  <1>3. t \in Nat /\ Z80Share(h, step) = IF h.credit >= step THEN 0 ELSE t \div 3
    BY <1>2 DEF Z80Share
  <1>4. h.credit \in Nat
    BY DEF HostState
  <1> HIDE DEF t
  <1>5. t \div 3 \in Nat /\ 3 * (t \div 3) + (t % 3) = t
    BY <1>3, DivMod
  <1>6. h.credit < step => ~(h.credit >= step)
    BY <1>4
  <1>7. h.credit >= step => Z80Share(h, step) = 0
    BY <1>3
  <1>8. h.credit < step => Z80Share(h, step) = t \div 3
    BY <1>3, <1>6
  <1>9. Z80Share(h, step) \in Nat
    BY <1>3, <1>5
  <1>10. h.credit < step => 3 * Z80Share(h, step) + (t % 3) = t
    BY <1>5, <1>8
  <1> QED
    BY <1>1, <1>2, <1>7, <1>9, <1>10 DEF t

LEMMA RateType == Rate \in Nat
  BY AudioAssumption DEF Rate

LEMMA AfterStepType ==
  ASSUME NEW h \in HostState, NEW step \in Nat
  PROVE  AfterStep(h, step) \in HostState
  <1> USE AudioAssumption
  <1> DEFINE t == Total(h, step)
             num == h.samples + step * Rate
             hst == IF session = "open" THEN h.hosted ELSE h.hosted + step
  <1>1. t \in Nat
    BY ShareSplits
  <1>2. num \in Nat /\ hst \in Nat
    BY RateType DEF HostState
  <1>3. h.last \in Nat /\ h.credit \in Nat /\ h.remainder \in 0..2
        /\ h.frames \in Nat /\ h.commands \in Nat
    BY DEF HostState
  <1>4. AfterStep(h, step) =
          [last      |-> h.last + step,
           hosted    |-> hst,
           remainder |-> IF h.credit >= step THEN h.remainder ELSE t % 3,
           credit    |-> IF h.credit >= step THEN h.credit - step ELSE 0,
           samples   |-> num % MainClock,
           frames    |-> h.frames + num \div MainClock,
           commands  |-> h.commands]
    BY DEF AfterStep
  <1> HIDE DEF t, num, hst
  <1>5. t % 3 \in 0..2
    BY <1>1
  <1>6. num % MainClock \in Nat /\ num \div MainClock \in Nat
    BY <1>2, DivMod
  <1> QED
    BY <1>2, <1>3, <1>4, <1>5, <1>6 DEF HostState

LEMMA RunZ80Type ==
  ASSUME NEW z \in Z80State, NEW n \in Nat, NEW o \in 0..Overshoot
  PROVE  /\ RunZ80(z, n, o) \in Z80State
         /\ RunZ80(z, n, o).cycles - RunZ80(z, n, o).overshoot
              = z.cycles - z.overshoot + n
  BY AudioAssumption DEF RunZ80, Z80State

\* The step of an advance.
Step == IF goal - host.last > CyclesPerScanline
        THEN CyclesPerScanline ELSE goal - host.last

LEMMA StepNat ==
  ASSUME TypeOK, host.last < goal
  PROVE  Step \in Nat /\ Step # 0 /\ host.last + Step <= goal
  <1>1. host.last \in Nat /\ goal \in Nat
    BY DEF TypeOK, HostState
  <1>2. CyclesPerScanline \in Nat /\ CyclesPerScanline # 0
    BY AudioAssumption
  <1> QED
    BY <1>1, <1>2 DEF Step

(***************************************************************************)
(* One step of an advance, and a command, conserve cycles and samples.     *)
(***************************************************************************)
LEMMA StepBalance ==
  ASSUME NEW h \in HostState, NEW z \in Z80State, NEW step \in Nat,
         NEW o \in 0..Overshoot, Balance(h, z)
  PROVE  Balance(AfterStep(h, step), RunZ80(z, Z80Share(h, step), o))
  <1> DEFINE n == Z80Share(h, step)
             t == Total(h, step)
             w == RunZ80(z, n, o)
             g == AfterStep(h, step)
  <1>1. n \in Nat /\ t \in Nat
        /\ (h.credit < step => 3 * n + (t % 3) = t)
        /\ (h.credit >= step => n = 0)
    BY ShareSplits
  <1>2. w \in Z80State /\ w.cycles - w.overshoot = z.cycles - z.overshoot + n
    BY <1>1, RunZ80Type
  <1>3. g.last = h.last + step
        /\ (h.credit >= step =>
              g.remainder = h.remainder /\ g.credit = h.credit - step)
        /\ (~(h.credit >= step) => g.remainder = t % 3 /\ g.credit = 0)
    BY DEF AfterStep
  <1>4. t = h.remainder + Uncovered(h, step)
    BY DEF Total
  <1>5. ~(h.credit >= step) => t = h.remainder + (step - h.credit)
    BY <1>4 DEF Uncovered
  <1>6. h.last \in Nat /\ h.credit \in Nat /\ h.remainder \in Nat
        /\ z.cycles \in Nat /\ z.overshoot \in Nat
        /\ w.cycles \in Nat /\ w.overshoot \in Nat
    BY <1>2 DEF HostState, Z80State
  <1>7. 3 * z.cycles + h.remainder = h.last + h.credit + 3 * z.overshoot
    BY DEF Balance
  <1> HIDE DEF n, t, w, g
  <1>8. t % 3 \in Nat
    BY <1>1
  <1>9. 3 * w.cycles + g.remainder = g.last + g.credit + 3 * w.overshoot
    <2>1. CASE h.credit >= step
      BY <2>1, <1>1, <1>2, <1>3, <1>6, <1>7
    <2>2. CASE ~(h.credit >= step)
      <3> DEFINE r == t % 3
      <3>1. 3 * n + r = h.remainder + (step - h.credit) /\ g.remainder = r
            /\ g.credit = 0 /\ r \in Nat
        BY <2>2, <1>1, <1>3, <1>5, <1>6, <1>8
      <3> HIDE DEF r
      <3>2. g.last = h.last + step /\ n \in Nat
        BY <1>1, <1>3
      <3> QED
        BY <3>1, <3>2, <1>2, <1>6, <1>7
    <2> QED
      BY <2>1, <2>2
  <1> QED
    BY <1>9 DEF Balance, w, g, n

LEMMA StepSamples ==
  ASSUME NEW h \in HostState, NEW step \in Nat, SamplesOf(h)
  PROVE  SamplesOf(AfterStep(h, step))
  <1> USE AudioAssumption
  <1> DEFINE num == h.samples + step * Rate
             q == num \div MainClock
             r == num % MainClock
             g == AfterStep(h, step)
             early == h.hosted * HostRate
             late == (h.last - h.hosted) * DeviceRate
  <1>1. num \in Nat /\ h.samples \in Nat /\ h.frames \in Nat /\ h.last \in Nat
        /\ h.hosted \in Nat /\ Rate \in Nat
    BY RateType DEF HostState
  <1>2. g.last = h.last + step /\ g.frames = h.frames + q /\ g.samples = r
        /\ g.hosted = IF session = "open" THEN h.hosted ELSE h.hosted + step
    BY DEF AfterStep
  <1>3. h.hosted <= h.last /\ h.frames * MainClock + h.samples = early + late
    BY DEF SamplesOf
  <1> HIDE DEF num
  <1>4. q \in Nat /\ r \in Nat /\ MainClock * q + r = num
    BY <1>1, DivMod
  <1> HIDE DEF q, r, g
  <1>5. MainClock * q + r = h.samples + step * Rate
    BY <1>4 DEF num
  <1>6. (h.frames + q) * MainClock = h.frames * MainClock + MainClock * q
    BY <1>1, <1>4
  <1>7. g.hosted <= g.last
        /\ g.hosted * HostRate + (g.last - g.hosted) * DeviceRate
             = early + late + step * Rate
    <2>1. CASE session = "open"
      <3>1. g.hosted = h.hosted /\ Rate = DeviceRate
            /\ g.last - g.hosted = (h.last - h.hosted) + step
        BY <2>1, <1>1, <1>2 DEF Rate
      <3>2. ((h.last - h.hosted) + step) * DeviceRate = late + step * DeviceRate
        BY <1>1, <1>3
      <3>3. early \in Nat /\ late \in Nat /\ step * DeviceRate \in Nat
        BY <1>1, <1>3
      <3>4. g.hosted <= g.last
        BY <3>1, <1>1, <1>2, <1>3
      <3> HIDE DEF late
      <3>5. g.hosted * HostRate = early
        BY <3>1
      <3> HIDE DEF early
      <3> QED
        BY <3>1, <3>2, <3>3, <3>4, <3>5
    <2>2. CASE session # "open"
      <3>1. g.hosted = h.hosted + step /\ Rate = HostRate
            /\ g.last - g.hosted = h.last - h.hosted
        BY <2>2, <1>1, <1>2 DEF Rate
      <3>2. (h.hosted + step) * HostRate = early + step * HostRate
        BY <1>1
      <3>3. early \in Nat /\ late \in Nat /\ step * HostRate \in Nat
        BY <1>1, <1>3
      <3>4. g.hosted <= g.last
        BY <3>1, <1>1, <1>2, <1>3
      <3>5. (g.last - g.hosted) * DeviceRate = late
        BY <3>1
      <3> HIDE DEF early, late
      <3> QED
        BY <3>1, <3>2, <3>3, <3>4, <3>5
    <2> QED
      BY <2>1, <2>2
  <1>8. h.frames * MainClock \in Nat /\ MainClock * q \in Nat
        /\ early \in Nat /\ late \in Nat /\ step * Rate \in Nat
    BY <1>1, <1>3, <1>4
  <1> HIDE DEF early, late
  <1>9. g.frames * MainClock + g.samples = early + late + step * Rate
    BY <1>1, <1>2, <1>3, <1>4, <1>5, <1>6, <1>8
  <1> QED
    BY <1>7, <1>9 DEF SamplesOf, g

LEMMA SendConserves ==
  ASSUME TypeOK, NEW o \in 0..Overshoot, Send(o)
  PROVE  /\ host' \in HostState /\ z80' \in Z80State /\ host'.last = host.last
         /\ Balance(host, z80) => Balance(host', z80')
         /\ SamplesOf(host) => SamplesOf(host')
  <1> USE AudioAssumption
  <1>1. host \in HostState /\ z80 \in Z80State
    BY DEF TypeOK
  <1>2. z80' \in Z80State
        /\ z80'.cycles - z80'.overshoot
             = z80.cycles - z80.overshoot + ServiceCycles
    BY <1>1, RunZ80Type DEF Send
  <1>a. host.credit \in Nat /\ host.commands \in Nat /\ ServiceCycles \in Nat
    BY <1>1 DEF HostState
  <1>b. host.credit + 3 * ServiceCycles \in Nat /\ host.commands + 1 \in Nat
    BY <1>a
  <1>c. host' = [host EXCEPT !.credit = host.credit + 3 * ServiceCycles,
                             !.commands = host.commands + 1]
    BY DEF Send
  <1> DEFINE credit == host.credit + 3 * ServiceCycles
             commands == host.commands + 1
  <1>d. host' = [host EXCEPT !.credit = credit, !.commands = commands]
        /\ credit \in Nat /\ commands \in Nat
    BY <1>b, <1>c
  <1> HIDE DEF credit, commands
  <1>e. host' \in HostState /\ host'.last = host.last
        /\ host'.remainder = host.remainder /\ host'.credit = credit
        /\ host'.samples = host.samples /\ host'.frames = host.frames
        /\ host'.hosted = host.hosted
    BY <1>1, <1>d DEF HostState
  <1>3. host' \in HostState /\ host'.last = host.last
        /\ host'.remainder = host.remainder
        /\ host'.credit = host.credit + 3 * ServiceCycles
        /\ host'.samples = host.samples /\ host'.frames = host.frames
        /\ host'.hosted = host.hosted
    BY <1>e DEF credit
  <1>4. Balance(host, z80) => Balance(host', z80')
    BY <1>1, <1>2, <1>3 DEF Balance, HostState, Z80State
  <1>5. SamplesOf(host) => SamplesOf(host')
    BY <1>3 DEF SamplesOf
  <1> QED
    BY <1>2, <1>3, <1>4, <1>5

(***************************************************************************)
(* Time stamps of a queue that loses its head or gains a last event.       *)
(***************************************************************************)
LEMMA OrderedTail ==
  ASSUME NEW q \in Seq(Event), q # <<>>, NEW from \in Nat, NEW to \in Nat,
         Ordered(q, from, to)
  PROVE  /\ Head(q) \in Event /\ Tail(q) \in Seq(Event)
         /\ from <= Head(q).cycles /\ Head(q).cycles <= to
         /\ Ordered(Tail(q), Head(q).cycles, to)
         /\ Ordered(Tail(q), from, to)
  <1>1. Len(q) \in Nat /\ Len(q) >= 1 /\ Head(q) = q[1] /\ q[1] \in Event
    OBVIOUS
  <1>2. Tail(q) \in Seq(Event) /\ Len(Tail(q)) = Len(q) - 1
        /\ \A i \in 1..Len(Tail(q)) : Tail(q)[i] = q[i + 1]
    BY <1>1
  <1>4. \A i \in 1..Len(Tail(q)) :
          i + 1 \in 1..Len(q) /\ 1 \in 1..Len(q) /\ 1 <= i + 1
    BY <1>1, <1>2
  <1>5. from <= q[1].cycles /\ q[1].cycles <= to
    BY <1>1 DEF Ordered
  <1>6. \A i \in 1..Len(Tail(q)) :
          /\ q[1].cycles <= Tail(q)[i].cycles /\ Tail(q)[i].cycles <= to
          /\ from <= Tail(q)[i].cycles
    BY <1>2, <1>4 DEF Ordered
  <1>7. \A i, j \in 1..Len(Tail(q)) :
          i <= j => Tail(q)[i].cycles <= Tail(q)[j].cycles
    BY <1>1, <1>2, <1>4 DEF Ordered
  <1>8. from <= to
    BY DEF Ordered
  <1> QED
    BY <1>1, <1>2, <1>5, <1>6, <1>7, <1>8 DEF Ordered

LEMMA OrderedAppend ==
  ASSUME NEW q \in Seq(Event), NEW e \in Event, NEW from \in Nat,
         Ordered(q, from, e.cycles)
  PROVE  /\ Append(q, e) \in Seq(Event)
         /\ Ordered(Append(q, e), from, e.cycles)
  <1>1. Append(q, e) \in Seq(Event) /\ Len(Append(q, e)) = Len(q) + 1
        /\ Len(q) \in Nat /\ e.cycles \in Nat
        /\ \A i \in 1..Len(Append(q, e)) :
             Append(q, e)[i] = IF i \in 1..Len(q) THEN q[i] ELSE e
    BY DEF Event
  <1>2. \A i \in 1..(Len(q) + 1) : i \in 1..Len(q) \/ i = Len(q) + 1
    BY <1>1
  <1>3. \A i, j \in 1..Len(Append(q, e)) :
          i <= j => Append(q, e)[i].cycles <= Append(q, e)[j].cycles
    BY <1>1, <1>2 DEF Ordered
  <1>4. \A i \in 1..Len(Append(q, e)) :
          from <= Append(q, e)[i].cycles /\ Append(q, e)[i].cycles <= e.cycles
    BY <1>1, <1>2 DEF Ordered
  <1> QED
    BY <1>1, <1>3, <1>4 DEF Ordered

(***************************************************************************)
(* Type correctness.                                                       *)
(***************************************************************************)
LEMMA NewTypes ==
  /\ NewHost \in HostState /\ NewZ80 \in Z80State
  /\ Balance(NewHost, NewZ80) /\ SamplesOf(NewHost)
  BY AudioAssumption DEF NewHost, NewZ80, HostState, Z80State, Balance,
     SamplesOf

LEMMA TypeInit == Init => TypeOK
  <1> SUFFICES ASSUME Init PROVE TypeOK
    OBVIOUS
  <1>1. fifo = <<>> /\ overflows = 0 /\ popped = <<>>
        /\ queue_saved = [fifo |-> <<>>, overflows |-> 0]
    BY DEF Init, Fifo!Init
  <1>2. host \in HostState /\ z80 \in Z80State
    BY NewTypes DEF Init
  <1>3. saved \in [cpu_cycles : Nat, host : HostState, z80 : Z80State]
    BY <1>2 DEF Init
  <1> QED
    BY <1>1, <1>2, <1>3 DEF Init, TypeOK

LEMMA TypeNext == TypeOK /\ [Next]_vars => TypeOK'
  <1> SUFFICES ASSUME TypeOK, [Next]_vars PROVE TypeOK'
    OBVIOUS
  <1> USE AudioAssumption
  <1>1. CASE UNCHANGED vars
    BY <1>1 DEF vars, queueVars, TypeOK
  <1>2. ASSUME NEW n \in InstrCycles, CycleHook(n) PROVE TypeOK'
    BY <1>2 DEF CycleHook, queueVars, TypeOK
  <1>3. CASE EndInstruction
    BY <1>3 DEF EndInstruction, queueVars, TypeOK
  <1>4. ASSUME NEW c \in Commands, WriteCommand(c) PROVE TypeOK'
    <2> DEFINE e == [cycles |-> cpu_cycles, command |-> c]
    <2>1. e \in Event
      BY DEF Event, TypeOK
    <2>2. Fifo!Write(e)
      BY <1>4 DEF WriteCommand
    <2> HIDE DEF e
    <2>3. fifo \in Seq(Event) /\ overflows \in Nat
      BY DEF TypeOK
    <2>4. Len(fifo) >= Capacity => Tail(fifo) \in Seq(Event)
      BY <2>3
    <2>5. fifo' \in Seq(Event) /\ overflows' \in Nat
          /\ UNCHANGED <<popped, queue_saved>>
      BY <2>1, <2>2, <2>3, <2>4 DEF Fifo!Write
    <2> QED
      BY <1>4, <2>5 DEF WriteCommand, TypeOK
  <1>5. CASE HostSync
    BY <1>5 DEF HostSync, queueVars, TypeOK
  <1>6. CASE PopEvent
    <2>1. fifo \in Seq(Event) /\ fifo # <<>> /\ popped' = <<Head(fifo)>>
          /\ fifo' = Tail(fifo) /\ UNCHANGED <<overflows, queue_saved>>
      BY <1>6 DEF PopEvent, Fifo!Pop, TypeOK
    <2>2. Head(fifo) \in Event /\ fifo' \in Seq(Event)
      BY <2>1
    <2>3. popped' \in Seq(Event) /\ popped'[1] = Head(fifo)
      BY <2>1, <2>2
    <2>4. Head(fifo).cycles \in Nat /\ Head(fifo).command \in Commands
      BY <2>2 DEF Event
    <2>5. goal' \in Nat /\ sending' \in Seq(Commands)
      BY <1>6, <2>3, <2>4 DEF PopEvent, TypeOK
    <2> QED
      BY <1>6, <2>1, <2>2, <2>3, <2>5 DEF PopEvent, TypeOK
  <1>7. CASE QueueEmpty
    BY <1>7 DEF QueueEmpty, queueVars, TypeOK
  <1>8. CASE Advance
    <2>1. Step \in Nat /\ host' = AfterStep(host, Step)
      BY <1>8, StepNat DEF Advance, Step
    <2>2. PICK o \in 0..Overshoot :
            z80' = RunZ80(z80, Z80Share(host, Step), o)
      BY <1>8 DEF Advance, Step
    <2>3. host \in HostState /\ z80 \in Z80State
      BY DEF TypeOK
    <2>4. host' \in HostState
      BY <2>1, <2>3, AfterStepType
    <2>5. z80' \in Z80State
      BY <2>1, <2>2, <2>3, ShareSplits, RunZ80Type
    <2> QED
      BY <1>8, <2>4, <2>5 DEF Advance, queueVars, TypeOK
  <1>9. CASE SendCommand
    <2>1. host' \in HostState /\ z80' \in Z80State
      BY <1>9, SendConserves DEF SendCommand
    <2> QED
      BY <1>9, <2>1 DEF SendCommand, queueVars, TypeOK
  <1>10. CASE SyncReturns
    BY <1>10 DEF SyncReturns, queueVars, TypeOK
  <1>11. CASE DiagnosticCommand
    <2>1. host' \in HostState /\ z80' \in Z80State
      BY <1>11, SendConserves DEF DiagnosticCommand
    <2> QED
      BY <1>11, <2>1 DEF DiagnosticCommand, queueVars, TypeOK
  <1>12. CASE SaveState
    BY <1>12 DEF SaveState, Fifo!Save, TypeOK
  <1>13. CASE LoadState
    <2>1. saved.host \in HostState /\ saved.cpu_cycles \in Nat
          /\ saved.z80 \in Z80State
      BY DEF TypeOK
    <2>2. host' \in HostState
      BY <1>13, <2>1 DEF LoadState, HostState
    <2>3. fifo' \in Seq(Event) /\ overflows' \in Nat
          /\ UNCHANGED <<popped, queue_saved>>
      BY <1>13 DEF LoadState, Fifo!Load, TypeOK
    <2> QED
      BY <1>13, <2>1, <2>2, <2>3 DEF LoadState, MayLoad, Live, TypeOK
  <1>14. CASE OpenDevice
    <2>1. host' \in HostState /\ z80' \in Z80State
      BY <1>14, SendConserves DEF OpenDevice, TypeOK
    <2> QED
      BY <1>14, <2>1 DEF OpenDevice, queueVars, TypeOK
  <1>15. CASE NewSession
    BY <1>15, NewTypes DEF NewSession, Fifo!Reset, TypeOK
  <1> QED
    BY <1>1, <1>2, <1>3, <1>4, <1>5, <1>6, <1>7, <1>8, <1>9, <1>10, <1>11,
       <1>12, <1>13, <1>14, <1>15 DEF Next, Cpu, Sync

(***************************************************************************)
(* The inductive invariant.  StampsOrdered, CommandOnTime and CaughtUp are *)
(* not inductive by themselves: an advance must stop at its goal, which is *)
(* the stamp of the popped event and lies before the rest of the queue, or *)
(* the time of the 68000 when the queue is empty; and what is saved was    *)
(* saved between two instructions.                                         *)
(***************************************************************************)
AdvanceBounded ==
  phase = "advance" =>
    /\ host.last <= goal /\ goal <= cpu_cycles
    /\ \A i \in 1..Len(fifo) : goal <= fifo[i].cycles
    /\ sending # <<>> => popped # <<>> /\ goal = popped[1].cycles
    /\ sending = <<>> => goal = cpu_cycles /\ fifo = <<>>

SavedAtBoundary ==
  \A i \in 1..Len(queue_saved.fifo) :
    queue_saved.fifo[i].cycles = saved.cpu_cycles

Timely == StampsOrdered /\ AdvanceBounded /\ SavedAtBoundary /\ CaughtUp

\* The clamp of live_load_savestate never acts on a state this host saved.
LEMMA LoadRestores ==
  ASSUME TypeOK, StampsOrdered, LoadState
  PROVE  host' = saved.host
  <1>1. saved.host \in HostState /\ saved.host.last \in Nat
        /\ saved.cpu_cycles \in Nat
    BY DEF TypeOK, HostState
  <1>2. saved.host.last <= saved.cpu_cycles
    BY DEF StampsOrdered, Ordered
  <1>3. ~(saved.host.last > saved.cpu_cycles)
    BY <1>1, <1>2
  <1>4. host' = [saved.host EXCEPT !.last = saved.host.last]
    BY <1>3 DEF LoadState
  <1> QED
    BY <1>1, <1>4 DEF HostState

LEMMA TimelyInit == Init => Timely
  <1> SUFFICES ASSUME Init PROVE Timely
    OBVIOUS
  <1>1. fifo = <<>> /\ queue_saved.fifo = <<>> /\ phase = "run"
        /\ host.last = 0 /\ cpu_cycles = 0 /\ saved.host.last = 0
        /\ saved.cpu_cycles = 0
    BY DEF Init, NewHost, Fifo!Init
  <1>2. Len(fifo) = 0 /\ Len(queue_saved.fifo) = 0
    BY <1>1
  <1> QED
    BY <1>1, <1>2 DEF Timely, StampsOrdered, Ordered, AdvanceBounded,
       SavedAtBoundary, CaughtUp

LEMMA TimelyNext == TypeOK /\ Timely /\ [Next]_vars => Timely'
  <1> SUFFICES ASSUME TypeOK, Timely, [Next]_vars PROVE Timely'
    OBVIOUS
  <1> USE AudioAssumption
  <1>a. TypeOK'
    BY TypeNext
  <1>b. cpu_cycles \in Nat /\ goal \in Nat /\ host.last \in Nat
        /\ fifo \in Seq(Event) /\ queue_saved.fifo \in Seq(Event)
        /\ saved.host.last \in Nat /\ saved.cpu_cycles \in Nat
    BY DEF TypeOK, HostState
  <1>c. Len(fifo) \in Nat /\ \A i \in 1..Len(fifo) : fifo[i].cycles \in Nat
    <2>1. \A i \in 1..Len(fifo) : fifo[i] \in Event
      BY <1>b
    <2> QED
      BY <1>b, <2>1 DEF Event
  <1>d. Ordered(fifo, host.last, cpu_cycles)
        /\ Ordered(queue_saved.fifo, saved.host.last, saved.cpu_cycles)
    BY DEF Timely, StampsOrdered
  <1>1. CASE UNCHANGED vars
    BY <1>1 DEF vars, queueVars, Timely, StampsOrdered, Ordered,
       AdvanceBounded, SavedAtBoundary, CaughtUp
  <1>2. ASSUME NEW n \in InstrCycles, CycleHook(n) PROVE Timely'
    <2>1. n \in Nat /\ cpu_cycles' = cpu_cycles + n
          /\ UNCHANGED <<fifo, queue_saved, host, saved>>
      BY <1>2 DEF CycleHook, queueVars
    <2>2. Ordered(fifo, host.last, cpu_cycles)'
      <3>1. host.last <= cpu_cycles + n
        BY <1>b, <1>d, <2>1 DEF Ordered
      <3>2. \A i \in 1..Len(fifo) : fifo[i].cycles <= cpu_cycles + n
        BY <1>b, <1>c, <1>d, <2>1 DEF Ordered
      <3> QED
        BY <1>d, <2>1, <3>1, <3>2 DEF Ordered
    <2>3. phase' # "advance" /\ phase' # "run"
      BY <1>2 DEF CycleHook
    <2>4. phase' = "execute" =>
            fifo = <<>> /\ ~(cpu_cycles' - host.last >= SyncCycles)
      BY <1>2 DEF CycleHook, SyncDue
    <2>5. fifo = <<>> => Len(fifo) = 0
      OBVIOUS
    <2>6. CaughtUp'
      BY <1>b, <2>1, <2>3, <2>4, <2>5 DEF CaughtUp
    <2> QED
      BY <1>d, <2>1, <2>2, <2>3, <2>6 DEF Timely, StampsOrdered,
         AdvanceBounded, SavedAtBoundary
  <1>3. CASE EndInstruction
    BY <1>3 DEF EndInstruction, queueVars, Timely, StampsOrdered, Ordered,
       AdvanceBounded, SavedAtBoundary, CaughtUp
  <1>4. ASSUME NEW c \in Commands, WriteCommand(c) PROVE Timely'
    <2> DEFINE e == [cycles |-> cpu_cycles, command |-> c]
    <2>1. e \in Event /\ e.cycles = cpu_cycles
      BY <1>b DEF Event
    <2>2. Fifo!Write(e) /\ phase = "execute"
          /\ UNCHANGED <<phase, cpu_cycles, host, saved>>
      BY <1>4 DEF WriteCommand
    <2> HIDE DEF e
    <2>3. PICK q \in Seq(Event) :
            /\ fifo' = Append(q, e) /\ UNCHANGED queue_saved
            /\ Ordered(q, host.last, cpu_cycles)
            /\ \A i \in 1..Len(q) : q[i].cycles = cpu_cycles
      <3>1. \A i \in 1..Len(fifo) : fifo[i].cycles = cpu_cycles
        BY <2>2 DEF Timely, CaughtUp
      <3>2. CASE Len(fifo) < Capacity
        BY <1>b, <1>d, <2>2, <3>1, <3>2 DEF Fifo!Write
      <3>3. CASE Len(fifo) >= Capacity
        <4>1. fifo # <<>>
          BY <3>3
        <4>2. Tail(fifo) \in Seq(Event)
              /\ Ordered(Tail(fifo), host.last, cpu_cycles)
          BY <1>b, <1>d, <4>1, OrderedTail
        <4>3. \A i \in 1..Len(Tail(fifo)) : Tail(fifo)[i].cycles = cpu_cycles
          <5>1. Len(Tail(fifo)) = Len(fifo) - 1
                /\ \A i \in 1..Len(Tail(fifo)) : Tail(fifo)[i] = fifo[i + 1]
            BY <1>b, <4>1
          <5>2. \A i \in 1..Len(Tail(fifo)) : i + 1 \in 1..Len(fifo)
            BY <1>c, <5>1
          <5> QED
            BY <3>1, <5>1, <5>2
        <4>4. fifo' = Append(Tail(fifo), e) /\ UNCHANGED queue_saved
          BY <2>2, <3>3, <1>c DEF Fifo!Write
        <4> DEFINE t == Tail(fifo)
        <4>5. /\ t \in Seq(Event) /\ Ordered(t, host.last, cpu_cycles)
              /\ \A i \in 1..Len(t) : t[i].cycles = cpu_cycles
              /\ fifo' = Append(t, e) /\ UNCHANGED queue_saved
          BY <4>2, <4>3, <4>4
        <4> HIDE DEF t
        <4> QED
          BY <4>5, Zenon
      <3>4. Len(fifo) < Capacity \/ Len(fifo) >= Capacity
        BY <1>c
      <3> QED
        BY <3>2, <3>3, <3>4
    <2>4. Ordered(fifo', host.last, cpu_cycles)
      BY <1>b, <2>1, <2>3, OrderedAppend
    <2>5. \A i \in 1..Len(fifo') : fifo'[i].cycles = cpu_cycles
      <3>1. Len(fifo') = Len(q) + 1 /\ Len(q) \in Nat
            /\ \A i \in 1..Len(fifo') :
                 fifo'[i] = IF i \in 1..Len(q) THEN q[i] ELSE e
        BY <2>1, <2>3
      <3> QED
        BY <2>1, <2>3, <3>1
    <2>6. cpu_cycles - host.last < SyncCycles
      BY <2>2 DEF Timely, CaughtUp
    <2> QED
      BY <1>d, <2>2, <2>3, <2>4, <2>5, <2>6 DEF Timely, StampsOrdered,
         AdvanceBounded, SavedAtBoundary, CaughtUp
  <1>5. CASE HostSync
    BY <1>5 DEF HostSync, queueVars, Timely, StampsOrdered, Ordered,
       AdvanceBounded, SavedAtBoundary, CaughtUp
  <1>6. CASE PopEvent
    <2>1. fifo # <<>> /\ popped' = <<Head(fifo)>> /\ fifo' = Tail(fifo)
          /\ phase' = "advance" /\ sending' # <<>>
          /\ UNCHANGED <<queue_saved, cpu_cycles, host, saved>>
      BY <1>6 DEF PopEvent, Fifo!Pop
    <2>2. Head(fifo) \in Event /\ host.last <= Head(fifo).cycles
          /\ Head(fifo).cycles <= cpu_cycles
          /\ Ordered(Tail(fifo), Head(fifo).cycles, cpu_cycles)
          /\ Ordered(Tail(fifo), host.last, cpu_cycles)
      BY <1>b, <1>d, <2>1, OrderedTail
    <2>3. popped' # <<>> /\ popped'[1] = Head(fifo)
      BY <2>1, <2>2
    <2>4. Head(fifo).cycles \in Nat
      BY <2>2 DEF Event
    <2>5. goal' = popped'[1].cycles /\ goal' = Head(fifo).cycles
      BY <1>6, <1>b, <2>2, <2>3, <2>4 DEF PopEvent
    <2>6. AdvanceBounded'
      BY <2>1, <2>2, <2>3, <2>5 DEF AdvanceBounded, Ordered
    <2> QED
      BY <1>d, <2>1, <2>2, <2>6 DEF Timely, StampsOrdered, SavedAtBoundary,
         CaughtUp
  <1>7. CASE QueueEmpty
    <2>1. fifo = <<>> /\ Len(fifo) = 0 /\ goal' = cpu_cycles
          /\ sending' = <<>> /\ phase' = "advance"
          /\ UNCHANGED <<fifo, queue_saved, cpu_cycles, host, saved>>
      BY <1>7 DEF QueueEmpty, queueVars
    <2>2. AdvanceBounded'
      BY <1>b, <1>d, <2>1 DEF AdvanceBounded, Ordered
    <2> QED
      BY <1>d, <2>1, <2>2 DEF Timely, StampsOrdered, SavedAtBoundary, CaughtUp
  <1>8. CASE Advance
    <2>1. Step \in Nat /\ host.last + Step <= goal
          /\ host' = AfterStep(host, Step) /\ phase = "advance"
          /\ UNCHANGED <<phase, cpu_cycles, fifo, popped, queue_saved,
                         sending, goal, saved>>
      BY <1>8, StepNat DEF Advance, Step, queueVars
    <2>2. host'.last = host.last + Step
      BY <2>1 DEF AfterStep
    <2>3. AdvanceBounded
      BY DEF Timely
    <2>4. goal <= cpu_cycles /\ \A i \in 1..Len(fifo) : goal <= fifo[i].cycles
      BY <2>1, <2>3 DEF AdvanceBounded
    <2>5. Ordered(fifo, host'.last, cpu_cycles)
      BY <1>b, <1>c, <1>d, <2>1, <2>2, <2>4 DEF Ordered
    <2>6. AdvanceBounded'
      BY <2>1, <2>2, <2>3 DEF AdvanceBounded
    <2> QED
      BY <1>d, <2>1, <2>5, <2>6 DEF Timely, StampsOrdered, SavedAtBoundary,
         CaughtUp
  <1>9. CASE SendCommand
    <2>1. host'.last = host.last /\ phase' = "sync"
          /\ UNCHANGED <<cpu_cycles, fifo, queue_saved, saved>>
      BY <1>9, SendConserves DEF SendCommand, queueVars
    <2> QED
      BY <1>d, <2>1 DEF Timely, StampsOrdered, AdvanceBounded,
         SavedAtBoundary, CaughtUp
  <1>10. CASE SyncReturns
    <2>1. phase = "advance" /\ host.last >= goal /\ sending = <<>>
          /\ phase' \in {"run", "execute"}
          /\ UNCHANGED <<cpu_cycles, fifo, queue_saved, host, saved>>
      BY <1>10 DEF SyncReturns, queueVars, TypeOK
    <2>2. goal = cpu_cycles /\ fifo = <<>> /\ host.last <= goal
      BY <2>1 DEF Timely, AdvanceBounded
    <2>3. cpu_cycles - host.last < SyncCycles /\ Len(fifo) = 0
      BY <1>b, <2>1, <2>2
    <2> QED
      BY <1>d, <2>1, <2>3 DEF Timely, StampsOrdered, AdvanceBounded,
         SavedAtBoundary, CaughtUp
  <1>11. CASE DiagnosticCommand
    <2>1. host'.last = host.last /\ phase = "run"
          /\ UNCHANGED <<phase, cpu_cycles, fifo, queue_saved, saved>>
      BY <1>11, SendConserves DEF DiagnosticCommand, queueVars
    <2> QED
      BY <1>d, <2>1 DEF Timely, StampsOrdered, AdvanceBounded,
         SavedAtBoundary, CaughtUp
  <1>12. CASE SaveState
    <2>1. phase = "run" /\ queue_saved'.fifo = fifo
          /\ saved'.cpu_cycles = cpu_cycles /\ saved'.host = host
          /\ UNCHANGED <<phase, cpu_cycles, fifo, host>>
      BY <1>12 DEF SaveState, Fifo!Save
    <2>2. SavedAtBoundary'
      BY <2>1 DEF SavedAtBoundary, Timely, CaughtUp
    <2> QED
      BY <1>d, <2>1, <2>2 DEF Timely, StampsOrdered, AdvanceBounded, CaughtUp
  <1>13. CASE LoadState
    <2>1. phase = "run" /\ fifo' = queue_saved.fifo
          /\ cpu_cycles' = saved.cpu_cycles
          /\ UNCHANGED <<phase, queue_saved, saved>>
      BY <1>13 DEF LoadState, MayLoad, Fifo!Load
    <2>3. host' = saved.host
      BY <1>13, LoadRestores DEF Timely
    <2>4. SavedAtBoundary
      BY DEF Timely
    <2> QED
      BY <1>d, <2>1, <2>3, <2>4 DEF Timely, StampsOrdered, AdvanceBounded,
         SavedAtBoundary, CaughtUp
  <1>14. CASE OpenDevice
    <2>1. host'.last = host.last /\ phase = "run"
          /\ UNCHANGED <<phase, cpu_cycles, fifo, queue_saved, saved>>
      BY <1>14, SendConserves DEF OpenDevice, queueVars
    <2> QED
      BY <1>d, <2>1 DEF Timely, StampsOrdered, AdvanceBounded,
         SavedAtBoundary, CaughtUp
  <1>15. CASE NewSession
    <2>1. host'.last = 0 /\ cpu_cycles' = 0 /\ fifo' = <<>> /\ phase' = "run"
          /\ UNCHANGED <<queue_saved, saved>>
      BY <1>15 DEF NewSession, NewHost, Fifo!Reset
    <2>2. Len(fifo') = 0
      BY <2>1
    <2>3. Ordered(fifo', 0, 0)
      BY <2>2 DEF Ordered
    <2> QED
      BY <1>d, <2>1, <2>2, <2>3 DEF Timely, StampsOrdered, AdvanceBounded,
         SavedAtBoundary, CaughtUp
  <1> QED
    BY <1>1, <1>2, <1>3, <1>4, <1>5, <1>6, <1>7, <1>8, <1>9, <1>10, <1>11,
       <1>12, <1>13, <1>14, <1>15 DEF Next, Cpu, Sync

(***************************************************************************)
(* Conservation, which needs Timely for the load of a state.               *)
(***************************************************************************)
Conserved == CyclesConserved /\ SamplesConserved

LEMMA ConservedInit == Init => Conserved
  <1> SUFFICES ASSUME Init PROVE Conserved
    OBVIOUS
  <1>1. host = NewHost /\ z80 = NewZ80 /\ saved.host = host /\ saved.z80 = z80
    BY DEF Init
  <1> QED
    BY <1>1, NewTypes DEF Conserved, CyclesConserved, SamplesConserved

LEMMA ConservedNext ==
  TypeOK /\ Timely /\ Conserved /\ [Next]_vars => Conserved'
  <1> SUFFICES ASSUME TypeOK, Timely, Conserved, [Next]_vars PROVE Conserved'
    OBVIOUS
  <1>a. Balance(host, z80) /\ Balance(saved.host, saved.z80)
        /\ SamplesOf(host) /\ SamplesOf(saved.host)
    BY DEF Conserved, CyclesConserved, SamplesConserved
  <1>b. host \in HostState /\ z80 \in Z80State
    BY DEF TypeOK
  <1>1. CASE UNCHANGED <<host, z80, saved>>
    BY <1>1, <1>a DEF Conserved, CyclesConserved, SamplesConserved
  <1>2. CASE Advance
    <2>1. Step \in Nat /\ host' = AfterStep(host, Step) /\ saved' = saved
      BY <1>2, StepNat DEF Advance, Step
    <2>2. PICK o \in 0..Overshoot :
            z80' = RunZ80(z80, Z80Share(host, Step), o)
      BY <1>2 DEF Advance, Step
    <2>3. Balance(host', z80')
      BY <1>a, <1>b, <2>1, <2>2, StepBalance
    <2>4. SamplesOf(host')
      BY <1>a, <1>b, <2>1, StepSamples
    <2> QED
      BY <1>a, <2>1, <2>3, <2>4 DEF Conserved, CyclesConserved,
         SamplesConserved
  <1>3. CASE SendCommand \/ DiagnosticCommand
    <2>1. PICK o \in 0..Overshoot : Send(o)
      BY <1>3 DEF SendCommand, DiagnosticCommand
    <2>2. saved' = saved
      BY <1>3 DEF SendCommand, DiagnosticCommand
    <2>3. Balance(host', z80') /\ SamplesOf(host')
      BY <1>a, <2>1, SendConserves
    <2> QED
      BY <1>a, <2>2, <2>3 DEF Conserved, CyclesConserved, SamplesConserved
  <1>4. CASE SaveState
    <2>1. saved'.host = host /\ saved'.z80 = z80 /\ UNCHANGED <<host, z80>>
      BY <1>4 DEF SaveState
    <2> QED
      BY <1>a, <2>1 DEF Conserved, CyclesConserved, SamplesConserved
  <1>5. CASE LoadState
    <2>1. host' = saved.host
      BY <1>5, LoadRestores DEF Timely
    <2>2. z80' = saved.z80 /\ saved' = saved
      BY <1>5 DEF LoadState
    <2> QED
      BY <1>a, <2>1, <2>2 DEF Conserved, CyclesConserved, SamplesConserved
  <1>6. ASSUME NEW n \in InstrCycles, CycleHook(n) PROVE Conserved'
    BY <1>1, <1>6 DEF CycleHook
  <1>7. ASSUME NEW c \in Commands, WriteCommand(c) PROVE Conserved'
    BY <1>1, <1>7 DEF WriteCommand
  <1>8. CASE EndInstruction \/ HostSync \/ PopEvent \/ QueueEmpty \/ SyncReturns
    BY <1>1, <1>8 DEF EndInstruction, HostSync, PopEvent, QueueEmpty,
       SyncReturns
  <1>9. CASE UNCHANGED vars
    BY <1>1, <1>9 DEF vars
  <1>10. CASE OpenDevice
    <2>1. saved' = saved /\ Balance(host', z80') /\ SamplesOf(host')
      BY <1>10, <1>a, SendConserves DEF OpenDevice
    <2> QED
      BY <1>a, <2>1 DEF Conserved, CyclesConserved, SamplesConserved
  <1>11. CASE NewSession
    <2>1. host' = NewHost /\ z80' = NewZ80 /\ saved' = saved
      BY <1>11 DEF NewSession
    <2> QED
      BY <1>a, <2>1, NewTypes DEF Conserved, CyclesConserved, SamplesConserved
  <1> QED
    BY <1>2, <1>3, <1>4, <1>5, <1>6, <1>7, <1>8, <1>9, <1>10, <1>11
       DEF Next, Cpu, Sync

AudioInv == TypeOK /\ Timely /\ Conserved

LEMMA AudioInvariant == Spec => []AudioInv
  <1>1. Init => AudioInv
    BY TypeInit, TimelyInit, ConservedInit DEF AudioInv
  <1>2. AudioInv /\ [Next]_vars => AudioInv'
    BY TypeNext, TimelyNext, ConservedNext DEF AudioInv
  <1> QED
    BY <1>1, <1>2, PTL DEF Spec

\* Types: every counter of the audio side of sdl_live_host.c stays a natural
\* number; no unsigned subtraction of it wraps.
THEOREM AudioTypes == Spec => []TypeOK
  <1>1. AudioInv => TypeOK
    BY DEF AudioInv
  <1> QED
    BY <1>1, AudioInvariant, PTL

\* live_audio_send_command's borrowed time is paid back to the cycle, for
\* every length of the service window and whatever the Z80 overshoots.
THEOREM Z80Conserved == Spec => []CyclesConserved
  <1>1. AudioInv => CyclesConserved
    BY DEF AudioInv, Conserved
  <1> QED
    BY <1>1, AudioInvariant, PTL

\* live_audio_generate_and_queue neither loses nor adds a sample, for every
\* main clock, rate of the host and rate the device opens with, over
\* fast-forward, opening, saves, loads and new sessions.
THEOREM SamplesExact == Spec => []SamplesConserved
  <1>1. AudioInv => SamplesConserved
    BY DEF AudioInv, Conserved
  <1> QED
    BY <1>1, AudioInvariant, PTL

\* The stamps of the queued commands lie between the time the audio has
\* reached and the time of the 68000, across saves and loads.
THEOREM StampsCorrect == Spec => []StampsOrdered
  <1>1. AudioInv => StampsOrdered
    BY DEF AudioInv, Timely
  <1> QED
    BY <1>1, AudioInvariant, PTL

\* live_audio_sync_to_runtime hands a command to the Z80 at exactly the cycle
\* it was written at, however many are queued.
THEOREM CommandsOnTime == Spec => []CommandOnTime
  <1>1. AudioInv => CommandOnTime
    <2> SUFFICES ASSUME AudioInv, phase = "advance", sending # <<>>,
                        host.last >= goal
                 PROVE  host.last = popped[1].cycles
      BY DEF CommandOnTime
    <2>1. host.last \in Nat /\ goal \in Nat
      BY DEF AudioInv, TypeOK, HostState
    <2>2. host.last <= goal /\ goal = popped[1].cycles
      BY DEF AudioInv, Timely, AdvanceBounded
    <2> QED
      BY <2>1, <2>2
  <1> QED
    BY <1>1, AudioInvariant, PTL

\* live_audio_cycle_observer: at every instruction the Z80 has heard all
\* earlier commands and is less than the sync interval behind.
THEOREM ObserverKeepsUp == Spec => []CaughtUp
  <1>1. AudioInv => CaughtUp
    BY DEF AudioInv, Timely
  <1> QED
    BY <1>1, AudioInvariant, PTL
=============================================================================

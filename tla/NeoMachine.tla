----------------------------- MODULE NeoMachine -----------------------------
(***************************************************************************)
(* The instruction boundary of the generated C code driving the Neo Geo    *)
(* runtime.  recompiler/src/c_emitter.c emits, around every translated     *)
(* 68000 instruction,                                                      *)
(*                                                                         *)
(*    should_yield ; service_interrupt ; CYCLE_HOOK ; the instruction      *)
(*                                                                         *)
(* where service_interrupt is service_reset ; take_interrupt ;             *)
(* service_reset ; push the interrupt frame.  take_interrupt and the cycle *)
(* hook advance the scanline clock, the LSPC timer and the watchdog of     *)
(* runtime/src/neogeo_runtime.c; the instruction itself reaches them       *)
(* through bus writes.  `phase' is the position in this sequence, and each *)
(* pass of a loop in the runtime is a step, so that nothing here is        *)
(* recursive.                                                              *)
(***************************************************************************)
EXTENDS NeoRuntime

CONSTANTS
  AutoScanline,  \* polls per scanline when no cycles are reported, 0 = off
  AutoVblank,    \* polls per vertical blank when no cycles are reported, 0 = off
  InstrCycles,   \* the cycle counts of instructions; 0 = no cycle hook
  Modes,         \* the values the program writes to LSPCMODE
  TimerWords,    \* the values the program writes to TIMERHIGH and TIMERLOW
  Acks,          \* the values the program writes to IRQACK
  Masks,         \* the interrupt masks the program loads into SR
  Latches,       \* the system latches the program switches: bios, sram
  HostLevels,    \* levels the embedder raises with set_interrupt_level
  HostReset,     \* whether the embedder calls request_reset_interrupt
  MaxCycles,     \* bound: the host's budget of 68000 cycles
  MaxFrames      \* bound: the host's budget of frames

ASSUME MachineAssumption ==
  /\ AutoScanline \in Nat /\ AutoVblank \in Nat
  /\ InstrCycles \subseteq Nat
  /\ Modes \subseteq SUBSET ModeFlags
  /\ TimerWords \subseteq 0..(TimerHalf - 1)
  /\ Acks \subseteq SUBSET Sources
  /\ Masks \subseteq 0..7
  /\ Latches \subseteq {"bios", "sram"}
  /\ HostLevels \subseteq 0..7
  /\ HostReset \in BOOLEAN
  /\ MaxCycles \in Nat /\ MaxFrames \in Nat

VARIABLES
  phase,           \* position in the emitted instruction sequence
  irq, timer, dog, \* the records of NeoRuntime
  lspc_mode,       \* timer flags of the LSPCMODE register
  latches,         \* system latches that are set
  mask,            \* interrupt mask in the 68000 status register
  stop,            \* the instruction being serviced is STOP
  taken,           \* level returned by take_interrupt, 0 = none
  scanline, frame_count,
  cpu_cycles, scanline_cycle, active,
  polls,           \* interrupt_polls
  cycles_left,     \* the argument of advance_cpu_cycles still to be consumed
  ticks_left,      \* the argument of advance_timer still to be consumed
  caller,          \* who called advance_scanline: take_interrupt or cycles
  api_line,        \* history: the embedder drove the interrupt line last
  poll_lines,      \* history: scanlines advanced by take_interrupt
  timer_entry      \* history: timer and its interrupt on entry to advance_timer

cpuVars   == <<latches, mask, stop>>
clockVars == <<scanline, frame_count, cpu_cycles, scanline_cycle, active>>
lineVars  == <<ticks_left, caller, poll_lines, timer_entry>>
vars == <<phase, irq, timer, dog, lspc_mode, cpuVars, taken, clockVars, polls,
          cycles_left, lineVars, api_line>>

Phases == {"boundary", "timer", "pollTail", "accept", "cycles", "execute",
           "halted"}

\* ng_neogeo_reset_runtime, the start-up settings and SR = $2700.
Init ==
  /\ phase = "boundary"
  /\ irq = [pending |-> {}, level |-> 0, edge7 |-> FALSE]
  /\ timer = [high |-> 0, low |-> 0, counter |-> 0, loaded |-> FALSE]
  /\ dog = [last_poll |-> 0, last_cycle |-> 0, pending |-> FALSE]
  /\ lspc_mode = {} /\ latches = {}
  /\ mask = 7 /\ stop = FALSE /\ taken = 0
  /\ scanline = 0 /\ frame_count = 0
  /\ cpu_cycles = 0 /\ scanline_cycle = 0 /\ active = FALSE
  /\ polls = 0 /\ cycles_left = 0 /\ ticks_left = 0 /\ caller = "none"
  /\ api_line = FALSE /\ poll_lines = 0
  /\ timer_entry = [timer |-> timer, fired |-> FALSE]

(***************************************************************************)
(* The host.  should_yield ends the run when the budget is used up; the    *)
(* STOP instruction polls once without asking it.                          *)
(***************************************************************************)
BudgetLeft == cpu_cycles < MaxCycles /\ frame_count < MaxFrames

Yield ==
  /\ phase = "boundary" /\ ~stop /\ ~BudgetLeft
  /\ phase' = "halted"
  /\ UNCHANGED <<irq, timer, dog, lspc_mode, cpuVars, taken, clockVars, polls,
                 cycles_left, lineVars, api_line>>

SetInterruptLevel(l) ==
  /\ phase = "boundary"
  /\ irq' = SetLevel(irq, l)
  /\ api_line' = TRUE
  /\ UNCHANGED <<phase, timer, dog, lspc_mode, cpuVars, taken, clockVars,
                 polls, cycles_left, lineVars>>

RequestReset ==
  /\ HostReset
  /\ phase = "boundary"
  /\ irq' = Request(irq, "reset")
  /\ api_line' = FALSE
  /\ UNCHANGED <<phase, timer, dog, lspc_mode, cpuVars, taken, clockVars,
                 polls, cycles_left, lineVars>>

(***************************************************************************)
(* service_interrupt.                                                      *)
(***************************************************************************)
\* service_reset, before and after take_interrupt: a pending watchdog reset
\* restarts the 68000 and drops every interrupt.
ServiceReset ==
  /\ \/ phase = "boundary" /\ (stop \/ BudgetLeft)
     \/ phase = "accept"
  /\ dog.pending
  /\ dog' = RestartWatchdog(dog, polls, cpu_cycles)
  /\ irq' = ClearLevel([irq EXCEPT !.pending = {}])
  /\ latches' = {} /\ mask' = 7 /\ stop' = FALSE /\ taken' = 0
  /\ api_line' = FALSE
  /\ phase' = "boundary"
  /\ UNCHANGED <<timer, lspc_mode, clockVars, polls, cycles_left, lineVars>>

\* advance_scanline up to the call of advance_timer.
EnterScanline(from) ==
  /\ scanline_cycle' = 0
  /\ ticks_left' = PixelsPerScanline
  /\ caller' = from
  /\ timer_entry' = [timer |-> timer, fired |-> "timer" \in irq.pending]
  /\ phase' = "timer"

AutoScanlineDue(n) == ~active /\ AutoScanline # 0 /\ n % AutoScanline = 0

\* take_interrupt up to the automatic scanline.
Poll ==
  /\ phase = "boundary" /\ (stop \/ BudgetLeft)
  /\ ~dog.pending
  /\ polls' = (polls + 1) % PollModulus
  /\ \/ /\ AutoScanlineDue(polls')
        /\ EnterScanline("poll")
        /\ poll_lines' = poll_lines + 1
     \/ /\ ~AutoScanlineDue(polls')
        /\ phase' = "pollTail"
        /\ UNCHANGED <<scanline_cycle, lineVars>>
  /\ UNCHANGED <<irq, timer, dog, lspc_mode, cpuVars, taken, scanline,
                 frame_count, cpu_cycles, active, cycles_left, api_line>>

AutoVblankDue == ~active /\ AutoVblank # 0 /\ polls % AutoVblank = 0

\* The rest of take_interrupt: automatic vertical blank, watchdog, and the
\* level that is handed out.
PollTail ==
  LET line == IF AutoVblankDue THEN Request(irq, "vblank") ELSE irq
      l    == AcceptedLevel(line, mask)
  IN /\ phase = "pollTail"
     /\ dog' = UpdateWatchdog(dog, active, polls, cpu_cycles)
     /\ taken' = l
     /\ irq' = IF l = 7 /\ line.edge7 THEN ConsumeEdge(line) ELSE line
     /\ api_line' = (api_line /\ ~AutoVblankDue)
     /\ phase' = "accept"
     /\ UNCHANGED <<timer, lspc_mode, cpuVars, clockVars, polls, cycles_left,
                    lineVars>>

\* push_interrupt_frame and the dispatch of the handler.
AcceptInterrupt ==
  /\ phase = "accept" /\ ~dog.pending /\ taken # 0
  /\ mask' = taken /\ taken' = 0 /\ stop' = FALSE
  /\ phase' = "boundary"
  /\ UNCHANGED <<irq, timer, dog, lspc_mode, latches, clockVars, polls,
                 cycles_left, lineVars, api_line>>

\* STOP with nothing to accept returns out of the dispatch loop.
StopReturns ==
  /\ phase = "accept" /\ ~dog.pending /\ taken = 0 /\ stop
  /\ phase' = "halted"
  /\ UNCHANGED <<irq, timer, dog, lspc_mode, cpuVars, taken, clockVars, polls,
                 cycles_left, lineVars, api_line>>

(***************************************************************************)
(* The cycle hook: advance_cpu_cycles(n), a no-op for n = 0.               *)
(***************************************************************************)
BeginInstruction(n) ==
  /\ phase = "accept" /\ ~dog.pending /\ taken = 0 /\ ~stop
  /\ active' = (active \/ n # 0)
  /\ cycles_left' = n
  /\ phase' = IF n = 0 THEN "execute" ELSE "cycles"
  /\ UNCHANGED <<irq, timer, dog, lspc_mode, cpuVars, taken, scanline,
                 frame_count, cpu_cycles, scanline_cycle, polls, lineVars,
                 api_line>>

CyclesUntilScanline == CyclesPerScanline - scanline_cycle

\* The cycles that are left end inside the current scanline.
FinishCycles ==
  /\ phase = "cycles" /\ cycles_left < CyclesUntilScanline
  /\ scanline_cycle' = scanline_cycle + cycles_left
  /\ cpu_cycles' = cpu_cycles + cycles_left
  /\ cycles_left' = 0
  /\ dog' = UpdateWatchdog(dog, active, polls, cpu_cycles')
  /\ phase' = "execute"
  /\ UNCHANGED <<irq, timer, lspc_mode, cpuVars, taken, scanline, frame_count,
                 active, polls, lineVars, api_line>>

\* Mutation: the pass charges a whole scanline of cycles.
ChargeWholeScanline ==
  /\ phase = "cycles" /\ cycles_left >= CyclesUntilScanline
  /\ cpu_cycles' = cpu_cycles + CyclesPerScanline
  /\ cycles_left' = cycles_left - CyclesUntilScanline
  /\ EnterScanline("cycles")
  /\ UNCHANGED <<irq, timer, dog, lspc_mode, cpuVars, taken, scanline,
                 frame_count, active, polls, poll_lines, api_line>>

\* They reach its end: one pass of the loop, up to advance_timer.
CrossScanline ==
  /\ phase = "cycles" /\ cycles_left >= CyclesUntilScanline
  /\ cpu_cycles' = cpu_cycles + CyclesUntilScanline
  /\ cycles_left' = cycles_left - CyclesUntilScanline
  /\ EnterScanline("cycles")
  /\ UNCHANGED <<irq, timer, dog, lspc_mode, cpuVars, taken, scanline,
                 frame_count, active, polls, poll_lines, api_line>>

(***************************************************************************)
(* advance_timer and the rest of advance_scanline.                         *)
(***************************************************************************)
TimerRuns == phase = "timer" /\ ticks_left # 0 /\ timer.loaded

\* The ticks end before the counter does.
TimerCountDown ==
  /\ TimerRuns /\ ticks_left < TicksUntilZero(timer)
  /\ timer' = [timer EXCEPT !.counter = @ - ticks_left]
  /\ ticks_left' = 0
  /\ UNCHANGED <<phase, irq, dog, lspc_mode, cpuVars, taken, clockVars, polls,
                 cycles_left, caller, poll_lines, timer_entry, api_line>>

\* The counter reaches zero: interrupt, then reload or stop.
TimerExpire ==
  /\ TimerRuns /\ ticks_left >= TicksUntilZero(timer)
  /\ ticks_left' = ticks_left - TicksUntilZero(timer)
  /\ irq' = IF "enable" \in lspc_mode THEN Request(irq, "timer") ELSE irq
  /\ api_line' = (api_line /\ "enable" \notin lspc_mode)
  /\ timer' = ExpireTimer(timer, lspc_mode)
  /\ UNCHANGED <<phase, dog, lspc_mode, cpuVars, taken, clockVars, polls,
                 cycles_left, caller, poll_lines, timer_entry>>

\* begin_vblank, on the wrap of the scanline counter.
BeginVblank ==
  /\ frame_count' = frame_count + 1
  /\ timer' = IF "on_frame" \in lspc_mode THEN ReloadTimer(timer) ELSE timer
  /\ irq' = Request(irq, "vblank")
  /\ api_line' = FALSE

EndScanline ==
  /\ phase = "timer" /\ (ticks_left = 0 \/ ~timer.loaded)
  /\ scanline' = (scanline + 1) % ScanlinesPerFrame
  /\ \/ scanline' = 0 /\ BeginVblank
     \/ scanline' # 0 /\ UNCHANGED <<frame_count, timer, irq, api_line>>
  /\ \/ /\ caller = "poll" /\ phase' = "pollTail"
        /\ UNCHANGED dog
     \/ /\ caller = "cycles"
        /\ phase' = IF cycles_left = 0 THEN "execute" ELSE "cycles"
        /\ dog' = UpdateWatchdog(dog, active, polls, cpu_cycles)
  /\ ticks_left' = 0 /\ caller' = "none"
  /\ UNCHANGED <<lspc_mode, cpuVars, taken, cpu_cycles, scanline_cycle, active,
                 polls, cycles_left, poll_lines, timer_entry>>

(***************************************************************************)
(* The instruction: at most one write to a device register or to SR.       *)
(***************************************************************************)
Executing == phase = "execute" /\ phase' = "boundary"

unwritten == <<taken, clockVars, polls, cycles_left, lineVars>>

OtherInstruction ==
  /\ Executing
  /\ UNCHANGED <<irq, timer, dog, lspc_mode, cpuVars, api_line, unwritten>>

\* A write to the dipswitch address; it also drops a reset that is pending.
KickWatchdog ==
  /\ Executing
  /\ dog' = RestartWatchdog(dog, polls, cpu_cycles)
  /\ UNCHANGED <<irq, timer, lspc_mode, cpuVars, api_line, unwritten>>

AckInterrupts(sources) ==
  /\ Executing
  /\ irq' = Acknowledge(irq, sources)
  /\ api_line' = FALSE
  /\ UNCHANGED <<timer, dog, lspc_mode, cpuVars, unwritten>>

WriteLspcMode(m) ==
  /\ Executing
  /\ lspc_mode' = m
  /\ UNCHANGED <<irq, timer, dog, cpuVars, api_line, unwritten>>

WriteTimerHigh(w) ==
  /\ Executing
  /\ timer' = [timer EXCEPT !.high = w]
  /\ UNCHANGED <<irq, dog, lspc_mode, cpuVars, api_line, unwritten>>

WriteTimerLow(w) ==
  LET t == [timer EXCEPT !.low = w]
  IN /\ Executing
     /\ timer' = IF "on_write" \in lspc_mode THEN ReloadTimer(t) ELSE t
     /\ UNCHANGED <<irq, dog, lspc_mode, cpuVars, api_line, unwritten>>

SwitchLatch(l, on) ==
  /\ Executing
  /\ latches' = IF on THEN latches \cup {l} ELSE latches \ {l}
  /\ UNCHANGED <<irq, timer, dog, lspc_mode, mask, stop, api_line, unwritten>>

\* MOVE/ANDI/ORI/EORI to SR and RTE.
LoadMask(m) ==
  /\ Executing
  /\ mask' = m
  /\ UNCHANGED <<irq, timer, dog, lspc_mode, latches, stop, api_line,
                 unwritten>>

StopInstruction(m) ==
  /\ Executing
  /\ mask' = m /\ stop' = TRUE
  /\ UNCHANGED <<irq, timer, dog, lspc_mode, latches, api_line, unwritten>>

Halted == phase = "halted" /\ UNCHANGED vars

Instruction ==
  \/ OtherInstruction \/ KickWatchdog
  \/ \E s \in Acks : AckInterrupts(s)
  \/ \E m \in Modes : WriteLspcMode(m)
  \/ \E w \in TimerWords : WriteTimerHigh(w) \/ WriteTimerLow(w)
  \/ \E l \in Latches, on \in BOOLEAN : SwitchLatch(l, on)
  \/ \E m \in Masks : LoadMask(m) \/ StopInstruction(m)

Runtime ==
  \/ ServiceReset \/ Poll \/ PollTail \/ AcceptInterrupt \/ StopReturns
  \/ \E n \in InstrCycles : BeginInstruction(n)
  \/ FinishCycles \/ CrossScanline
  \/ TimerCountDown \/ TimerExpire \/ EndScanline

Embedder ==
  \/ Yield \/ Halted \/ RequestReset
  \/ \E l \in HostLevels : SetInterruptLevel(l)

Next == Instruction \/ Runtime \/ Embedder

Spec == Init /\ [][Next]_vars

\* The generated code is one thread that never waits: it always takes its
\* next step.  Nothing is assumed of the calls the embedder makes.
FairSpec == Spec /\ WF_vars(Instruction \/ Runtime \/ Yield)
(***************************************************************************)
(* Properties.                                                             *)
(***************************************************************************)
\* Every variable has the type of the C object it stands for.
TypeOK ==
  /\ phase \in Phases
  /\ irq \in IrqState /\ timer \in TimerState /\ dog \in DogState
  /\ lspc_mode \in SUBSET ModeFlags /\ latches \in SUBSET {"bios", "sram"}
  /\ mask \in 0..7 /\ stop \in BOOLEAN /\ taken \in 0..7
  /\ scanline \in 0..(ScanlinesPerFrame - 1) /\ frame_count \in Nat
  /\ cpu_cycles \in Nat /\ scanline_cycle \in 0..(CyclesPerScanline - 1)
  /\ active \in BOOLEAN /\ polls \in 0..(PollModulus - 1)
  /\ cycles_left \in Nat /\ ticks_left \in Nat
  /\ caller \in {"none", "poll", "cycles"}
  /\ api_line \in BOOLEAN /\ poll_lines \in Nat
  /\ timer_entry \in [timer : TimerState, fired : BOOLEAN]

\* The interrupt line always shows the highest source that is pending, after
\* any sequence of requests, acknowledgements and resets, unless the embedder
\* drove it by hand since: the runtime stores the line and the sources
\* separately and every path must refresh one from the other.
LineMatchesPending ==
  ~api_line => /\ irq.level = PriorityLevel(irq.pending)
               /\ ~irq.edge7

InLine == IF phase = "timer" THEN 1 ELSE 0

\* The three clocks agree: the scanlines counted by scanline and frame_count
\* are exactly those the cycles and the polls have paid for, wherever an
\* instruction's cycles end and however many scanlines it crosses.
ClockConsistent ==
  /\ cpu_cycles = scanline_cycle
       + CyclesPerScanline * (frame_count * ScanlinesPerFrame + scanline
                              + InLine - poll_lines)
  /\ ~active => cpu_cycles = 0 /\ scanline_cycle = 0

\* Between two calls into the runtime, a watchdog reset is pending exactly
\* when the timeout in force has run out, across the switch from counting
\* polls to counting cycles, the wrap of the poll counter, kicks and resets.
WatchdogExact ==
  phase \in {"boundary", "accept", "execute", "halted"} =>
    (dog.pending <=> Overdue(dog, active, polls, cpu_cycles))

\* WatchdogExact with what holds inside the calls, which makes it inductive:
\* while an instruction's cycles are charged a reset may be pending only if
\* the timeout has run out, and take_interrupt starts with none.
ChargingCycles == phase = "cycles" \/ (phase = "timer" /\ caller = "cycles")

Polling == phase = "pollTail" \/ (phase = "timer" /\ caller = "poll")

WatchdogInv ==
  /\ WatchdogExact
  /\ phase = "timer" => caller \in {"poll", "cycles"}
  /\ ChargingCycles => active
  /\ ChargingCycles /\ dog.pending => Overdue(dog, active, polls, cpu_cycles)
  /\ Polling => ~dog.pending

\* What one scanline does to the timer, in closed form.
TicksPastZero(t) == PixelsPerScanline - (t.counter + 1)

TimerFires(t) == t.loaded /\ TicksPastZero(t) >= 0

TimerAfterLine(t, mode) ==
  CASE ~t.loaded -> t
    [] t.loaded /\ ~TimerFires(t) ->
         [t EXCEPT !.counter = @ - PixelsPerScanline]
    [] TimerFires(t) /\ "on_zero" \notin mode ->
         CounterAt(t, 0, FALSE)
    [] TimerFires(t) /\ "on_zero" \in mode ->
         [t EXCEPT !.counter = (t.high * TimerHalf + t.low)
              - (TicksPastZero(t) % (t.high * TimerHalf + t.low + 1))]

\* The loop of advance_timer leaves the timer where the closed form puts it,
\* for every number of expiries in the scanline, and asks for a timer
\* interrupt exactly when one expiry happened with the interrupt enabled.
TimerLoopExact ==
  phase = "timer" /\ ~TimerRuns =>
    /\ timer = TimerAfterLine(timer_entry.timer, lspc_mode)
    /\ "timer" \in irq.pending <=>
         \/ timer_entry.fired
         \/ TimerFires(timer_entry.timer) /\ "enable" \in lspc_mode

\* A pending interrupt source is dropped only by an acknowledgement that
\* names it or by a watchdog reset: no other step of the runtime loses one.
NoLostInterrupt ==
  [][\A s \in irq.pending \ irq'.pending :
        ServiceReset \/ \E a \in Acks : s \in a /\ AckInterrupts(a)]_vars

\* A source that is not acknowledged in the handler it raised cannot nest:
\* the interrupt frame is pushed only above the current mask, or for the
\* level-7 edge, which is used up by it.
NoNesting ==
  [][AcceptInterrupt => mask' > mask \/ (mask' = 7 /\ ~irq.edge7)]_vars

\* Every hook returns: the loops over scanlines and timer expiries end and
\* the program reaches its next instruction boundary or stops.
BoundaryRecurs == []<>(phase \in {"boundary", "halted"})

\* A program that keeps running and stops kicking is reset: kicks or resets
\* recur for ever, also when the poll counter wraps.  Only the clock in force
\* counts: where cycles were charged once and are no more, it stands still.
ClockStandsStill == <>[]active /\ ~[]<><<cpu_cycles' # cpu_cycles>>_vars

WatchdogBites ==
  \/ <>(phase = "halted")
  \/ ClockStandsStill
  \/ []<><<ServiceReset \/ KickWatchdog>>_vars

\* A vertical blank that is pending while interrupts are enabled is taken,
\* acknowledged or overtaken by a change of the mask, unless the embedder
\* drives the line by hand and hides it.
VblankDelivered ==
  ("vblank" \in irq.pending /\ mask = 0) ~>
    (mask # 0 \/ "vblank" \notin irq.pending \/ phase = "halted" \/ api_line)
=============================================================================

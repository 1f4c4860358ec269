----------------------------- MODULE NeoRuntime -----------------------------
(***************************************************************************)
(* The hardware side of runtime/src/neogeo_runtime.c as pure operators on  *)
(* the records the runtime keeps in its file-scope variables:              *)
(*                                                                         *)
(*   irq    the three LSPC interrupt sources and the 68000 interrupt line  *)
(*          they drive (pending, level, edge7);                            *)
(*   timer  the LSPC pixel timer (reload value in two halves, counter,     *)
(*          loaded);                                                       *)
(*   dog    the watchdog (time of the last kick, reset pending).           *)
(*                                                                         *)
(* Counters kept only for diagnostics (interrupt totals, last PC, last     *)
(* written value, largest kick gap) are left out.  The interrupt vector is *)
(* left out too: every source uses the autovector 24 + level.              *)
(***************************************************************************)
EXTENDS Integers

CONSTANTS
  PixelsPerScanline,  \* 384 timer ticks per scanline
  CyclesPerScanline,  \* 768 68000 cycles per scanline
  ScanlinesPerFrame,  \* 264
  TimerHalf,          \* 2^16: the timer reload value is written in two halves
  PollModulus,        \* 2^32: interrupt_polls is a uint32_t
  TimeoutPolls,       \* watchdog timeout in polls, 0 = off
  TimeoutCycles       \* watchdog timeout in 68000 cycles, 0 = off

ASSUME RuntimeAssumption ==
  /\ PixelsPerScanline \in Nat \ {0}
  /\ CyclesPerScanline \in Nat \ {0}
  /\ ScanlinesPerFrame \in Nat \ {0}
  /\ TimerHalf \in Nat \ {0}
  /\ PollModulus \in Nat \ {0}
  /\ TimeoutPolls \in Nat /\ TimeoutPolls < PollModulus
  /\ TimeoutCycles \in Nat

(***************************************************************************)
(* Interrupt controller.                                                   *)
(***************************************************************************)
Sources == {"reset", "timer", "vblank"}

IrqState == [pending : SUBSET Sources, level : 0..7, edge7 : BOOLEAN]

\* ng_m68k_set_interrupt_level: only a rise from below 7 arms the level-7
\* edge, anything below 7 disarms it.
SetLevel(q, l) ==
  [pending |-> q.pending,
   level   |-> l,
   edge7   |-> l = 7 /\ (q.level < 7 \/ q.edge7)]

ClearLevel(q) == [pending |-> q.pending, level |-> 0, edge7 |-> FALSE]

\* The level the LSPC drives for a set of pending sources.
PriorityLevel(sources) ==
  IF "reset" \in sources THEN 3
  ELSE IF "timer" \in sources THEN 2
  ELSE IF "vblank" \in sources THEN 1
  ELSE 0

Refresh(q) ==
  IF PriorityLevel(q.pending) = 0
  THEN ClearLevel(q)
  ELSE SetLevel(q, PriorityLevel(q.pending))

\* Mutation: a request overwrites the sources that are already pending.
RequestOverwrites(q, source) == Refresh([q EXCEPT !.pending = {source}])

Request(q, source) == Refresh([q EXCEPT !.pending = @ \cup {source}])

\* Mutation: the line is not refreshed after an acknowledgement.
AcknowledgeKeepsLine(q, sources) == [q EXCEPT !.pending = @ \ sources]

Acknowledge(q, sources) == Refresh([q EXCEPT !.pending = @ \ sources])

\* Mutations: the mask comparison is off by one, in either direction.
AcceptedAtMask(q, mask) ==
  IF (q.level = 7 /\ q.edge7) \/ q.level >= mask THEN q.level ELSE 0

AcceptedAboveNext(q, mask) ==
  IF (q.level = 7 /\ q.edge7) \/ q.level > mask + 1 THEN q.level ELSE 0

\* The level ng_m68k_take_interrupt hands out, 0 for none.
AcceptedLevel(q, mask) ==
  IF (q.level = 7 /\ q.edge7) \/ q.level > mask THEN q.level ELSE 0

\* Taking the level-7 edge consumes it.
ConsumeEdge(q) == [q EXCEPT !.edge7 = FALSE]

(***************************************************************************)
(* LSPC timer.                                                             *)
(***************************************************************************)
ModeFlags == {"enable", "on_write", "on_frame", "on_zero"}

TimerState == [high : Nat, low : Nat, counter : Nat, loaded : BOOLEAN]

ReloadValue(t) == t.high * TimerHalf + t.low

CounterAt(t, c, loaded) ==
  [high |-> t.high, low |-> t.low, counter |-> c, loaded |-> loaded]

ReloadTimer(t) == CounterAt(t, ReloadValue(t), TRUE)

\* Mutation: a timer that is not reloaded keeps running.
ExpireKeepsLoaded(t, mode) ==
  IF "on_zero" \in mode THEN ReloadTimer(t) ELSE CounterAt(t, 0, TRUE)

\* One pass of the loop in ng_neogeo_advance_timer when the ticks reach zero.
ExpireTimer(t, mode) ==
  IF "on_zero" \in mode
  THEN ReloadTimer(t)
  ELSE CounterAt(t, 0, FALSE)

\* Mutation: the tick that passes zero is not counted.
TicksToZero(t) == t.counter

TicksUntilZero(t) == t.counter + 1

(***************************************************************************)
(* Watchdog.                                                               *)
(***************************************************************************)
DogState == [last_poll : Nat, last_cycle : Nat, pending : BOOLEAN]

\* Mutation: the distance is signed.
SignedPollGap(d, polls) == polls - d.last_poll

\* The unsigned 32-bit distance between two poll counts.
PollGap(d, polls) == (polls - d.last_poll) % PollModulus

\* The timeout that is in force has run out: cycles once cycle timing is
\* active and a cycle timeout is set, interrupt polls otherwise.
Overdue(d, active, polls, cycles) ==
  IF active /\ TimeoutCycles # 0
  THEN cycles - d.last_cycle >= TimeoutCycles
  ELSE TimeoutPolls # 0 /\ PollGap(d, polls) >= TimeoutPolls

UpdateWatchdog(d, active, polls, cycles) ==
  [d EXCEPT !.pending = @ \/ Overdue(d, active, polls, cycles)]

\* Mutation: the cycle gap is not restarted.
RestartPollsOnly(d, polls, cycles) ==
  [last_poll |-> polls, last_cycle |-> d.last_cycle, pending |-> FALSE]

\* A kick, and a reset that is taken, restart both gaps and drop the request.
RestartWatchdog(d, polls, cycles) ==
  [last_poll |-> polls, last_cycle |-> cycles, pending |-> FALSE]
=============================================================================

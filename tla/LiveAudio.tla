------------------------------ MODULE LiveAudio ------------------------------
(***************************************************************************)
(* The audio side of tools/sdl_live_host.c: how the host keeps the Z80,    *)
(* the sample generator and the 68000 in step.  The 68000 writes sound     *)
(* commands, stamped with its cycle counter, into the queue of SoundFifo;  *)
(* the cycle observer, called after every instruction's cycles, drains the *)
(* queue into the sound CPU and advances it, a scanline at a time.  A      *)
(* command also runs the Z80 ahead at once, on borrowed 68000 time.        *)
(*                                                                         *)
(* The Z80 (runtime/src/neogeo_audio.c over a vendored Z80 core) is its    *)
(* cycle counter and the overshoot it carries from slice to slice.         *)
(***************************************************************************)
EXTENDS Naturals, Sequences

CONSTANTS
  Commands, Capacity,
  CyclesPerScanline,  \* 768
  SyncCycles,         \* NG_LIVE_AUDIO_SYNC_CYCLES, an eighth of a scanline
  ServiceCycles,      \* Z80 cycles run at once for a command, 200
  Overshoot,          \* longest Z80 instruction, in cycles, minus one
  HostRate,           \* NG_LIVE_AUDIO_SAMPLE_RATE
  DeviceRate,         \* spec.freq, the rate the sound device opens with
  MainClock,
  InstrCycles,        \* cycle counts of 68000 instructions
  MaxCycles,          \* bound on the 68000 cycle counter
  MaxCommands         \* bound on the number of commands sent

ASSUME AudioAssumption ==
  /\ Capacity \in Nat \ {0}
  /\ CyclesPerScanline \in Nat \ {0} /\ SyncCycles \in Nat \ {0}
  /\ ServiceCycles \in Nat \ {0} /\ Overshoot \in Nat
  /\ HostRate \in Nat \ {0} /\ DeviceRate \in Nat \ {0}
  /\ MainClock \in Nat \ {0}
  /\ InstrCycles \subseteq Nat \ {0}
  /\ MaxCycles \in Nat /\ MaxCommands \in Nat

VARIABLES
  session,            \* started, loaded (by --load-state), open, silent:
                      \* device_open is session = "open"
  phase,              \* run, execute, sync, advance
  resume,             \* where the sync returns to
  cpu_cycles,
  fifo, overflows, popped, queue_saved,  \* of SoundFifo
  sending,            \* the command of the event that was popped, or <<>>
  goal,               \* target_cpu_cycles of the advance under way
  host,               \* NgLiveAudio: last, remainder, credit, samples,
                      \* frames, commands (sound_commands); hosted is a
                      \* history: the part of last made into samples at
                      \* HostRate, the rest was at DeviceRate
  z80,                \* [cycles, overshoot]: Z80 cycles run, cycle credit
  saved               \* the save state, but for the queue

queueVars == <<fifo, overflows, popped, queue_saved>>
vars == <<session, phase, resume, cpu_cycles, queueVars, sending, goal, host,
          z80, saved>>

Event == [cycles : Nat, command : Commands]

Fifo == INSTANCE SoundFifo WITH Events <- Event, saved <- queue_saved

\* live_audio_create, before the first instruction.
NewHost == [last |-> 0, hosted |-> 0, remainder |-> 0, credit |-> 0,
            samples |-> 0, frames |-> 0, commands |-> 0]

NewZ80 == [cycles |-> 0, overshoot |-> 0]

Init ==
  /\ session = "started" /\ phase = "run" /\ resume = "run" /\ cpu_cycles = 0
  /\ Fifo!Init
  /\ sending = <<>> /\ goal = 0
  /\ host = NewHost /\ z80 = NewZ80
  /\ saved = [cpu_cycles |-> 0, host |-> host, z80 |-> z80]

(***************************************************************************)
(* The 68000 and the cycle observer.                                       *)
(***************************************************************************)
\* Mutation: the observer looks at the queue only.
SyncDueByQueue(now) == fifo # <<>>

SyncDue(now) == fifo # <<>> \/ now - host.last >= SyncCycles

\* The cycle hook of an instruction: charge its cycles, call the observer.
CycleHook(n) ==
  /\ phase = "run" /\ session # "loaded" /\ cpu_cycles < MaxCycles
  /\ cpu_cycles' = cpu_cycles + n
  /\ phase' = IF SyncDue(cpu_cycles') THEN "sync" ELSE "execute"
  /\ resume' = "execute"
  /\ UNCHANGED <<session, queueVars, sending, goal, host, z80, saved>>

\* Commands written so far, in this line of saved and loaded states.
Written == host.commands + Len(fifo) + overflows

\* The instruction writes the sound register, once or several times.
WriteCommand(c) ==
  /\ phase = "execute" /\ Written < MaxCommands
  /\ Fifo!Write([cycles |-> cpu_cycles, command |-> c])
  /\ UNCHANGED <<session, phase, resume, cpu_cycles, sending, goal, host, z80,
                 saved>>

EndInstruction ==
  /\ phase = "execute"
  /\ phase' = "run" /\ resume' = "run"
  /\ UNCHANGED <<session, cpu_cycles, queueVars, sending, goal, host, z80,
                 saved>>

\* The main loop and the fast-forward loop sync after a slice.
HostSync ==
  /\ phase = "run" /\ session # "loaded"
  /\ phase' = "sync" /\ resume' = "run"
  /\ UNCHANGED <<session, cpu_cycles, queueVars, sending, goal, host, z80, saved>>

(***************************************************************************)
(* live_audio_sync_to_runtime.                                             *)
(***************************************************************************)
\* Mutation: the audio first catches up with the 68000.
PopEventLate ==
  /\ phase = "sync"
  /\ Fifo!Pop
  /\ sending' = <<popped'[1].command>>
  /\ goal' = cpu_cycles
  /\ phase' = "advance"
  /\ UNCHANGED <<session, resume, cpu_cycles, host, z80, saved>>

\* An event is popped; the audio first catches up with its time stamp.
PopEvent ==
  /\ phase = "sync"
  /\ Fifo!Pop
  /\ sending' = <<popped'[1].command>>
  /\ goal' = IF popped'[1].cycles > cpu_cycles THEN cpu_cycles
                                               ELSE popped'[1].cycles
  /\ phase' = "advance"
  /\ UNCHANGED <<session, resume, cpu_cycles, host, z80, saved>>

\* The queue is empty: the audio catches up with the 68000.
QueueEmpty ==
  /\ phase = "sync" /\ fifo = <<>>
  /\ sending' = <<>> /\ goal' = cpu_cycles
  /\ phase' = "advance"
  /\ UNCHANGED <<session, resume, cpu_cycles, queueVars, host, z80, saved>>

\* Mutation: the cycles run too far are forgotten.
RunZ80Forgets(z, n, o) ==
  IF n = 0 THEN z ELSE [cycles |-> z.cycles + n + o, overshoot |-> 0]

\* ng_neogeo_audio_advance_z80_cycles(n): what the last slice ran too far is
\* taken off, and the Z80 stops at the end of an instruction, o cycles late.
RunZ80(z, n, o) ==
  IF z.overshoot >= n
  THEN [cycles |-> z.cycles, overshoot |-> z.overshoot - n]
  ELSE [cycles |-> z.cycles + (n - z.overshoot) + o, overshoot |-> o]

\* 68000 cycles that are not covered by borrowed time, and the Z80 cycles
\* live_audio_advance_z80 makes of them: one for three.
Uncovered(h, step) == IF h.credit >= step THEN 0 ELSE step - h.credit

Total(h, step) == h.remainder + Uncovered(h, step)

Z80Share(h, step) ==
  IF h.credit >= step THEN 0 ELSE Total(h, step) \div 3

\* The rate of live_audio_generate_and_queue: the device's once it is open.
Rate == IF session = "open" THEN DeviceRate ELSE HostRate

\* Mutation: the fraction of a sample is not carried.
AfterStepNoCarry(h, step) ==
  LET numerator == h.samples + step * Rate
  IN [last      |-> h.last + step,
      hosted    |-> IF session = "open" THEN h.hosted ELSE h.hosted + step,
      remainder |-> IF h.credit >= step THEN h.remainder
                                        ELSE Total(h, step) % 3,
      credit    |-> IF h.credit >= step THEN h.credit - step ELSE 0,
      samples   |-> 0,
      frames    |-> h.frames + numerator \div MainClock,
      commands  |-> h.commands]

\* The host's counters after one pass of live_audio_advance_to_cpu_cycle:
\* Z80 remainder, borrowed time, samples generated, time reached.
AfterStep(h, step) ==
  LET numerator == h.samples + step * Rate
  IN [last      |-> h.last + step,
      hosted    |-> IF session = "open" THEN h.hosted ELSE h.hosted + step,
      remainder |-> IF h.credit >= step THEN h.remainder
                                        ELSE Total(h, step) % 3,
      credit    |-> IF h.credit >= step THEN h.credit - step ELSE 0,
      samples   |-> numerator % MainClock,
      frames    |-> h.frames + numerator \div MainClock,
      commands  |-> h.commands]

Advance ==
  /\ phase = "advance" /\ host.last < goal
  /\ LET step == IF goal - host.last > CyclesPerScanline
                 THEN CyclesPerScanline ELSE goal - host.last
     IN /\ host' = AfterStep(host, step)
        /\ \E o \in 0..Overshoot : z80' = RunZ80(z80, Z80Share(host, step), o)
  /\ UNCHANGED <<session, phase, resume, cpu_cycles, queueVars, sending, goal,
                 saved>>

\* live_audio_send_command: latch, run the Z80 at once, borrow the time.
Send(o) ==
  /\ z80' = RunZ80(z80, ServiceCycles, o)
  /\ host' = [host EXCEPT !.credit = @ + 3 * ServiceCycles,
                          !.commands = @ + 1]

\* Mutation: one event a sync.
SendCommandOnce ==
  /\ phase = "advance" /\ host.last >= goal /\ sending # <<>>
  /\ \E o \in 0..Overshoot : Send(o)
  /\ sending' = <<>> /\ goal' = cpu_cycles
  /\ UNCHANGED <<session, phase, resume, cpu_cycles, queueVars, saved>>

SendCommand ==
  /\ phase = "advance" /\ host.last >= goal /\ sending # <<>>
  /\ \E o \in 0..Overshoot : Send(o)
  /\ sending' = <<>>
  /\ phase' = "sync"
  /\ UNCHANGED <<session, resume, cpu_cycles, queueVars, goal, saved>>

SyncReturns ==
  /\ phase = "advance" /\ host.last >= goal /\ sending = <<>>
  /\ phase' = resume /\ resume' = "run" /\ goal' = 0
  /\ UNCHANGED <<session, cpu_cycles, queueVars, sending, host, z80, saved>>

(***************************************************************************)
(* The host between two slices: the device is opened once, after the       *)
(* fast-forward or the load that --load-state asks for; then diagnostic    *)
(* command, save and load.  A new session finds the file of an earlier one *)
(* and opens the same device.                                              *)
(***************************************************************************)
Live == session \in {"open", "silent"}

\* main, from the end of run_fast_forward to live_audio_open_device: perhaps
\* the audio test command, then the device opens or the host stays silent.
OpenDevice ==
  /\ phase = "run" /\ ~Live
  /\ \/ UNCHANGED <<host, z80>>
     \/ Written < MaxCommands /\ \E o \in 0..Overshoot : Send(o)
  /\ session' \in {"open", "silent"}
  /\ UNCHANGED <<phase, resume, cpu_cycles, queueVars, sending, goal, saved>>

DiagnosticCommand ==
  /\ phase = "run" /\ Live /\ Written < MaxCommands
  /\ \E o \in 0..Overshoot : Send(o)
  /\ UNCHANGED <<session, phase, resume, cpu_cycles, queueVars, sending, goal,
                 saved>>

SaveState ==
  /\ phase = "run" /\ Live
  /\ Fifo!Save
  /\ saved' = [cpu_cycles |-> cpu_cycles, host |-> host, z80 |-> z80]
  /\ UNCHANGED <<session, phase, resume, cpu_cycles, sending, goal, host, z80>>

\* F8 in the main loop; --load-state before anything ran, which leaves out
\* the fast-forward.
MayLoad ==
  /\ phase = "run"
  /\ Live \/ (session = "started" /\ cpu_cycles = 0)

\* Mutation: the audio's own clock is not restored.
LoadStateKeepsHost ==
  /\ MayLoad
  /\ Fifo!Load
  /\ cpu_cycles' = saved.cpu_cycles
  /\ z80' = saved.z80
  /\ session' = IF Live THEN session ELSE "loaded"
  /\ UNCHANGED <<phase, resume, sending, goal, host, saved>>

\* live_load_savestate when every chunk is accepted.
LoadState ==
  /\ MayLoad
  /\ Fifo!Load
  /\ cpu_cycles' = saved.cpu_cycles
  /\ host' = [saved.host EXCEPT !.last =
                IF @ > saved.cpu_cycles THEN saved.cpu_cycles ELSE @]
  /\ z80' = saved.z80
  /\ session' = IF Live THEN session ELSE "loaded"
  /\ UNCHANGED <<phase, resume, sending, goal, saved>>

\* The user quits, at the main loop, and starts the host again.
NewSession ==
  /\ phase = "run" /\ Live
  /\ session' = "started" /\ cpu_cycles' = 0
  /\ Fifo!Reset
  /\ host' = NewHost /\ z80' = NewZ80
  /\ UNCHANGED <<phase, resume, sending, goal, saved>>

Cpu == (\E n \in InstrCycles : CycleHook(n)) \/ EndInstruction

Sync == PopEvent \/ QueueEmpty \/ Advance \/ SendCommand \/ SyncReturns

Next ==
  \/ Cpu \/ Sync
  \/ \E c \in Commands : WriteCommand(c)
  \/ HostSync \/ OpenDevice \/ DiagnosticCommand
  \/ SaveState \/ LoadState \/ NewSession

Spec == Init /\ [][Next]_vars

\* The host is one thread: a sync that has begun runs to its end, the 68000
\* goes on, the main loop syncs after every slice, and main gets to its loop.
FairSpec ==
  Spec /\ WF_vars(Sync) /\ WF_vars(Cpu \/ HostSync) /\ WF_vars(OpenDevice)

(***************************************************************************)
(* Properties.                                                             *)
(***************************************************************************)
HostState == [last : Nat, hosted : Nat, remainder : 0..2, credit : Nat,
              samples : Nat, frames : Nat, commands : Nat]

Z80State == [cycles : Nat, overshoot : Nat]

\* Types; an event's stamp is a cycle count.
TypeOK ==
  /\ session \in {"started", "loaded", "open", "silent"}
  /\ phase \in {"run", "execute", "sync", "advance"}
  /\ resume \in {"run", "execute"}
  /\ cpu_cycles \in Nat /\ goal \in Nat
  /\ fifo \in Seq(Event) /\ overflows \in Nat
  /\ popped \in Seq(Event) /\ sending \in Seq(Commands)
  /\ queue_saved \in [fifo : Seq(Event), overflows : Nat]
  /\ host \in HostState /\ z80 \in Z80State
  /\ saved \in [cpu_cycles : Nat, host : HostState, z80 : Z80State]

Balance(h, z) ==
  3 * z.cycles + h.remainder = h.last + h.credit + 3 * z.overshoot

\* Borrowed time is paid back to the cycle: the Z80 has run exactly one cycle
\* for every three of the 68000 time the audio has reached, plus what it was
\* lent for commands and what its last instruction ran over.  The comment in
\* live_audio_send_command promises it: a command must neither speed up the
\* Z80 nor lengthen the sound.
CyclesConserved == Balance(host, z80) /\ Balance(saved.host, saved.z80)

SamplesOf(h) ==
  /\ h.hosted <= h.last
  /\ h.frames * MainClock + h.samples
       = h.hosted * HostRate + (h.last - h.hosted) * DeviceRate

\* The samples generated are those of the time reached, each cycle at the
\* rate that was in force, with no drift when the device opens with another
\* rate than the fast-forward used, when a session goes on from a state saved
\* at the other rate, and whatever commands are sent.
SamplesConserved == SamplesOf(host) /\ SamplesOf(saved.host)

\* Time stamps are in order and lie between the time the audio has reached
\* and the time of the 68000, in the queue and in the save state, so the
\* observer's unsigned difference never wraps.
Ordered(q, from, to) ==
  /\ from <= to
  /\ \A i \in 1..Len(q) : from <= q[i].cycles /\ q[i].cycles <= to
  /\ \A i, j \in 1..Len(q) : i <= j => q[i].cycles <= q[j].cycles

StampsOrdered ==
  /\ Ordered(fifo, host.last, cpu_cycles)
  /\ Ordered(queue_saved.fifo, saved.host.last, saved.cpu_cycles)

\* A command reaches the Z80 at exactly the 68000 cycle it was written at:
\* neither late, after the audio has been advanced past it, nor early.
CommandOnTime ==
  (phase = "advance" /\ sending # <<>> /\ host.last >= goal) =>
    host.last = popped[1].cycles

\* When an instruction executes, the audio is less than the sync interval
\* behind; and outside a sync every command in the queue was written by the
\* last instruction, so that the Z80 has heard all the earlier ones.
CaughtUp ==
  /\ phase = "execute" => cpu_cycles - host.last < SyncCycles
  /\ phase \in {"run", "execute"} =>
       \A i \in 1..Len(fifo) : fifo[i].cycles = cpu_cycles

\* No command is left in the queue, even if states are loaded over and over.
QueueDrained == fifo # <<>> ~> fifo = <<>>
=============================================================================

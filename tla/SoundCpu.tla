------------------------------- MODULE SoundCpu -------------------------------
(***************************************************************************)
(* runtime/src/neogeo_audio.c around its Z80: the command latch with its   *)
(* NMI, and the YM2610 interrupt line.  The 68000 side writes commands     *)
(* between Z80 instructions.  Of the Z80 (third_party/superzazu/z80.c) and *)
(* the YM2610 timers only interrupts are kept: an instruction is what it   *)
(* does to the latch, the NMI gate, the interrupt enable and the timer.    *)
(* The sound program, the M1 ROM, is external:                             *)
(* any program that keeps to the rules of the programs in                  *)
(* tests/test_neogeo_audio.c: the NMI handler reads the command before it  *)
(* clears it, turns interrupts on or returns; the timer is cleared with    *)
(* interrupts off, and its handler turns them on only after that.          *)
(***************************************************************************)
EXTENDS Naturals, Sequences

CONSTANT
  MaxDepth    \* bound on the handlers under way when a command or timer comes

ASSUME DepthAssumption == MaxDepth \in Nat

VARIABLES
  latch,      \* command_latch holds a command, not zero
  pending,    \* nmi_pending of NgNeoAudio
  enabled,    \* nmi_enabled
  cpu,        \* [nmi, int, iff1, iff2] of the Z80 core
  irq,        \* irq_pending of the YM2610
  frames,     \* handlers entered and not left: int, nmi, done (has read)
  unheard,    \* ghost: a command has been written and not been read
  served,     \* ghost: NMIs taken since the last read
  taken       \* ghost: what the last instruction ended with

vars == <<latch, pending, enabled, cpu, irq, frames, unheard, served, taken>>

ResetCpu == [nmi |-> FALSE, int |-> FALSE, iff1 |-> FALSE, iff2 |-> FALSE]

Init ==
  /\ latch = FALSE /\ pending = FALSE /\ enabled = FALSE
  /\ cpu = ResetCpu /\ irq = FALSE /\ frames = <<>>
  /\ unheard = FALSE /\ served = 0 /\ taken = "none"

\* ng_neogeo_audio_reset.
Reset ==
  /\ latch' = FALSE /\ pending' = FALSE /\ enabled' = FALSE
  /\ cpu' = ResetCpu /\ irq' = FALSE /\ frames' = <<>>
  /\ unheard' = FALSE /\ served' = 0 /\ taken' = "none"

\* Mutation: no NMI is kept for a command written while the gate is shut.
WriteCommandGated ==
  /\ Len(frames) < MaxDepth
  /\ latch' = TRUE /\ pending' = enabled /\ unheard' = TRUE
  /\ taken' = "none"
  /\ UNCHANGED <<enabled, cpu, irq, frames, served>>

\* ng_neogeo_audio_write_command.
WriteCommand ==
  /\ Len(frames) < MaxDepth
  /\ latch' = TRUE /\ pending' = TRUE /\ unheard' = TRUE
  /\ taken' = "none"
  /\ UNCHANGED <<enabled, cpu, irq, frames, served>>

(***************************************************************************)
(* ng_audio_step_z80: the interrupt lines, one instruction, the YM clocks. *)
(***************************************************************************)
RaisesNmi == pending /\ enabled /\ ~cpu.nmi

\* Mutation: a request the Z80 has not taken stays when the line falls.
LinesLatched ==
  [cpu EXCEPT !.nmi = @ \/ RaisesNmi, !.int = @ \/ irq]

\* The lines as the Z80 sees them; a request that the YM2610 has taken back
\* is withdrawn.
Lines == [cpu EXCEPT !.nmi = @ \/ RaisesNmi, !.int = irq]

\* Instructions that only concern the Z80 itself.
Other == "other"

Instructions == {Other, "ei", "di", "read_latch", "clear_latch", "open_gate",
                 "shut_gate", "clear_timer", "return"}

Top == IF frames = <<>> THEN "main" ELSE Head(frames)

\* What the sound program may execute now.
Allowed(i) ==
  CASE i = "read_latch"  -> Top = "nmi"
    [] i = "clear_latch" -> Top = "done"
    [] i = "clear_timer" -> ~cpu.iff1
    [] i = "ei"          -> Top \in {"main", "done"} \/ (Top = "int" /\ ~irq)
    [] i = "return"      -> Top \in {"int", "done"}
    [] OTHER             -> TRUE

\* iff1 and iff2 after the instruction itself; RETN restores iff1.
Iff(c, i) ==
  CASE i = "di" -> [c EXCEPT !.iff1 = FALSE, !.iff2 = FALSE]
    [] i = "ei" -> [c EXCEPT !.iff1 = TRUE, !.iff2 = TRUE]
    [] i = "return" /\ Top = "done" -> [c EXCEPT !.iff1 = c.iff2]
    [] OTHER -> c

\* The handlers after the instruction itself.
FramesAfter(i) ==
  CASE i = "return" -> Tail(frames)
    [] i = "read_latch" -> <<"done">> \o Tail(frames)
    [] OTHER -> frames

\* The Z80 looks at its requests after the instruction, but not after EI.
Accepts(c, i) ==
  IF i = "ei" THEN "none"
  ELSE IF c.nmi THEN "nmi"
  ELSE IF c.int /\ c.iff1 THEN "int"
  ELSE "none"

EndInstruction(c, i) ==
  /\ taken' = Accepts(c, i)
  /\ cpu' = CASE Accepts(c, i) = "nmi" -> [c EXCEPT !.nmi = FALSE, !.iff1 = FALSE]
              [] Accepts(c, i) = "int" ->
                   [c EXCEPT !.int = FALSE, !.iff1 = FALSE, !.iff2 = FALSE]
              [] OTHER -> c
  /\ frames' = IF Accepts(c, i) = "none" THEN FramesAfter(i)
               ELSE <<Accepts(c, i)>> \o FramesAfter(i)

\* Mutation: the gate does not open.
GateStaysShut(i) == IF i = "shut_gate" THEN FALSE ELSE enabled

\* Port writes $08-$0B and $18.
Gate(i) ==
  IF i = "open_gate" THEN TRUE ELSE IF i = "shut_gate" THEN FALSE ELSE enabled

\* Port $00, read and written: only the read takes back the NMI request.
LatchAfter(i) == IF i = "clear_latch" THEN FALSE ELSE latch

PendingAfter(i) == pending /\ ~RaisesNmi /\ i # "read_latch"

\* The timer of the YM2610 may fire while the instruction runs.
TimerAfter(i, fires) == fires \/ (irq /\ i # "clear_timer")

Step(i, fires) ==
  /\ Allowed(i) /\ (fires => Len(frames) < MaxDepth)
  /\ EndInstruction(Iff(Lines, i), i)
  /\ enabled' = Gate(i)
  /\ latch' = LatchAfter(i)
  /\ pending' = PendingAfter(i)
  /\ irq' = TimerAfter(i, fires)
  /\ unheard' = (unheard /\ i # "read_latch")
  /\ served' = LET before == IF i = "read_latch" THEN 0 ELSE served
               IN IF taken' = "nmi" /\ before < 2 THEN before + 1 ELSE before

Z80 == \E i \in Instructions, fires \in BOOLEAN : Step(i, fires)

Next == WriteCommand \/ Z80 \/ Reset

Spec == Init /\ [][Next]_vars

\* The host runs the Z80 for ever, and the sound program does not get stuck:
\* it opens the gate again and again, and its handlers run to their end.
FairSpec ==
  /\ Spec
  /\ \A i \in {"read_latch", "open_gate", "clear_timer", "return"} :
       SF_vars(\E fires \in BOOLEAN : Step(i, fires))

(***************************************************************************)
(* Properties.                                                             *)
(***************************************************************************)
\* The YM2610 interrupt is level sensitive: the Z80 enters the handler only
\* while the timer's flag is up, so a handler that has cleared it is not run a
\* second time.  This is what the withdrawal in ng_audio_step_z80 is for.
NoSpuriousInterrupt == taken = "int" => irq

\* A command the Z80 has not read is owed an NMI: it is waiting behind the
\* gate, raised at the Z80, or its handler has yet to read the latch.  So a
\* command is never forgotten, whatever the gate did when it was written.
CommandOwed ==
  unheard => pending \/ cpu.nmi \/ \E k \in 1..Len(frames) : frames[k] = "nmi"

\* Every command is read in the end, or a later one in its place.
CommandHeard == unheard ~> ~unheard

\* tests/test_neogeo_audio.c: "A second 68000 sound write before the Z80 reads
\* port $00 overwrites the first latched command and should still produce only
\* one NMI service."
OneNmiPerRead == served <= 1
=============================================================================

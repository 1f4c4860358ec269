---------------------------- MODULE SoundCpuProofs ----------------------------
(***************************************************************************)
(* The command latch and the interrupt line of the sound CPU: proofs for   *)
(* every depth of handlers.                                                *)
(***************************************************************************)
EXTENDS SoundCpu, TLAPS

Frames == {"int", "nmi", "done"}

CpuState == [nmi : BOOLEAN, int : BOOLEAN, iff1 : BOOLEAN, iff2 : BOOLEAN]

TypeOK ==
  /\ latch \in BOOLEAN /\ pending \in BOOLEAN /\ enabled \in BOOLEAN
  /\ cpu \in CpuState /\ irq \in BOOLEAN /\ frames \in Seq(Frames)
  /\ unheard \in BOOLEAN /\ served \in 0..2 /\ taken \in {"none", "int", "nmi"}

(***************************************************************************)
(* The parts of an instruction.                                            *)
(***************************************************************************)
LEMMA LinesType ==
  ASSUME TypeOK, NEW i \in Instructions
  PROVE  /\ Lines \in CpuState /\ Iff(Lines, i) \in CpuState
         /\ Iff(Lines, i).nmi = (cpu.nmi \/ RaisesNmi)
         /\ Iff(Lines, i).int = irq
         /\ i = "clear_timer" => Iff(Lines, i).iff1 = cpu.iff1
  <1>1. RaisesNmi \in BOOLEAN
    BY Zenon DEF RaisesNmi
  <1>2. Lines \in CpuState /\ Lines.nmi = (cpu.nmi \/ RaisesNmi)
        /\ Lines.int = irq /\ Lines.iff1 = cpu.iff1
    BY <1>1 DEF TypeOK, CpuState, Lines
  <1> QED
    BY <1>2 DEF Iff, CpuState, Instructions

\* A handler whose command is unread is left only by reading.
LEMMA FramesKept ==
  ASSUME TypeOK, NEW i \in Instructions, Allowed(i)
  PROVE  /\ FramesAfter(i) \in Seq(Frames)
         /\ i # "read_latch" /\ (\E k \in 1..Len(frames) : frames[k] = "nmi")
              => \E k \in 1..Len(FramesAfter(i)) : FramesAfter(i)[k] = "nmi"
  <1>1. frames \in Seq(Frames)
    BY DEF TypeOK
  <1>2. CASE i = "read_latch"
    <2>1. frames # <<>>
      BY <1>2 DEF Allowed, Top
    <2>2. Tail(frames) \in Seq(Frames) /\ <<"done">> \in Seq(Frames)
      BY <1>1, <2>1 DEF Frames
    <2> QED
      BY <1>2, <2>2 DEF FramesAfter
  <1>3. CASE i = "return"
    <2>1. frames # <<>> /\ frames[1] # "nmi"
      BY <1>1, <1>3 DEF Allowed, Top
    <2>2. FramesAfter(i) = Tail(frames)
      BY <1>3 DEF FramesAfter
    <2>3. Tail(frames) \in Seq(Frames) /\ Len(Tail(frames)) = Len(frames) - 1
          /\ \A k \in 1..Len(Tail(frames)) : Tail(frames)[k] = frames[k + 1]
      BY <1>1, <2>1
    <2>4. ASSUME NEW k \in 1..Len(frames), frames[k] = "nmi"
          PROVE  \E j \in 1..Len(Tail(frames)) : Tail(frames)[j] = "nmi"
      <3>1. k # 1 /\ Len(frames) \in Nat
        BY <1>1, <2>1, <2>4
      <3>2. k - 1 \in 1..Len(Tail(frames)) /\ Tail(frames)[k - 1] = frames[k]
        BY <2>3, <3>1
      <3> QED
        BY <2>4, <3>2
    <2> QED
      BY <2>2, <2>3, <2>4
  <1>4. CASE i \notin {"read_latch", "return"}
    BY <1>1, <1>4 DEF FramesAfter
  <1> QED
    BY <1>2, <1>3, <1>4

\* What the end of an instruction makes of the processor c and the handlers.
LEMMA EndKeepsNmi ==
  ASSUME NEW c \in CpuState, NEW i \in Instructions,
         FramesAfter(i) \in Seq(Frames), EndInstruction(c, i)
  PROVE  /\ cpu' \in CpuState /\ frames' \in Seq(Frames)
         /\ taken' \in {"none", "int", "nmi"}
         /\ taken' = "int" => c.int /\ c.iff1 /\ i # "ei"
         /\ c.nmi => cpu'.nmi \/ \E k \in 1..Len(frames') : frames'[k] = "nmi"
         /\ (\E k \in 1..Len(FramesAfter(i)) : FramesAfter(i)[k] = "nmi")
              => \E k \in 1..Len(frames') : frames'[k] = "nmi"
  <1> DEFINE f == FramesAfter(i)
             a == Accepts(c, i)
  <1>1. a \in {"none", "int", "nmi"}
        /\ (a = "int" => c.int /\ c.iff1 /\ i # "ei")
        /\ (a # "nmi" /\ c.nmi => a = "none")
    BY DEF Accepts, CpuState
  <1>2. taken' = a
    BY DEF EndInstruction
  <1>3. cpu' \in CpuState /\ (a = "none" => cpu' = c)
    BY <1>1 DEF EndInstruction, CpuState
  <1>4. frames' = IF a = "none" THEN f ELSE <<a>> \o f
    BY DEF EndInstruction
  <1> HIDE DEF a, f
  <1>5. f \in Seq(Frames)
    BY DEF f
  <1>6. CASE a = "none"
    BY <1>1, <1>2, <1>3, <1>4, <1>5, <1>6 DEF f
  <1>7. CASE a # "none"
    <2>1. <<a>> \in Seq(Frames)
      BY <1>1, <1>7 DEF Frames
    <2>2. frames' \in Seq(Frames) /\ Len(frames') = Len(f) + 1
          /\ frames'[1] = a
          /\ \A k \in 1..Len(f) : frames'[k + 1] = f[k]
      BY <1>4, <1>5, <1>7, <2>1
    <2>3. ASSUME NEW k \in 1..Len(f), f[k] = "nmi"
          PROVE  \E j \in 1..Len(frames') : frames'[j] = "nmi"
      <3>1. k + 1 \in 1..Len(frames') /\ Len(f) \in Nat
        BY <1>5, <2>2
      <3> QED
        BY <2>2, <2>3, <3>1
    <2>4. 1 \in 1..Len(frames')
      BY <1>5, <2>2
    <2> QED
      BY <1>1, <1>2, <1>3, <1>7, <2>2, <2>3, <2>4 DEF f
  <1> QED
    BY <1>6, <1>7

(***************************************************************************)
(* The inductive invariant: neither part needs more than the types.        *)
(***************************************************************************)
CommandInv == TypeOK /\ NoSpuriousInterrupt /\ CommandOwed

LEMMA StepKeepsInv ==
  ASSUME CommandInv, NEW i \in Instructions, NEW fires \in BOOLEAN,
         Step(i, fires)
  PROVE  CommandInv'
  <1> DEFINE c == Iff(Lines, i)
  <1>1. TypeOK /\ Allowed(i) /\ EndInstruction(c, i)
    BY DEF CommandInv, Step
  <1>2. /\ c \in CpuState
        /\ c.nmi = (cpu.nmi \/ RaisesNmi)
        /\ c.int = irq
        /\ i = "clear_timer" => c.iff1 = cpu.iff1
    BY <1>1, LinesType
  <1> HIDE DEF c
  <1>3. /\ FramesAfter(i) \in Seq(Frames)
        /\ i # "read_latch" /\ (\E k \in 1..Len(frames) : frames[k] = "nmi")
             => \E k \in 1..Len(FramesAfter(i)) : FramesAfter(i)[k] = "nmi"
    BY <1>1, FramesKept
  <1>4. /\ cpu' \in CpuState /\ frames' \in Seq(Frames)
        /\ taken' \in {"none", "int", "nmi"}
        /\ taken' = "int" => c.int /\ c.iff1 /\ i # "ei"
        /\ c.nmi => cpu'.nmi \/ \E k \in 1..Len(frames') : frames'[k] = "nmi"
        /\ (\E k \in 1..Len(FramesAfter(i)) : FramesAfter(i)[k] = "nmi")
             => \E k \in 1..Len(frames') : frames'[k] = "nmi"
    BY <1>1, <1>2, <1>3, EndKeepsNmi
  <1>5. TypeOK'
    <2>1. latch' \in BOOLEAN /\ pending' \in BOOLEAN /\ enabled' \in BOOLEAN
          /\ irq' \in BOOLEAN /\ unheard' \in BOOLEAN
      BY <1>1, Zenon DEF Step, TypeOK, LatchAfter, PendingAfter, Gate, TimerAfter
    <2>2. served' \in 0..2
      BY <1>1 DEF Step, TypeOK
    <2> QED
      BY <1>4, <2>1, <2>2 DEF TypeOK
  <1>6. NoSpuriousInterrupt'
    <2>1. taken' = "int" => irq /\ i # "clear_timer"
      BY <1>1, <1>2, <1>4 DEF Allowed
    <2> QED
      BY <2>1, Zenon DEF NoSpuriousInterrupt, Step, TimerAfter
  <1>7. CommandOwed'
    <2>1. CASE i = "read_latch"
      BY <2>1, Zenon DEF CommandOwed, Step
    <2>2. CASE i # "read_latch"
      <3>1. unheard' = unheard
        BY <1>1, <2>2, Zenon DEF Step, TypeOK
      <3>2. pending /\ ~RaisesNmi => pending'
        BY <2>2, Zenon DEF Step, PendingAfter
      <3> QED
        BY <1>2, <1>3, <1>4, <2>2, <3>1, <3>2, Zenon DEF CommandInv, CommandOwed
    <2> QED
      BY <2>1, <2>2
  <1> QED
    BY <1>5, <1>6, <1>7 DEF CommandInv

LEMMA CommandInvariant == Spec => []CommandInv
  <1>0. ResetCpu \in CpuState /\ <<>> \in Seq(Frames) /\ 0 \in 0..2
        /\ "none" # "int"
    BY DEF ResetCpu, CpuState
  <1>1. Init => CommandInv
    BY <1>0, Zenon DEF Init, CommandInv, TypeOK, NoSpuriousInterrupt, CommandOwed
  <1>2. CommandInv /\ [Next]_vars => CommandInv'
    <2> SUFFICES ASSUME CommandInv, [Next]_vars PROVE CommandInv'
      OBVIOUS
    <2>1. CASE WriteCommand
      BY <2>1 DEF WriteCommand, CommandInv, TypeOK, NoSpuriousInterrupt,
                  CommandOwed
    <2>2. CASE Z80
      BY <2>2, StepKeepsInv DEF Z80
    <2>3. CASE Reset
      BY <1>0, <2>3, Zenon
      DEF Reset, CommandInv, TypeOK, NoSpuriousInterrupt, CommandOwed
    <2>4. CASE UNCHANGED vars
      BY <2>4 DEF vars, CommandInv, TypeOK, NoSpuriousInterrupt, CommandOwed
    <2> QED
      BY <2>1, <2>2, <2>3, <2>4 DEF Next
  <1> QED
    BY <1>1, <1>2, PTL DEF Spec

(***************************************************************************)
(* Theorems.                                                               *)
(***************************************************************************)
\* The Z80 enters the timer handler only while the timer's flag is up,
\* however deep its handlers are nested: the withdrawal of the request in
\* ng_audio_step_z80 is enough.
THEOREM InterruptsReal == Spec => []NoSpuriousInterrupt
  <1>1. CommandInv => NoSpuriousInterrupt
    BY DEF CommandInv
  <1> QED
    BY <1>1, CommandInvariant, PTL

\* A command that was written and not read is owed an NMI in every state,
\* whatever the gate did meanwhile (ng_neogeo_audio_write_command and the
\* port writes).
THEOREM CommandsOwed == Spec => []CommandOwed
  <1>1. CommandInv => CommandOwed
    BY DEF CommandInv
  <1> QED
    BY <1>1, CommandInvariant, PTL
=============================================================================

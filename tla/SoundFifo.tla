------------------------------ MODULE SoundFifo ------------------------------
(***************************************************************************)
(* What runtime/src/neogeo_runtime.c promises about sound command events:  *)
(* a first-in first-out queue of bounded length.  A write to the sound     *)
(* register always succeeds; when the queue is full the oldest event makes *)
(* room and is counted as an overflow.  A save state captures the queue    *)
(* and a load puts it back.                                                *)
(***************************************************************************)
EXTENDS Naturals, Sequences

CONSTANTS Events, Capacity

VARIABLES
  fifo,       \* the events waiting, oldest first
  overflows,  \* events that made room
  popped,     \* the event handed out last, as a sequence of length at most 1
  saved       \* the queue and the overflow count in the save state

vars == <<fifo, overflows, popped, saved>>

Init ==
  /\ fifo = <<>> /\ overflows = 0 /\ popped = <<>>
  /\ saved = [fifo |-> <<>>, overflows |-> 0]

Write(e) ==
  /\ \/ /\ Len(fifo) < Capacity
        /\ fifo' = Append(fifo, e)
        /\ UNCHANGED overflows
     \/ /\ Len(fifo) >= Capacity
        /\ fifo' = Append(Tail(fifo), e)
        /\ overflows' = overflows + 1
  /\ UNCHANGED <<popped, saved>>

Pop ==
  /\ fifo # <<>>
  /\ popped' = <<Head(fifo)>>
  /\ fifo' = Tail(fifo)
  /\ UNCHANGED <<overflows, saved>>

Save ==
  /\ saved' = [fifo |-> fifo, overflows |-> overflows]
  /\ UNCHANGED <<fifo, overflows, popped>>

Load ==
  /\ fifo' = saved.fifo /\ overflows' = saved.overflows
  /\ UNCHANGED <<popped, saved>>

Reset ==
  /\ fifo' = <<>> /\ overflows' = 0
  /\ UNCHANGED <<popped, saved>>

Next == (\E e \in Events : Write(e)) \/ Pop \/ Save \/ Load \/ Reset

Spec == Init /\ [][Next]_vars
=============================================================================

----------------------------- MODULE SoundQueue -----------------------------
(***************************************************************************)
(* The ring of sound command events in runtime/src/neogeo_runtime.c: a     *)
(* fixed array with head, tail and count, written by the 68000 side of the *)
(* bus, popped by the host, and copied whole into and out of save states.  *)
(* It implements SoundFifo.                                                *)
(***************************************************************************)
EXTENDS Naturals, Sequences

CONSTANTS
  Events,       \* (cycle, pc, command) triples, as opaque values
  NoEvent,      \* content of a slot that was never written
  Capacity,     \* NG_NEO_SOUND_COMMAND_QUEUE_CAPACITY, 512
  MaxOverflows  \* bound on the overflow counter

ASSUME QueueAssumption == Capacity \in Nat \ {0} /\ MaxOverflows \in Nat

VARIABLES
  slots, head, tail, count, overflows,
  popped,  \* what pop returned last, as a sequence of length at most 1
  saved    \* the queue fields of the save state

ring == <<slots, head, tail, count, overflows>>
vars == <<ring, popped, saved>>

Slots == 0..(Capacity - 1)

Succ(i) == (i + 1) % Capacity

Blob == [slots : [Slots -> Events \cup {NoEvent}], head : Slots, tail : Slots,
         count : 0..Capacity, overflows : Nat]

Empty == [slots |-> [i \in Slots |-> NoEvent], head |-> 0, tail |-> 0,
          count |-> 0, overflows |-> 0]

Init ==
  /\ slots = Empty.slots /\ head = 0 /\ tail = 0 /\ count = 0
  /\ overflows = 0 /\ popped = <<>> /\ saved = Empty

\* Mutation: a full ring overwrites the oldest event but keeps the tail.
WriteKeepsTail(e) ==
  /\ overflows < MaxOverflows
  /\ slots' = [slots EXCEPT ![head] = e]
  /\ head' = Succ(head)
  /\ count' = IF count < Capacity THEN count + 1 ELSE count
  /\ overflows' = IF count < Capacity THEN overflows ELSE overflows + 1
  /\ UNCHANGED <<tail, popped, saved>>

\* Mutation: a full ring drops the new event.
WriteDropsNew(e) ==
  /\ overflows < MaxOverflows
  /\ \/ /\ count >= Capacity
        /\ overflows' = overflows + 1
        /\ UNCHANGED <<slots, head, count>>
     \/ /\ count < Capacity
        /\ slots' = [slots EXCEPT ![head] = e]
        /\ head' = Succ(head) /\ count' = count + 1
        /\ UNCHANGED overflows
  /\ UNCHANGED <<tail, popped, saved>>

\* ng_neogeo_queue_sound_command.
Write(e) ==
  /\ overflows < MaxOverflows
  /\ \/ /\ count >= Capacity
        /\ tail' = Succ(tail)
        /\ overflows' = overflows + 1
        /\ count' = count
     \/ /\ count < Capacity
        /\ UNCHANGED <<tail, overflows>>
        /\ count' = count + 1
  /\ slots' = [slots EXCEPT ![head] = e]
  /\ head' = Succ(head)
  /\ UNCHANGED <<popped, saved>>

\* ng_neogeo_pop_sound_command_event; an empty ring returns 0.
Pop ==
  /\ count # 0
  /\ popped' = <<slots[tail]>>
  /\ tail' = Succ(tail)
  /\ count' = count - 1
  /\ UNCHANGED <<slots, head, overflows, saved>>

\* The queue part of ng_neogeo_runtime_save_state.
Save ==
  /\ saved' = [slots |-> slots, head |-> head, tail |-> tail,
               count |-> count, overflows |-> overflows]
  /\ UNCHANGED <<ring, popped>>

\* The queue part of ng_neogeo_runtime_load_state, with its validation.
Load ==
  /\ saved.head < Capacity /\ saved.tail < Capacity /\ saved.count <= Capacity
  /\ slots' = saved.slots /\ head' = saved.head /\ tail' = saved.tail
  /\ count' = saved.count /\ overflows' = saved.overflows
  /\ UNCHANGED <<popped, saved>>

\* The queue part of ng_neogeo_reset_runtime: the slots keep their content.
Reset ==
  /\ head' = 0 /\ tail' = 0 /\ count' = 0 /\ overflows' = 0
  /\ UNCHANGED <<slots, popped, saved>>

Next == (\E e \in Events : Write(e)) \/ Pop \/ Save \/ Load \/ Reset

Spec == Init /\ [][Next]_vars

(***************************************************************************)
(* Properties.                                                             *)
(***************************************************************************)
\* The fields have their types; no slot in use is one that was never written.
TypeOK ==
  /\ slots \in [Slots -> Events \cup {NoEvent}]
  /\ head \in Slots /\ tail \in Slots /\ count \in 0..Capacity
  /\ overflows \in Nat /\ saved \in Blob

\* The three indices are redundant and must agree, in the live ring and in
\* the one a save state holds: head is count places after tail.
RingConsistent ==
  /\ head = (tail + count) % Capacity
  /\ saved.head = (saved.tail + saved.count) % Capacity

\* The contents of a ring, oldest first.
Contents(s, t, n) == [i \in 1..n |-> s[(t + i - 1) % Capacity]]

Fifo == INSTANCE SoundFifo WITH
  fifo  <- Contents(slots, tail, count),
  saved <- [fifo |-> Contents(saved.slots, saved.tail, saved.count),
            overflows |-> saved.overflows]

\* The ring implements the bounded queue: commands come out in the order they
\* were written, each once, and an overflow drops the oldest one, through any
\* wrap of the indices and any save and load.
ImplementsFifo == Fifo!Spec
=============================================================================

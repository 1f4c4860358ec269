---------------------------- MODULE NeoBusProofs ----------------------------
(***************************************************************************)
(* The ring of SoundQueue implements the queue of SoundFifo, for every     *)
(* capacity and every set of events, and it keeps that promise on the bus: *)
(* every step of NeoBus is a step of SoundQueue or leaves the ring alone,  *)
(* whatever the widths, addresses and programs.                            *)
(***************************************************************************)
EXTENDS NeoBus, SequenceTheorems, TLAPS


(***************************************************************************)
(* Indices.                                                                *)
(***************************************************************************)
\* An index at most one lap ahead is folded back once.
LEMMA Fold ==
  ASSUME NEW t \in Slots, NEW k \in 0..Capacity
  PROVE  /\ (t + k) % Capacity \in Slots
         /\ (t + k) % Capacity = IF t + k < Capacity THEN t + k
                                                     ELSE t + k - Capacity
<1> USE QueueAssumption DEF Slots
<1>1. CASE t + k < Capacity
  BY <1>1, SMT
<1>2. CASE t + k >= Capacity
  <2>1. (t + k) % Capacity = t + k - Capacity
    BY <1>2, SMT
  <2> QED
    BY <1>2, <2>1, SMT
<1> QED
  BY <1>1, <1>2, SMT

LEMMA SuccIndex ==
  ASSUME NEW t \in Slots
  PROVE  /\ Succ(t) \in Slots
         /\ Succ(t) = IF t + 1 = Capacity THEN 0 ELSE t + 1
<1>1. 1 \in 0..Capacity
  BY QueueAssumption
<1>2. /\ Succ(t) \in Slots
      /\ Succ(t) = IF t + 1 < Capacity THEN t + 1 ELSE t + 1 - Capacity
  BY <1>1, Fold DEF Succ
<1> QED
  BY <1>2, QueueAssumption DEF Slots

\* Distinct offsets within one lap are distinct slots.
LEMMA DistinctSlots ==
  ASSUME NEW t \in Slots, NEW j \in 0..Capacity, NEW k \in 0..Capacity,
         j < k, k - j < Capacity
  PROVE  (t + j) % Capacity # (t + k) % Capacity
<1> DEFINE a == (t + j) % Capacity
           b == (t + k) % Capacity
<1>1. a = IF t + j < Capacity THEN t + j ELSE t + j - Capacity
  BY Fold
<1>2. b = IF t + k < Capacity THEN t + k ELSE t + k - Capacity
  BY Fold
<1> HIDE DEF a, b
<1>3. a # b
  BY <1>1, <1>2, QueueAssumption DEF Slots
<1> QED
  BY <1>3 DEF a, b

(***************************************************************************)
(* Contents.                                                               *)
(***************************************************************************)
Holds(C, V, s, t, n) ==
  /\ C \in Seq(V) /\ Len(C) = n
  /\ \A i \in 1..n : C[i] = s[(t + i - 1) % Capacity]

LEMMA ContentsSeq ==
  ASSUME NEW V, NEW s \in [Slots -> V], NEW t \in Slots,
         NEW n \in 0..Capacity
  PROVE  Holds(Contents(s, t, n), V, s, t, n)
<1>1. \A i \in 1..n : (t + i - 1) % Capacity \in Slots
  <2>1. \A i \in 1..n : i - 1 \in 0..Capacity /\ t + i - 1 = t + (i - 1)
    BY QueueAssumption DEF Slots
  <2> QED
    BY <2>1, Fold
<1>2. \A i \in 1..n : s[(t + i - 1) % Capacity] \in V
  BY <1>1
<1> QED
  BY <1>2, QueueAssumption DEF Contents, Holds

LEMMA ContentsEmpty ==
  ASSUME NEW s, NEW t
  PROVE  Contents(s, t, 0) = <<>>
BY DEF Contents

\* Named so that the provers can match instances of the lemma as they stand:
\* w is s with e in slot h, and e comes last.
Stored(w, s, h, e) == w[h] = e /\ \A i \in Slots \ {h} : w[i] = s[i]
Pushed(s, e) == Append(s, e)

\* Writing the slot after the last one appends.
LEMMA ContentsAppend ==
  ASSUME NEW V, NEW s \in [Slots -> V], NEW w \in [Slots -> V],
         NEW t \in Slots, NEW n \in 0..(Capacity - 1), NEW e \in V,
         NEW h, h = (t + n) % Capacity,
         Stored(w, s, h, e)
  PROVE  Contents(w, t, n + 1) = Pushed(Contents(s, t, n), e)
<1> DEFINE L == Contents(w, t, n + 1)
           C == Contents(s, t, n)
<1>1. /\ n \in 0..Capacity /\ n + 1 \in 0..Capacity
  BY QueueAssumption
<1>2. h \in Slots
  BY <1>1, Fold
<1>3. Holds(L, V, w, t, n + 1) /\ Holds(C, V, s, t, n)
  BY <1>1, ContentsSeq
<1>4. /\ L \in Seq(V) /\ Len(L) = n + 1
      /\ \A i \in 1..(n + 1) : L[i] = w[(t + i - 1) % Capacity]
  BY <1>3, Zenon DEF Holds
<1>5. /\ C \in Seq(V) /\ Len(C) = n
      /\ \A i \in 1..n : C[i] = s[(t + i - 1) % Capacity]
  BY <1>3, Zenon DEF Holds
<1>6. \A i \in 1..n : L[i] = C[i]
  <2> TAKE i \in 1..n
  <2>1. /\ i - 1 \in 0..Capacity /\ i - 1 < n /\ n - (i - 1) < Capacity
        /\ t + i - 1 = t + (i - 1)
    BY <1>1, QueueAssumption DEF Slots
  <2>2. (t + i - 1) % Capacity # h /\ (t + i - 1) % Capacity \in Slots
    BY <1>1, <2>1, DistinctSlots, Fold
  <2>3. L[i] = w[(t + i - 1) % Capacity]
    <3>1. i \in 1..(n + 1)
      BY <1>1, QueueAssumption
    <3> HIDE DEF L
    <3> QED
      BY <1>4, <3>1
  <2> HIDE DEF L, C
  <2> QED
    BY <1>5, <2>2, <2>3 DEF Stored
<1>7. L[n + 1] = e
  <2>1. t + (n + 1) - 1 = t + n /\ n + 1 \in 1..(n + 1)
    BY QueueAssumption DEF Slots
  <2> QED
    BY <1>4, <2>1 DEF Stored
<1> HIDE DEF L, C
<1>8. /\ Append(C, e) \in Seq(V) /\ Len(Append(C, e)) = n + 1
      /\ \A i \in 1..n : Append(C, e)[i] = C[i]
      /\ Append(C, e)[n + 1] = e
  BY <1>5, AppendProperties
<1>9. \A i \in 1..(n + 1) : L[i] = Append(C, e)[i]
  BY <1>6, <1>7, <1>8
<1>10. L = Append(C, e)
  BY <1>4, <1>8, <1>9, SeqEqual
<1> QED
  BY <1>10 DEF L, C, Pushed

\* Moving the tail drops the oldest event.
LEMMA ContentsTail ==
  ASSUME NEW V, NEW s \in [Slots -> V], NEW t \in Slots,
         NEW n \in 1..Capacity
  PROVE  /\ Contents(s, t, n) # <<>>
         /\ Head(Contents(s, t, n)) = s[t]
         /\ Contents(s, Succ(t), n - 1) = Tail(Contents(s, t, n))
<1> DEFINE C == Contents(s, t, n)
           D == Contents(s, Succ(t), n - 1)
<1>1. n \in 0..Capacity /\ n - 1 \in 0..Capacity /\ Succ(t) \in Slots
  BY QueueAssumption, SuccIndex
<1>0. Holds(C, V, s, t, n) /\ Holds(D, V, s, Succ(t), n - 1)
  BY <1>1, ContentsSeq
<1>2. /\ C \in Seq(V) /\ Len(C) = n
      /\ \A i \in 1..n : C[i] = s[(t + i - 1) % Capacity]
  BY <1>0, Zenon DEF Holds
<1>3. /\ D \in Seq(V) /\ Len(D) = n - 1
      /\ \A i \in 1..(n - 1) : D[i] = s[(Succ(t) + i - 1) % Capacity]
  BY <1>0, Zenon DEF Holds
<1>4. C # <<>> /\ C[1] = s[t]
  <2>1. (t + 1 - 1) % Capacity = t
    <3>1. t + 1 - 1 = t + 0 /\ 0 \in 0..Capacity
      BY QueueAssumption DEF Slots
    <3>2. (t + 0) % Capacity = IF t + 0 < Capacity THEN t + 0
                                                   ELSE t + 0 - Capacity
      BY <3>1, Fold
    <3>3. t + 0 = t /\ t < Capacity
      BY QueueAssumption DEF Slots
    <3> QED
      BY <3>1, <3>2, <3>3
  <2> HIDE DEF C
  <2>2. C # <<>>
    BY <1>2
  <2> QED
    BY <1>2, <2>1, <2>2
<1>5. \A i \in 1..(n - 1) : D[i] = C[i + 1]
  <2> TAKE i \in 1..(n - 1)
  <2>1. /\ i - 1 \in 0..Capacity /\ i \in 0..Capacity /\ i + 1 \in 1..n
        /\ Succ(t) + i - 1 = Succ(t) + (i - 1) /\ t + (i + 1) - 1 = t + i
    BY <1>1, QueueAssumption DEF Slots
  <2>2. (Succ(t) + (i - 1)) % Capacity = (t + i) % Capacity
    <3> DEFINE a == (Succ(t) + (i - 1)) % Capacity
               b == (t + i) % Capacity
               u == Succ(t)
    <3>1. a = IF u + (i - 1) < Capacity THEN u + (i - 1)
                                        ELSE u + (i - 1) - Capacity
      BY <1>1, <2>1, Fold
    <3>2. b = IF t + i < Capacity THEN t + i ELSE t + i - Capacity
      BY <2>1, Fold
    <3>3. u = IF t + 1 = Capacity THEN 0 ELSE t + 1
      BY SuccIndex
    <3> HIDE DEF a, b, u
    <3>4. a = b
      BY <2>1, <3>1, <3>2, <3>3, QueueAssumption DEF Slots
    <3> QED
      BY <3>4 DEF a, b
  <2> HIDE DEF C, D
  <2> QED
    BY <1>2, <1>3, <2>1, <2>2
<1> HIDE DEF C, D
<1>6. /\ Tail(C) \in Seq(V) /\ Len(Tail(C)) = n - 1
      /\ \A i \in 1..(n - 1) : Tail(C)[i] = C[i + 1]
      /\ Head(C) = C[1]
  BY <1>2, <1>4, HeadTailProperties
<1>7. D = Tail(C)
  BY <1>3, <1>5, <1>6, SeqEqual
<1> QED
  BY <1>4, <1>6, <1>7 DEF C, D
(***************************************************************************)
(* The inductive invariant.                                                *)
(***************************************************************************)
IInv == TypeOK /\ RingConsistent

Values == Events \cup {NoEvent}

LEMMA InvInit == Init => IInv
<1> SUFFICES ASSUME Init
             PROVE  IInv
  OBVIOUS
<1>1. 0 \in Slots /\ 0 \in 0..Capacity
  BY QueueAssumption DEF Slots
<1>2. (0 + 0) % Capacity = 0
  <2>1. (0 + 0) % Capacity = IF 0 + 0 < Capacity THEN 0 + 0 ELSE 0 + 0 - Capacity
    BY <1>1, Fold
  <2> QED
    BY <2>1, QueueAssumption
<1>3. Empty \in Blob
  BY <1>1 DEF Empty, Blob
<1> QED
  BY <1>1, <1>2, <1>3 DEF Init, IInv, TypeOK, RingConsistent, Empty

LEMMA InvStep == IInv /\ [Next]_vars => IInv'
<1> SUFFICES ASSUME IInv, [Next]_vars
             PROVE  IInv'
  OBVIOUS
<1> USE QueueAssumption DEF ring
<1>1. /\ slots \in [Slots -> Values] /\ head \in Slots /\ tail \in Slots
      /\ count \in 0..Capacity /\ overflows \in Nat /\ saved \in Blob
      /\ head = (tail + count) % Capacity
      /\ saved.head = (saved.tail + saved.count) % Capacity
  BY DEF IInv, TypeOK, RingConsistent, Values
<1>2. Succ(head) \in Slots /\ Succ(tail) \in Slots
  BY <1>1, SuccIndex
<1>3. ASSUME NEW e \in Events, Write(e)
      PROVE  IInv'
  <2>1. slots' \in [Slots -> Values] /\ UNCHANGED saved
    BY <1>1, <1>3 DEF Write, Values
  <2>2. CASE count >= Capacity
    <3>1. /\ count' = count /\ tail' = Succ(tail) /\ head' = Succ(head)
          /\ overflows' = overflows + 1
      BY <1>1, <1>3, <2>2 DEF Write
    <3>2. count = Capacity
      BY <1>1, <2>2
    <3>3. head = tail
      <4>1. (tail + Capacity) % Capacity = tail
        <5>1. (tail + Capacity) % Capacity
                = IF tail + Capacity < Capacity
                  THEN tail + Capacity ELSE tail + Capacity - Capacity
          BY <1>1, Fold
        <5> QED
          BY <1>1, <5>1 DEF Slots
      <4> QED
        BY <1>1, <3>2, <4>1
    <3>4. head' = (tail' + count') % Capacity
      <4>1. (Succ(tail) + Capacity) % Capacity = Succ(tail)
        <5>1. (Succ(tail) + Capacity) % Capacity
                = IF Succ(tail) + Capacity < Capacity
                  THEN Succ(tail) + Capacity
                  ELSE Succ(tail) + Capacity - Capacity
          BY <1>2, Fold
        <5> QED
          BY <1>2, <5>1 DEF Slots
      <4> QED
        BY <3>1, <3>2, <3>3, <4>1
    <3> QED
      BY <1>1, <1>2, <2>1, <3>1, <3>4 DEF IInv, TypeOK, RingConsistent, Values
  <2>3. CASE count < Capacity
    <3>1. /\ count' = count + 1 /\ tail' = tail /\ head' = Succ(head)
          /\ overflows' = overflows
      BY <1>1, <1>3, <2>3 DEF Write
    <3>2. head' = (tail' + count') % Capacity
      <4> DEFINE a == (tail + count) % Capacity
                 b == (tail + (count + 1)) % Capacity
                 c == Succ(head)
      <4>1. a = IF tail + count < Capacity THEN tail + count
                                           ELSE tail + count - Capacity
        BY <1>1, Fold
      <4>2. count + 1 \in 0..Capacity
        BY <1>1, <2>3
      <4>3. b = IF tail + (count + 1) < Capacity
                THEN tail + (count + 1) ELSE tail + (count + 1) - Capacity
        BY <1>1, <4>2, Fold
      <4>4. c = IF head + 1 = Capacity THEN 0 ELSE head + 1
        BY <1>1, SuccIndex
      <4>5. head = a
        BY <1>1
      <4> HIDE DEF a, b, c
      <4>6. b = c
        BY <1>1, <2>3, <4>1, <4>3, <4>4, <4>5 DEF Slots
      <4> QED
        BY <3>1, <4>6 DEF b, c
    <3>3. count' \in 0..Capacity
      BY <1>1, <2>3, <3>1
    <3> QED
      BY <1>1, <1>2, <2>1, <3>1, <3>2, <3>3
         DEF IInv, TypeOK, RingConsistent, Values
  <2> QED
    BY <1>1, <2>2, <2>3
<1>4. CASE Pop
  <2>1. /\ count' = count - 1 /\ tail' = Succ(tail) /\ count # 0
        /\ UNCHANGED <<slots, head, overflows, saved>>
    BY <1>4 DEF Pop
  <2>2. head = (Succ(tail) + (count - 1)) % Capacity
    <3> DEFINE a == (tail + count) % Capacity
               b == (Succ(tail) + (count - 1)) % Capacity
               c == Succ(tail)
    <3>1. a = IF tail + count < Capacity THEN tail + count
                                         ELSE tail + count - Capacity
      BY <1>1, Fold
    <3>2. count - 1 \in 0..Capacity
      BY <1>1, <2>1
    <3>3. b = IF c + (count - 1) < Capacity THEN c + (count - 1)
                                            ELSE c + (count - 1) - Capacity
      BY <1>2, <3>2, Fold
    <3>4. c = IF tail + 1 = Capacity THEN 0 ELSE tail + 1
      BY <1>1, SuccIndex
    <3> HIDE DEF a, b, c
    <3>5. a = b
      BY <1>1, <2>1, <3>1, <3>3, <3>4 DEF Slots
    <3> QED
      BY <1>1, <3>5 DEF a, b
  <2>3. count' \in 0..Capacity
    BY <1>1, <2>1
  <2> QED
    BY <1>1, <1>2, <2>1, <2>2, <2>3 DEF IInv, TypeOK, RingConsistent, Values
<1>5. CASE Save
  <2>1. /\ saved' = [slots |-> slots, head |-> head, tail |-> tail,
                     count |-> count, overflows |-> overflows]
        /\ UNCHANGED ring
    BY <1>5 DEF Save
  <2>2. saved' \in Blob
    BY <1>1, <2>1 DEF Blob, Values
  <2>3. saved'.head = (saved'.tail + saved'.count) % Capacity
    BY <1>1, <2>1
  <2> QED
    BY <1>1, <2>1, <2>2, <2>3 DEF IInv, TypeOK, RingConsistent, Values
<1>6. CASE Load
  <2>1. /\ slots' = saved.slots /\ head' = saved.head /\ tail' = saved.tail
        /\ count' = saved.count /\ overflows' = saved.overflows
        /\ UNCHANGED saved
    BY <1>6 DEF Load
  <2>2. /\ saved.slots \in [Slots -> Values] /\ saved.head \in Slots
        /\ saved.tail \in Slots /\ saved.count \in 0..Capacity
        /\ saved.overflows \in Nat
    BY <1>1 DEF Blob, Values
  <2> QED
    BY <1>1, <2>1, <2>2 DEF IInv, TypeOK, RingConsistent, Values
<1>7. CASE Reset
  <2>1. 0 \in Slots /\ 0 \in 0..Capacity
    BY DEF Slots
  <2>2. (0 + 0) % Capacity = 0
    <3>1. (0 + 0) % Capacity
            = IF 0 + 0 < Capacity THEN 0 + 0 ELSE 0 + 0 - Capacity
      BY <2>1, Fold
    <3> QED
      BY <3>1
  <2> QED
    BY <1>1, <1>7, <2>1, <2>2 DEF Reset, IInv, TypeOK, RingConsistent, Values
<1>8. CASE UNCHANGED vars
  BY <1>1, <1>8 DEF vars, IInv, TypeOK, RingConsistent, Values
<1> QED
  BY <1>3, <1>4, <1>5, <1>6, <1>7, <1>8 DEF Next

\* The indices always agree, in the ring and in every save state.
THEOREM RingCorrect == Spec => [](TypeOK /\ RingConsistent)
<1>1. IInv => TypeOK /\ RingConsistent
  BY DEF IInv
<1> QED
  BY <1>1, InvInit, InvStep, PTL DEF Spec
(***************************************************************************)
(* Refinement.                                                             *)
(***************************************************************************)
\* The queue the ring stands for.
Queue == Contents(slots, tail, count)

LEMMA RefineInit == Init => Fifo!Init
<1> SUFFICES ASSUME Init
             PROVE  Fifo!Init
  OBVIOUS
<1>1. Contents(slots, tail, count) = <<>>
  BY ContentsEmpty DEF Init
<1>2. Contents(saved.slots, saved.tail, saved.count) = <<>>
  BY ContentsEmpty DEF Init, Empty
<1>3. saved.overflows = 0
  BY DEF Init, Empty
<1> QED
  BY <1>1, <1>2, <1>3 DEF Init, Fifo!Init

LEMMA RefineStep == IInv /\ [Next]_vars => [Fifo!Next]_(Fifo!vars)
<1> SUFFICES ASSUME IInv, [Next]_vars
             PROVE  [Fifo!Next]_(Fifo!vars)
  OBVIOUS
<1> USE QueueAssumption DEF ring
<1>1. /\ slots \in [Slots -> Values] /\ head \in Slots /\ tail \in Slots
      /\ count \in 0..Capacity /\ overflows \in Nat /\ saved \in Blob
      /\ head = (tail + count) % Capacity
  BY DEF IInv, TypeOK, RingConsistent, Values
<1>2. Queue \in Seq(Values) /\ Len(Queue) = count
  BY <1>1, ContentsSeq DEF Queue, Holds
<1>3. ASSUME NEW e \in Events, Write(e)
      PROVE  Fifo!Write(e)
  <2>0. /\ e \in Values /\ UNCHANGED <<popped, saved>>
        /\ slots' \in [Slots -> Values] /\ Stored(slots', slots, head, e)
    BY <1>1, <1>3 DEF Write, Values, Stored
  <2>1. CASE count < Capacity
    <3>1. /\ count' = count + 1 /\ tail' = tail /\ overflows' = overflows
      BY <1>1, <1>3, <2>1 DEF Write
    <3>2. count \in 0..(Capacity - 1)
      BY <1>1, <2>1
    <3>3. Contents(slots', tail, count + 1) = Pushed(Queue, e)
      BY <1>1, <2>0, <3>1, <3>2, ContentsAppend DEF Queue
    <3>4. Queue' = Append(Queue, e)
      BY <3>1, <3>3 DEF Queue, Pushed
    <3> QED
      BY <1>2, <2>0, <2>1, <3>1, <3>4 DEF Fifo!Write, Queue
  <2>2. CASE count >= Capacity
    <3>1. /\ count' = count /\ tail' = Succ(tail)
          /\ overflows' = overflows + 1
      BY <1>1, <1>3, <2>2 DEF Write
    <3>2. /\ count = Capacity /\ count \in 1..Capacity
          /\ count - 1 \in 0..(Capacity - 1) /\ (count - 1) + 1 = count
      BY <1>1, <2>2
    <3>3. Contents(slots, Succ(tail), count - 1) = Tail(Queue)
      BY <1>1, <3>2, ContentsTail DEF Queue
    <3>4. head = (Succ(tail) + (count - 1)) % Capacity
      <4> DEFINE a == (tail + count) % Capacity
                 b == (Succ(tail) + (count - 1)) % Capacity
                 c == Succ(tail)
      <4>1. a = IF tail + count < Capacity THEN tail + count
                                           ELSE tail + count - Capacity
        BY <1>1, Fold
      <4>2. count - 1 \in 0..Capacity /\ c \in Slots
        BY <1>1, <3>2, SuccIndex
      <4>3. b = IF c + (count - 1) < Capacity THEN c + (count - 1)
                                              ELSE c + (count - 1) - Capacity
        BY <4>2, Fold
      <4>4. c = IF tail + 1 = Capacity THEN 0 ELSE tail + 1
        BY <1>1, SuccIndex
      <4> HIDE DEF a, b, c
      <4>5. a = b
        BY <1>1, <3>2, <4>1, <4>3, <4>4 DEF Slots
      <4> QED
        BY <1>1, <4>5 DEF a, b
    <3>5. Contents(slots', Succ(tail), (count - 1) + 1)
            = Pushed(Contents(slots, Succ(tail), count - 1), e)
      <4> DEFINE u == Succ(tail)
                 m == count - 1
      <4>1. u \in Slots
        BY <1>1, SuccIndex
      <4>2. m \in 0..(Capacity - 1)
        BY <3>2
      <4>3. head = (u + m) % Capacity
        BY <3>4
      <4>4. slots \in [Slots -> Values]
        BY <1>1
      <4> HIDE DEF u, m
      <4>5. Contents(slots', u, m + 1) = Pushed(Contents(slots, u, m), e)
        BY <2>0, <4>1, <4>2, <4>3, <4>4, ContentsAppend
      <4> QED
        BY <4>5 DEF u, m
    <3>6. Queue' = Append(Tail(Queue), e)
      BY <3>1, <3>2, <3>3, <3>5 DEF Queue, Pushed
    <3> QED
      BY <1>2, <2>0, <2>2, <3>1, <3>6 DEF Fifo!Write, Queue
  <2> QED
    BY <1>1, <2>1, <2>2
<1>4. CASE Pop
  <2>1. /\ count' = count - 1 /\ tail' = Succ(tail)
        /\ popped' = <<slots[tail]>>
        /\ UNCHANGED <<slots, overflows, saved>>
    BY <1>4 DEF Pop
  <2>2. count \in 1..Capacity
    BY <1>1, <1>4 DEF Pop
  <2>3. /\ Queue # <<>> /\ Head(Queue) = slots[tail]
        /\ Contents(slots, Succ(tail), count - 1) = Tail(Queue)
    BY <1>1, <2>2, ContentsTail DEF Queue
  <2>4. Queue' = Tail(Queue)
    BY <2>1, <2>3 DEF Queue
  <2>5. Fifo!Pop
    BY <2>1, <2>3, <2>4 DEF Fifo!Pop, Queue
  <2> QED
    BY <2>5 DEF Fifo!Next
<1>5. CASE Save
  <2>1. /\ saved'.slots = slots /\ saved'.tail = tail
        /\ saved'.count = count /\ saved'.overflows = overflows
        /\ UNCHANGED <<slots, tail, count, overflows, popped>>
    BY <1>5 DEF Save
  <2>2. Fifo!Save
    BY <2>1 DEF Fifo!Save
  <2> QED
    BY <2>2 DEF Fifo!Next
<1>6. CASE Load
  <2>1. Fifo!Load
    BY <1>6 DEF Load, Fifo!Load
  <2> QED
    BY <2>1 DEF Fifo!Next
<1>7. CASE Reset
  <2>1. Contents(slots', tail', count') = <<>>
    BY <1>7, ContentsEmpty DEF Reset
  <2>2. Fifo!Reset
    BY <1>7, <2>1 DEF Reset, Fifo!Reset
  <2> QED
    BY <2>2 DEF Fifo!Next
<1>8. CASE UNCHANGED vars
  BY <1>8 DEF vars, Fifo!vars
<1> QED
  BY <1>3, <1>4, <1>5, <1>6, <1>7, <1>8 DEF Next, Fifo!Next

\* The ring implements the bounded first-in first-out queue.
THEOREM RingImplementsFifo == Spec => ImplementsFifo
BY InvInit, InvStep, RefineInit, RefineStep, PTL
   DEF Spec, ImplementsFifo, Fifo!Spec

(***************************************************************************)
(* The bus drives the ring.                                                *)
(***************************************************************************)
LEMMA WroteQueue ==
  ASSUME NEW b, Wrote(b) PROVE [Next]_vars
<1>1. CASE Sent(b) = {}
  BY <1>1 DEF Wrote, Deliver
<1>2. CASE Sent(b) # {}
  <2>1. PICK e \in Sent(b) : Write(e)
    BY <1>2 DEF Wrote, Deliver
  <2>2. e \in Events
    BY <2>1 DEF Sent
  <2> QED
    BY <2>1, <2>2 DEF Next
<1> QED
  BY <1>1, <1>2

LEMMA GotQueue ==
  ASSUME NEW b, NEW bytes, Got(b, bytes) PROVE UNCHANGED vars
BY DEF Got

LEMMA WordQueue ==
  ASSUME NEW addr
  PROVE  /\ ReadWord(addr) => [Next]_vars
         /\ \A word : WriteWord(addr, word) => [Next]_vars
BY GotQueue, WroteQueue DEF ReadWord, WriteWord

\* No access of a program, and nothing the host does, touches the ring other
\* than by ng_neogeo_queue_sound_command, a pop, a save, a load or a reset.
LEMMA StepQueue ==
  ASSUME [BusNext]_allVars PROVE [Next]_vars
<1>1. CASE UNCHANGED allVars
  BY <1>1 DEF allVars
<1>2. ASSUME NEW addr \in program.ports, Read8(addr) PROVE [Next]_vars
  BY <1>2, GotQueue DEF Read8, ReadByte
<1>3. ASSUME NEW addr \in program.ports, Read16(addr) \/ Read32(addr)
      PROVE  [Next]_vars
  BY <1>3, WordQueue DEF Read16, Read32
<1>4. ASSUME NEW addr \in program.ports, NEW v \in Bytes, Write8(addr, v)
      PROVE  [Next]_vars
  BY <1>4, WroteQueue DEF Write8, WriteByte
<1>5. ASSUME NEW addr \in program.ports, NEW word \in Bytes \X Bytes,
             NEW lower \in Bytes \X Bytes,
             Write16(addr, word) \/ Write32(addr, word, lower)
      PROVE  [Next]_vars
  BY <1>5, WordQueue DEF Write16, Write32
<1>6. ASSUME LowerHalf PROVE [Next]_vars
  BY <1>6, WordQueue DEF LowerHalf
<1>7. ASSUME PopEvent \/ ResetRuntime \/ SaveState \/ LoadState PROVE [Next]_vars
  BY <1>7 DEF PopEvent, ResetRuntime, SaveState, LoadState, Next
<1>8. ASSUME TakeReset PROVE [Next]_vars
  BY <1>8 DEF TakeReset
<1> QED
  BY <1>1, <1>2, <1>3, <1>4, <1>5, <1>6, <1>7, <1>8 DEF BusNext

\* The bus drives the ring as SoundQueue says.
THEOREM BusDrivesQueue == BusSpec => Spec
<1>1. BusInit => Init
  BY DEF BusInit
<1>2. [BusNext]_allVars => [Next]_vars
  BY StepQueue
<1> QED
  BY <1>1, <1>2, PTL DEF BusSpec, Spec

\* Head, tail and count of the ring agree through all accesses, saves, loads
\* and resets of the bus.
THEOREM BusRing == BusSpec => []RingConsistent
BY BusDrivesQueue, RingCorrect, PTL

\* The commands a program writes come out in order, each once, the oldest
\* making room.
THEOREM BusFifo == BusSpec => ImplementsFifo
BY BusDrivesQueue, RingImplementsFifo, PTL
=============================================================================

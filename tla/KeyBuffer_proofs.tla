-------------------------- MODULE KeyBuffer_proofs --------------------------
(***************************************************************************)
(* The key buffer keeps its invariants and implements the queue of Fifo,   *)
(* for every number of slots and every set of keys.                        *)
(***************************************************************************)
EXTENDS KeyBuffer, SequenceTheorems, TLAPS

IInv == TypeOK /\ PopOwnsSlot /\ WaitingAreKeys

\* The indices of the waiting keys: how many there are, where each is.
LEMMA CountFact ==
    ASSUME TypeOK
    PROVE  /\ Count \in 0 .. (MaxKeys - 1)
           /\ Count = 0 <=> head = tail
           /\ After(head) = tail <=> Count = MaxKeys - 1
           /\ After(head) \in Slot /\ After(tail) \in Slot
           /\ SlotOf(1) = tail
           /\ \A j \in 1 .. Count : SlotOf(j) \in Slot /\ SlotOf(j) # head
           /\ Count < MaxKeys - 1 => SlotOf(Count + 1) = head
  BY KeyBufferAssumption DEF TypeOK, Count, SlotOf, After, Slot

\* A push leaves the waiting slots alone and adds one at the end.
LEMMA PushFact ==
    ASSUME TypeOK, NEW k \in Keys, Push(k)
    PROVE  /\ Count' = Count + 1
           /\ \A j \in 1 .. Count : buffer'[SlotOf(j)'] = buffer[SlotOf(j)]
           /\ \A j : j = Count + 1 => buffer'[SlotOf(j)'] = k
<1> USE KeyBufferAssumption
<1>1. /\ Count < MaxKeys - 1 /\ Count \in Nat
      /\ SlotOf(Count + 1) = head /\ head \in Slot
      /\ \A j \in 1 .. Count : SlotOf(j) \in Slot /\ SlotOf(j) # head
  BY CountFact DEF Push, TypeOK
<1>2. Count' = Count + 1
  BY DEF TypeOK, Push, Count, After, Slot
<1>3. \A j : SlotOf(j)' = SlotOf(j)
  BY DEF Push, SlotOf
<1>4. buffer' = [buffer EXCEPT ![head] = k] /\ buffer \in [Slot -> Keys \cup {NoKey}]
  BY DEF Push, TypeOK
<1>5. \A j : j = Count + 1 => SlotOf(j)' = head
  BY <1>1, <1>3
<1>6. QED BY <1>1, <1>2, <1>3, <1>4, <1>5

\* The advance of tail drops the oldest slot and shifts the others.
LEMMA AdvanceFact ==
    ASSUME TypeOK, PopOwnsSlot, PopAdvance
    PROVE  /\ Count' = Count - 1 /\ Count >= 1
           /\ \A j \in 1 .. Count' : SlotOf(j)' = SlotOf(j + 1)
  BY KeyBufferAssumption DEF TypeOK, PopOwnsSlot, PopAdvance, Count, SlotOf, After, Slot

LEMMA InitIInv == Init => IInv
  BY KeyBufferAssumption
  DEF Init, IInv, TypeOK, PopOwnsSlot, WaitingAreKeys, Count, SlotOf, Slot

LEMMA NextIInv == IInv /\ [Next]_vars => IInv'
<1> SUFFICES ASSUME IInv, [Next]_vars PROVE IInv'
  OBVIOUS
<1> USE KeyBufferAssumption
<1> USE DEF IInv
<1>1. ASSUME NEW k \in Keys, Push(k) PROVE IInv'
  <2>1. TypeOK'
    BY <1>1, CountFact DEF TypeOK, Push, Slot
  <2>2. PopOwnsSlot'
    BY <1>1, CountFact DEF PopOwnsSlot, TypeOK, Push, After, Slot
  <2>3. WaitingAreKeys'
    <3>1. Count \in Nat /\ Count' = Count + 1
      BY <1>1, CountFact, PushFact
    <3>2. ASSUME NEW j \in 1 .. Count' PROVE buffer'[SlotOf(j)'] \in Keys
      <4>1. CASE j = Count'
        BY <1>1, <4>1, PushFact
      <4>2. CASE j \in 1 .. Count
        BY <1>1, <4>2, PushFact DEF WaitingAreKeys
      <4>3. QED BY <3>1, <4>1, <4>2
    <3>3. QED BY <3>2 DEF WaitingAreKeys
  <2>4. QED BY <2>1, <2>2, <2>3
<1>2. CASE UNCHANGED vars
  BY <1>2 DEF vars, TypeOK, PopOwnsSlot, WaitingAreKeys, Count, SlotOf
<1>3. CASE Getch
  BY <1>3 DEF Getch, TypeOK, PopOwnsSlot, WaitingAreKeys, Count, SlotOf
<1>4. CASE PopTest
  <2>1. buffer[tail] \in Keys
    BY <1>4, CountFact DEF PopTest, WaitingAreKeys
  <2>2. QED
    BY <1>4, <2>1, CountFact
    DEF PopTest, TypeOK, PopOwnsSlot, WaitingAreKeys, Count, SlotOf
<1>5. CASE PopCopy
  BY <1>5 DEF PopCopy, TypeOK, PopOwnsSlot, WaitingAreKeys, Count, SlotOf
<1>6. CASE PopAdvance
  <2>1. TypeOK' /\ PopOwnsSlot'
    BY <1>6 DEF PopAdvance, TypeOK, PopOwnsSlot
  <2>2. WaitingAreKeys'
    BY <1>6, AdvanceFact, CountFact DEF WaitingAreKeys, PopAdvance
  <2>3. QED BY <2>1, <2>2
<1>7. CASE Deliver
  BY <1>7 DEF Deliver, TypeOK, PopOwnsSlot, WaitingAreKeys, Count, SlotOf
<1>8. QED
  BY <1>1, <1>2, <1>3, <1>4, <1>5, <1>6, <1>7
  DEF Next, GetchStep, PushFull, PopEmpty

\* keyboard.c:220-266: the invariant of the buffer.
THEOREM KeyBufferInvariant == Spec => []IInv
<1>1. QED BY InitIInv, NextIInv, PTL DEF Spec

\* The indices stay in the ring.
THEOREM KeyBufferTypeCorrect == Spec => []TypeOK
<1>1. IInv => TypeOK
  BY DEF IInv
<1>2. QED BY <1>1, KeyBufferInvariant, PTL

\* Between its test and its last access, circ_buf_pop works on a slot that no
\* keyboard interrupt can overwrite.
THEOREM PopOwnsItsSlot == Spec => []PopOwnsSlot
<1>1. IInv => PopOwnsSlot
  BY DEF IInv
<1>2. QED BY <1>1, KeyBufferInvariant, PTL

\* The value 0 is never in a waiting slot.
THEOREM OnlyKeysWait == Spec => []WaitingAreKeys
<1>1. IInv => WaitingAreKeys
  BY DEF IInv
<1>2. QED BY <1>1, KeyBufferInvariant, PTL

LEMMA InitRefines == Init => Abstract!FifoInit
  BY KeyBufferAssumption
  DEF Init, Abstract!FifoInit, Abstract!NoKey, NoKey, Waiting, Count

\* The refinement mapping yields a sequence of keys, of the expected length.
WaitingOK ==
    /\ Waiting \in Seq(Keys) /\ Len(Waiting) = Count /\ Count \in Nat
    /\ \A j \in 1 .. Count : Waiting[j] = buffer[SlotOf(j)]

LEMMA WaitingFact == IInv => WaitingOK
  BY CountFact DEF IInv, Waiting, WaitingAreKeys, WaitingOK

LEMMA NextRefines ==
    IInv /\ IInv' /\ [Next]_vars => [Abstract!FifoNext]_(Abstract!fifoVars)
<1>0. (IInv => WaitingOK) /\ (IInv' => WaitingOK')
  BY WaitingFact, PTL
<1> SUFFICES ASSUME IInv, IInv', [Next]_vars
             PROVE  [Abstract!FifoNext]_(Abstract!fifoVars)
  OBVIOUS
<1> USE KeyBufferAssumption
<1>1. /\ Waiting \in Seq(Keys) /\ Len(Waiting) = Count /\ Count \in Nat
      /\ \A j \in 1 .. Count : Waiting[j] = buffer[SlotOf(j)]
      /\ Waiting' \in Seq(Keys) /\ Len(Waiting') = Count' /\ Count' \in Nat
      /\ \A j \in 1 .. Count' : Waiting'[j] = buffer'[SlotOf(j)']
  BY <1>0 DEF WaitingOK
<1>2. ASSUME NEW k \in Keys, Push(k) PROVE Abstract!Type(k)
  <2>1. Count \in Nat /\ Count < MaxKeys - 1 /\ Count' = Count + 1
    <3>1. TypeOK
      BY DEF IInv
    <3>2. Count \in 0 .. (MaxKeys - 1) /\ Count # MaxKeys - 1
      BY <1>2, <3>1, CountFact DEF Push
    <3>3. Count' = Count + 1
      BY <1>2, <3>1, PushFact
    <3>4. QED BY <3>2, <3>3
  <2>2. \A j \in 1 .. Count : Waiting'[j] = Waiting[j]
    BY <1>1, <1>2, <2>1, PushFact DEF IInv
  <2>3. Waiting'[Count + 1] = k
    BY <1>1, <1>2, <2>1, PushFact DEF IInv
  <2>4. Waiting' = Append(Waiting, k)
    <3> DEFINE A == Append(Waiting, k)
    <3>1. /\ A \in Seq(Keys) /\ Len(A) = Count + 1
          /\ \A j \in 1 .. Count : A[j] = Waiting[j]
          /\ A[Count + 1] = k
      BY <1>1, AppendProperties
    <3>2. \A j \in 1 .. Len(A) : Waiting'[j] = A[j]
      BY <2>1, <2>2, <2>3, <3>1
    <3> HIDE DEF A
    <3>3. Waiting' = A
      BY <1>1, <2>1, <3>1, <3>2, SeqEqual
    <3>4. QED BY <3>3 DEF A
  <2>5. QED
    BY <1>1, <1>2, <2>1, <2>4 DEF Abstract!Type, Push
<1>3. CASE PopAdvance
  <2>1. Count >= 1 /\ Count \in Nat /\ Count' = Count - 1
    BY <1>3, AdvanceFact, CountFact DEF IInv
  <2>2. \A j \in 1 .. Count' : Waiting'[j] = Waiting[j + 1]
    BY <1>1, <1>3, <2>1, AdvanceFact DEF IInv, PopAdvance
  <2>3. Waiting # <<>>
    BY <1>1, <2>1
  <2>4. Waiting' = Tail(Waiting)
    <3> DEFINE T == Tail(Waiting)
    <3>1. /\ T \in Seq(Keys) /\ Len(T) = Count - 1
          /\ \A j \in 1 .. Len(T) : T[j] = Waiting[j + 1]
      BY <1>1, <2>3, HeadTailProperties
    <3> HIDE DEF T
    <3>2. \A j \in 1 .. Len(T) : Waiting'[j] = T[j]
      BY <2>1, <2>2, <3>1
    <3>3. Waiting' = T
      BY <1>1, <2>1, <3>1, <3>2, SeqEqual
    <3>4. QED BY <3>3 DEF T
  <2>5. Head(Waiting) = c /\ c \in Keys
    <3>1. Head(Waiting) = Waiting[1]
      BY <1>1, <2>3
    <3>2. Waiting[1] = buffer[tail]
      BY <1>1, <2>1, CountFact DEF IInv
    <3>3. QED BY <1>3, <3>1, <3>2 DEF PopAdvance, PopOwnsSlot, IInv
  <2>6. QED
    BY <1>3, <2>3, <2>4, <2>5
    DEF Abstract!FifoNext, Abstract!Read, Abstract!NoKey, NoKey, PopAdvance
<1>4. CASE Deliver
  <2>1. UNCHANGED Waiting
    BY <1>4 DEF Deliver, Waiting, Count, SlotOf
  <2>2. QED
    BY <1>4, <2>1
    DEF Deliver, PopOwnsSlot, IInv, Abstract!FifoNext, Abstract!PassOn, Abstract!NoKey, NoKey
<1>5. CASE Getch \/ PopTest \/ PopCopy \/ UNCHANGED vars
  <2>1. UNCHANGED <<buffer, head, tail>>
    BY <1>5 DEF Getch, PopTest, PopCopy, vars
  <2>2. UNCHANGED Waiting
    BY <2>1 DEF Waiting, Count, SlotOf
  <2>3. QED
    BY <1>5, <2>2 DEF Getch, PopTest, PopCopy, vars, Abstract!fifoVars
<1>6. QED
  BY <1>2, <1>3, <1>4, <1>5
  DEF Next, GetchStep, PushFull, PopEmpty, Abstract!FifoNext

\* The lock free buffer implements the queue: every key typed while fewer than
\* MAX_KEYS - 1 wait reaches the program once, in order.
THEOREM KeyBufferRefines == Spec => ImplementsFifo
<1>1. QED
  BY InitRefines, NextRefines, KeyBufferInvariant, PTL
  DEF Spec, ImplementsFifo, Abstract!FifoSpec
=============================================================================

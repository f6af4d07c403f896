------------------------------ MODULE KeyBuffer ------------------------------
(***************************************************************************)
(* The circular key buffer of kernel/drivers/keyboard.c.  The keyboard     *)
(* interrupt handler pushes; sys_getch_new (kernel/syscalls.c) pops, with  *)
(* interrupts on, in a busy loop.  There is no lock: that the two may      *)
(* share the buffer rests on the order of the accesses in circ_buf_pop and *)
(* on the slot the full test leaves unused.                                *)
(*                                                                         *)
(* A push runs in the handler, with the interrupt flag clear, hence in one *)
(* step.  A pop takes one step for each access of what it shares with the  *)
(* handler: the test reads head, the copy reads the slot, and the advance  *)
(* writes tail (only pop writes tail, so reading it is not an event).      *)
(***************************************************************************)
EXTENDS Naturals, Sequences

CONSTANTS Keys,    \* characters of the keys the handler knows; never 0
          MaxKeys  \* MAX_KEYS, the number of slots

NoKey == 0

ASSUME KeyBufferAssumption ==
    /\ Keys \subseteq Nat \ {NoKey}
    /\ MaxKeys \in Nat /\ MaxKeys >= 2

VARIABLES buffer, head, tail,  \* cbuf
          pc,    \* where the main thread is: the user program, or a step of pop
          c,     \* sys_getch_new's variable of that name
          next   \* circ_buf_pop's variable of that name

vars == <<buffer, head, tail, pc, c, next>>

Slot == 0 .. (MaxKeys - 1)

\* Mutant: wraps one slot late.
AfterLate(x) == IF x + 1 > MaxKeys THEN 0 ELSE x + 1

\* `next = x + 1; if (next >= maxlen) next = 0;`
After(x) == IF x + 1 >= MaxKeys THEN 0 ELSE x + 1

Init ==
    /\ buffer = [s \in Slot |-> NoKey]
    /\ head = 0 /\ tail = 0
    /\ pc = "user" /\ c = NoKey /\ next = 0
-----------------------------------------------------------------------------
\* Mutant: no test for a full buffer.
PushUntested(k) ==
    /\ buffer' = [buffer EXCEPT ![head] = k]
    /\ head' = After(head)
    /\ UNCHANGED <<tail, pc, c, next>>

\* keyboard_handler for a pressed key it knows, circ_buf_push included.  It
\* ignores circ_buf_push's answer: a key that does not fit is gone.
Push(k) ==
    /\ After(head) # tail
    /\ buffer' = [buffer EXCEPT ![head] = k]
    /\ head' = After(head)
    /\ UNCHANGED <<tail, pc, c, next>>

PushFull(k) ==
    /\ After(head) = tail
    /\ UNCHANGED vars

\* sys_getch_new up to its loop.
Getch ==
    /\ pc = "user"
    /\ pc' = "test" /\ c' = NoKey
    /\ UNCHANGED <<buffer, head, tail, next>>

\* circ_buf_pop finds nothing, and the loop calls it again.
PopEmpty ==
    /\ pc = "test" /\ head = tail
    /\ UNCHANGED vars

PopTest ==
    /\ pc = "test" /\ head # tail
    /\ pc' = "copy" /\ next' = After(tail)
    /\ UNCHANGED <<buffer, head, tail, c>>

\* Mutant: copies the slot after the one it frees.
PopCopyNext ==
    /\ pc = "copy"
    /\ pc' = "advance" /\ c' = buffer[next]
    /\ UNCHANGED <<buffer, head, tail, next>>

PopCopy ==
    /\ pc = "copy"
    /\ pc' = "advance" /\ c' = buffer[tail]
    /\ UNCHANGED <<buffer, head, tail, next>>

\* Mutant: the loop's condition is inverted.
PopAdvanceAgain ==
    /\ pc = "advance"
    /\ tail' = next
    /\ pc' = IF c # NoKey THEN "test" ELSE "deliver"
    /\ UNCHANGED <<buffer, head, c, next>>

\* The slot is free again, and the loop's condition is tested.
PopAdvance ==
    /\ pc = "advance"
    /\ tail' = next
    /\ pc' = IF c = NoKey THEN "test" ELSE "deliver"
    /\ UNCHANGED <<buffer, head, c, next>>

\* userland_memcpy to the user's variable, and the return to the program.
Deliver ==
    /\ pc = "deliver"
    /\ pc' = "user" /\ c' = NoKey
    /\ UNCHANGED <<buffer, head, tail, next>>

GetchStep == PopEmpty \/ PopTest \/ PopCopy \/ PopAdvance \/ Deliver

Next ==
    \/ \E k \in Keys : Push(k) \/ PushFull(k)
    \/ Getch
    \/ GetchStep

\* The CPU goes on executing sys_getch_new between interrupts.
Fairness == WF_vars(GetchStep)

Spec == Init /\ [][Next]_vars /\ Fairness
-----------------------------------------------------------------------------
\* Number of keys waiting, and the keys from the oldest on.
Count == IF tail <= head THEN head - tail ELSE head + MaxKeys - tail

SlotOf(j) == IF tail + j - 1 >= MaxKeys THEN tail + j - 1 - MaxKeys ELSE tail + j - 1

Waiting == [j \in 1 .. Count |-> buffer[SlotOf(j)]]

\* A key leaves the queue when pop advances tail, not when it copies the slot:
\* until then its slot still counts against the capacity.
Abstract == INSTANCE Fifo WITH
    Capacity <- MaxKeys - 1,
    queue    <- Waiting,
    hand     <- IF pc = "deliver" THEN c ELSE NoKey

TypeOK ==
    /\ buffer \in [Slot -> Keys \cup {NoKey}]
    /\ head \in Slot /\ tail \in Slot /\ next \in Slot
    /\ pc \in {"user", "test", "copy", "advance", "deliver"}
    /\ c \in Keys \cup {NoKey}

\* Between its test and its last access a pop works on a slot that no push can
\* reach: the slot stays the oldest one waiting, and c is still what it holds.
PopOwnsSlot ==
    /\ pc \in {"copy", "advance"} =>
        /\ head # tail /\ next = After(tail) /\ buffer[tail] \in Keys
    /\ pc = "advance" => c = buffer[tail]
    /\ pc = "deliver" => c \in Keys

\* Every waiting slot holds a key, never the 0 that sys_getch_new would take
\* for an empty buffer and lose.
WaitingAreKeys == \A j \in 1 .. Count : buffer[SlotOf(j)] \in Keys

\* The lock free buffer implements the queue of capacity MAX_KEYS - 1.
ImplementsFifo == Abstract!FifoSpec

\* sys_getch_new returns a key once one waits, however many more are typed.
GetchReturns == (pc = "test" /\ head # tail) ~> (pc = "user")
=============================================================================

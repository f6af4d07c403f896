-------------------------------- MODULE Fifo --------------------------------
(***************************************************************************)
(* What the keyboard buffer promises: keys reach the user program once     *)
(* each, in the order they were typed.  A key typed while Capacity keys    *)
(* wait is lost; no other key ever is.                                     *)
(***************************************************************************)
EXTENDS Naturals, Sequences

CONSTANTS Keys,     \* characters keyboard_to_ascii returns for a known key
          Capacity  \* keys the buffer holds

\* The handler drops a key whose character is 0, and sys_getch_new takes 0 to
\* mean that it has no key yet.
NoKey == 0

VARIABLES queue,  \* keys typed and not read
          hand    \* the key sys_getch_new has read and not yet passed on

fifoVars == <<queue, hand>>

FifoInit == queue = <<>> /\ hand = NoKey

Type(k) ==
    /\ Len(queue) < Capacity
    /\ queue' = Append(queue, k)
    /\ UNCHANGED hand

Read ==
    /\ hand = NoKey /\ queue # <<>>
    /\ hand' = Head(queue) /\ queue' = Tail(queue)

PassOn ==
    /\ hand # NoKey
    /\ hand' = NoKey
    /\ UNCHANGED queue

FifoNext == (\E k \in Keys : Type(k)) \/ Read \/ PassOn

FifoSpec == FifoInit /\ [][FifoNext]_fifoVars
=============================================================================

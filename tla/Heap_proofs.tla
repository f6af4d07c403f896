---------------------------- MODULE Heap_proofs ----------------------------
(***************************************************************************)
(* The safety of the kernel heap for every heap, every set of request      *)
(* sizes and every interleaving of malloc with interrupt handlers.         *)
(***************************************************************************)
EXTENDS Heap, TLAPS

\* The sum of the test and of line 65 is exact unless it wraps around.
LEMMA PlusFact ==
    ASSUME NEW a \in 0 .. (2 * HeapEnd), NEW n \in 0 .. (AddrSpace - 1)
    PROVE  /\ Plus(a, n) \in Nat
           /\ a + n < AddrSpace => Plus(a, n) = a + n
           /\ a + n >= AddrSpace => n >= AddrSpace - 2 * HeapEnd
  BY HeapAssumption DEF Plus

\* A handler that gets a buffer gets it inside the heap, and the break rises.
LEMMA IrqFact ==
    ASSUME TypeOK, NEW n \in IrqSizes, Fits(n)
    PROVE  /\ Plus(cur, n) = cur + n
           /\ n \in Nat \ {0}
           /\ cur + n < HeapEnd
  BY HeapAssumption DEF Plus, Fits, TypeOK

LEMMA InitIInv == Init => IInv
  BY HeapAssumption
  DEF Init, IInv, TypeOK, BlocksBelowBreak, LoopInHeap, MaskedExact,
      OwnedDisjoint, DataIntact, MaskedZeroed, FaultNeedsRace, Addr, Byte

LEMMA NextIInv == IInv /\ [Next]_vars => IInv'
<1> SUFFICES ASSUME IInv, [Next]_vars PROVE IInv'
  OBVIOUS
<1> USE HeapAssumption
<1>1. CASE EnableInterrupts
  BY <1>1 DEF EnableInterrupts, locals, IInv, TypeOK, BlocksBelowBreak, LoopInHeap,
     MaskedExact, OwnedDisjoint, DataIntact, MaskedZeroed, FaultNeedsRace, Block
<1>2. CASE EnterUserland
  BY <1>2 DEF EnterUserland, locals, IInv, TypeOK, BlocksBelowBreak, LoopInHeap,
     MaskedExact, OwnedDisjoint, DataIntact, MaskedZeroed, FaultNeedsRace, Block
<1>3. ASSUME NEW n \in MainSizes, Call(n) PROVE IInv'
  BY <1>3 DEF Call, IInv, TypeOK, BlocksBelowBreak, LoopInHeap,
     MaskedExact, OwnedDisjoint, DataIntact, MaskedZeroed, FaultNeedsRace, Block
<1>4. CASE ReturnNull
  BY <1>4 DEF ReturnNull, IInv, TypeOK, BlocksBelowBreak, LoopInHeap,
     MaskedExact, OwnedDisjoint, DataIntact, MaskedZeroed, FaultNeedsRace, Block
<1>5. CASE CheckPasses
  BY <1>5 DEF CheckPasses, locals, IInv, TypeOK, BlocksBelowBreak, LoopInHeap, Fits, Plus,
     MaskedExact, OwnedDisjoint, DataIntact, MaskedZeroed, FaultNeedsRace, Block
<1>6. CASE Take
  BY <1>6 DEF Take, IInv, TypeOK, BlocksBelowBreak, LoopInHeap, Fits, Plus,
     MaskedExact, OwnedDisjoint, DataIntact, MaskedZeroed, FaultNeedsRace, Block
<1>7. CASE ZeroByte
  <2> USE <1>7 DEF ZeroByte
  <2>1. TypeOK'
    BY DEF IInv, TypeOK, Byte, Addr, BlocksBelowBreak
  <2>2. BlocksBelowBreak' /\ LoopInHeap'
    BY DEF IInv, TypeOK, BlocksBelowBreak, LoopInHeap
  <2>3. MaskedExact'
    BY DEF IInv, TypeOK, MaskedExact, BlocksBelowBreak, LoopInHeap, Fits, Plus, Addr
  <2>4. OwnedDisjoint' /\ MaskedZeroed' /\ FaultNeedsRace'
    BY DEF IInv, OwnedDisjoint, MaskedZeroed, FaultNeedsRace
  <2>5. DataIntact'
    BY DEF IInv, TypeOK, DataIntact, BlocksBelowBreak, LoopInHeap, Block, Addr
  <2>6. QED BY <2>1, <2>2, <2>3, <2>4, <2>5 DEF IInv
<1>8. CASE PageFault
  <2>1. FaultNeedsRace'
    BY <1>8, PlusFact DEF PageFault, locals, IInv, TypeOK, MaskedExact, FaultNeedsRace,
       Fits, Plus
  <2>2. QED
    BY <1>8, <2>1 DEF PageFault, locals, IInv, TypeOK, BlocksBelowBreak, LoopInHeap,
       MaskedExact, OwnedDisjoint, DataIntact, MaskedZeroed
<1>9. CASE LoadSum
  <2> USE <1>9 DEF LoadSum
  <2>1. ptr + size <= HeapEnd /\ cur < HeapEnd /\ i = size
    BY DEF IInv, TypeOK, LoopInHeap, BlocksBelowBreak
  <2>2. Plus(cur, size) = cur + size
    BY <2>1 DEF IInv, TypeOK, Plus, BlocksBelowBreak
  <2>3. TypeOK' /\ BlocksBelowBreak' /\ LoopInHeap'
    BY <2>1, <2>2 DEF IInv, TypeOK, BlocksBelowBreak, LoopInHeap
  <2>4. MaskedExact'
    BY <2>1, <2>2 DEF IInv, TypeOK, MaskedExact, Fits, Plus
  <2>5. QED
    BY <2>3, <2>4 DEF IInv, OwnedDisjoint, DataIntact, MaskedZeroed, FaultNeedsRace, Block
<1>10. CASE StoreSum
  <2> USE <1>10 DEF StoreSum, locals
  <2>1. TypeOK' /\ BlocksBelowBreak' /\ LoopInHeap'
    BY DEF IInv, TypeOK, BlocksBelowBreak, LoopInHeap
  <2>2. MaskedZeroed'
    BY DEF IInv, TypeOK, MaskedExact, MaskedZeroed, LoopInHeap, Fits, Plus
  <2>3. QED
    BY <2>1, <2>2 DEF IInv, MaskedExact, OwnedDisjoint, DataIntact, FaultNeedsRace, Block
<1>11. CASE Return
  <2> USE <1>11 DEF Return
  <2> DEFINE b == [lo |-> ptr, hi |-> ptr + size]
  <2>1. /\ ptr \in HeapStart .. HeapEnd /\ ptr + size \in HeapStart .. HeapEnd
        /\ b.lo = ptr /\ b.hi = ptr + size /\ ptr <= ptr + size /\ ptr + size <= cur
    BY DEF IInv, TypeOK, BlocksBelowBreak, LoopInHeap
  <2>2. TypeOK'
    BY <2>1 DEF IInv, TypeOK, Byte
  <2>3. BlocksBelowBreak' /\ LoopInHeap'
    BY <2>1 DEF IInv, TypeOK, BlocksBelowBreak, LoopInHeap
  <2>4. OwnedDisjoint'
    <3>1. \A c \in owned : Block(c) \cap Block(b) = {}
      BY <2>1 DEF IInv, TypeOK, BlocksBelowBreak, Block
    <3>2. QED BY <3>1 DEF IInv, OwnedDisjoint, Block
  <2>5. DataIntact'
    <3>1. \A c \in owned \cup {b} : Block(c) \subseteq Addr
      BY <2>1 DEF IInv, TypeOK, Block, Addr
    <3>2. QED BY <3>1 DEF IInv, DataIntact, Block
  <2>6. QED
    BY <2>2, <2>3, <2>4, <2>5 DEF IInv, MaskedExact, MaskedZeroed, FaultNeedsRace
<1>12. ASSUME NEW n \in IrqSizes, IrqPrint(n) PROVE IInv'
  <2> USE <1>12 DEF IrqPrint
  <2>1. /\ Plus(cur, n) = cur + n /\ n \in Nat \ {0} /\ cur + n < HeapEnd
    BY <1>12, IrqFact DEF IInv
  <2>2. TypeOK'
    BY <2>1 DEF IInv, TypeOK, Byte, locals
  <2>3. BlocksBelowBreak' /\ LoopInHeap'
    BY <2>1 DEF IInv, TypeOK, BlocksBelowBreak, LoopInHeap, locals
  <2>4. MaskedExact' /\ MaskedZeroed' /\ FaultNeedsRace'
    BY <2>1 DEF IInv, MaskedExact, MaskedZeroed, FaultNeedsRace, IrqEnabled, locals
  <2>5. OwnedDisjoint'
    BY DEF IInv, OwnedDisjoint, Block
  <2>6. DataIntact'
    BY <2>1 DEF IInv, TypeOK, DataIntact, BlocksBelowBreak, Block, Addr
  <2>7. QED BY <2>2, <2>3, <2>4, <2>5, <2>6 DEF IInv
<1>13. CASE UNCHANGED vars
  BY <1>13 DEF vars, locals, IInv, TypeOK, BlocksBelowBreak, LoopInHeap, Fits, Plus,
     MaskedExact, OwnedDisjoint, DataIntact, MaskedZeroed, FaultNeedsRace, Block
<1>14. QED
  BY <1>1, <1>2, <1>3, <1>4, <1>5, <1>6, <1>7, <1>8, <1>9, <1>10, <1>11, <1>12, <1>13
  DEF Next, Malloc

\* malloc (heap.c:53-68): the strengthened invariant holds in every state.
THEOREM HeapInvariant == Spec => []IInv
<1>1. QED BY InitIInv, NextIInv, PTL DEF Spec

\* Every variable of the heap keeps to its range: the break never leaves
\* HeapStart .. 2 * HeapEnd, so that line 65 never wraps around.
THEOREM HeapTypeCorrect == Spec => []TypeOK
<1>1. IInv => TypeOK
  BY DEF IInv
<1>2. QED BY <1>1, HeapInvariant, PTL

\* Blocks malloc returned to the main thread never overlap, whatever the
\* interrupts did to heap_current between its accesses.
THEOREM BlocksNeverOverlap == Spec => []OwnedDisjoint
<1>1. IInv => OwnedDisjoint
  BY DEF IInv
<1>2. QED BY <1>1, HeapInvariant, PTL

\* Data stored in a block is never overwritten by a later malloc or by the
\* kprintf of an interrupt handler.
THEOREM DataNeverLost == Spec => []DataIntact
<1>1. IInv => DataIntact
  BY DEF IInv
<1>2. QED BY <1>1, HeapInvariant, PTL

\* With interrupts off malloc does zero its block, and ends it below heap_end.
THEOREM MaskedMallocZeroes == Spec => []MaskedZeroed
<1>1. IInv => MaskedZeroed
  BY DEF IInv
<1>2. QED BY <1>1, HeapInvariant, PTL

\* malloc runs into the guard page only after losing a race in main(), or for
\* a size that makes the out of memory test wrap around.
THEOREM FaultOnlyByRace == Spec => []FaultNeedsRace
<1>1. IInv => FaultNeedsRace
  BY DEF IInv
<1>2. QED BY <1>1, HeapInvariant, PTL

\* Once the user program runs (and before sti) the break only ever rises.
THEOREM BreakGrows == Spec => BreakGrowsMasked
<1>1. IInv /\ [Next]_vars => [phase # "kernel" => cur' >= cur]_vars
  <2> SUFFICES ASSUME IInv, Next PROVE phase # "kernel" => cur' >= cur
    BY DEF vars
  <2> USE HeapAssumption
  <2>1. CASE StoreSum
    BY <2>1 DEF StoreSum, IInv, TypeOK, MaskedExact
  <2>2. ASSUME NEW n \in IrqSizes, IrqPrint(n) PROVE cur' >= cur
    BY <2>2, IrqFact DEF IrqPrint, IInv, TypeOK
  <2>3. CASE UNCHANGED cur
    BY <2>3 DEF IInv, TypeOK
  <2>4. QED
    BY <2>1, <2>2, <2>3 DEF Next, Malloc, EnableInterrupts, EnterUserland, Call,
       ReturnNull, CheckPasses, Take, ZeroByte, PageFault, LoadSum, Return
<1>2. QED BY <1>1, HeapInvariant, PTL DEF Spec, BreakGrowsMasked
=============================================================================

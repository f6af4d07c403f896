-------------------------------- MODULE Heap --------------------------------
(***************************************************************************)
(* The kernel heap of kernel/heap.c: a bump allocator with one global      *)
(* break, heap_current, and no free.  It is called by the kernel's main    *)
(* thread of control (boot code, ELF loader, system calls) and, through    *)
(* kprintf, by the keyboard and mouse interrupt handlers.                  *)
(*                                                                         *)
(* malloc takes no lock and does not mask interrupts, and the build is not *)
(* optimised, so its accesses of heap_current are separate instructions an *)
(* interrupt can fall between: the check (54), the read of ptr (59), the   *)
(* zeroing loop (61-63), the load and the store of `heap_current += size`  *)
(* (65).  A handler runs with the interrupt flag clear, hence whole.       *)
(***************************************************************************)
EXTENDS Integers

CONSTANTS
    HeapStart, HeapEnd, \* HEAP_START(), HEAP_END(): the heap, and the guard page after it
    AddrSpace,          \* addresses are unsigned, modulo AddrSpace (2^64)
    MainSizes,          \* sizes requested by the main thread of control
    IrqSizes            \* sizes requested by interrupt handlers (256 in kprintf)

ASSUME HeapAssumption ==
    /\ HeapStart \in Nat \ {0} /\ HeapEnd \in Nat /\ AddrSpace \in Nat
    /\ HeapStart < HeapEnd
    /\ 3 * HeapEnd < AddrSpace
    /\ MainSizes \subseteq 0 .. (AddrSpace - 1)
    /\ IrqSizes \subseteq 1 .. HeapEnd

VARIABLES
    phase,   \* "boot": before sti in idt_init; "kernel": main() with IF set;
             \* "user": after enter_userland, malloc is only reached with IF clear
    cur,     \* heap_current
    mem,     \* contents of the heap, byte by byte
    pc,      \* where the main thread is in malloc
    ptr, size, i, reg,  \* malloc's locals; reg holds the sum of line 65
    owned    \* blocks returned to the main thread, which keeps them for ever

vars == <<phase, cur, mem, pc, ptr, size, i, reg, owned>>
locals == <<ptr, size, i, reg>>

Addr == HeapStart .. (HeapEnd - 1)

\* A byte holds what it held at reset, a zero, text of an interrupt handler's
\* kprintf, or data of the main thread.
Byte == {"junk", "zero", "irq", "main"}

Block(b) == b.lo .. (b.hi - 1)

\* heap_current + size, on a 64 bit pointer.
Plus(a, n) == IF a + n >= AddrSpace THEN a + n - AddrSpace ELSE a + n

\* Mutants of the test: none at all; without the size.
FitsAlways(n) == TRUE
FitsWithoutSize(n) == cur < HeapEnd

\* The negation of the out of memory test.
Fits(n) == Plus(cur, n) < HeapEnd

\* Mutant: interrupts stay on in sys_print_new.
IrqInSyscall == pc # "halted" /\ phase # "boot"

\* Interrupts reach the CPU in main() after sti, and while the user program
\* runs or waits in sys_getch; SFMASK keeps them off during the other syscall.
IrqEnabled == pc # "halted" /\ (phase = "kernel" \/ (phase = "user" /\ pc = "idle"))
-----------------------------------------------------------------------------
\* init_heap
Init ==
    /\ phase = "boot" /\ pc = "idle"
    /\ cur = HeapStart
    /\ mem = [a \in Addr |-> "junk"]
    /\ ptr = 0 /\ size = 0 /\ i = 0 /\ reg = 0
    /\ owned = {}

\* The sti of idt_init.
EnableInterrupts ==
    /\ phase = "boot" /\ pc = "idle"
    /\ phase' = "kernel"
    /\ UNCHANGED <<cur, mem, pc, locals, owned>>

\* run_userland ends in enter_userland, which never returns to main().
EnterUserland ==
    /\ phase = "kernel" /\ pc = "idle"
    /\ phase' = "user"
    /\ UNCHANGED <<cur, mem, pc, locals, owned>>

Call(n) ==
    /\ pc = "idle"
    /\ pc' = "check" /\ size' = n
    /\ UNCHANGED <<phase, cur, mem, ptr, i, reg, owned>>

\* The branch that returns NULL; callers keep nothing.
ReturnNull ==
    /\ pc = "check" /\ ~Fits(size)
    /\ pc' = "idle" /\ size' = 0
    /\ UNCHANGED <<phase, cur, mem, ptr, i, reg, owned>>

CheckPasses ==
    /\ pc = "check" /\ Fits(size)
    /\ pc' = "take"
    /\ UNCHANGED <<phase, cur, mem, locals, owned>>

\* ptr = heap_current
Take ==
    /\ pc = "take"
    /\ pc' = "zero" /\ ptr' = cur
    /\ UNCHANGED <<phase, cur, mem, size, i, reg, owned>>

\* One round of the zeroing loop that stays inside the heap.
ZeroByte ==
    /\ pc = "zero" /\ i < size /\ ptr + i < HeapEnd
    /\ mem' = [mem EXCEPT ![ptr + i] = "zero"]
    /\ i' = i + 1
    /\ UNCHANGED <<phase, cur, pc, ptr, size, reg, owned>>

\* The loop writes to the guard page after the heap: isr_page_fault reports
\* and stops the CPU for good with the interrupt flag clear.
PageFault ==
    /\ pc = "zero" /\ i < size /\ ptr + i >= HeapEnd
    /\ pc' = "halted"
    /\ UNCHANGED <<phase, cur, mem, locals, owned>>

\* Mutant: the sum is the address of the block's last byte.
LoadSumLast ==
    /\ pc = "zero" /\ i >= size
    /\ pc' = "store" /\ reg' = IF size > 0 THEN Plus(cur, size - 1) ELSE cur
    /\ UNCHANGED <<phase, cur, mem, ptr, size, i, owned>>

\* First half of `heap_current += size`: the sum, in a register.
LoadSum ==
    /\ pc = "zero" /\ i >= size
    /\ pc' = "store" /\ reg' = Plus(cur, size)
    /\ UNCHANGED <<phase, cur, mem, ptr, size, i, owned>>

\* Mutant: the break does not move.
StoreNothing ==
    /\ pc = "store"
    /\ pc' = "return" /\ cur' = ptr
    /\ UNCHANGED <<phase, mem, locals, owned>>

\* Second half: the register goes to heap_current.
StoreSum ==
    /\ pc = "store"
    /\ pc' = "return" /\ cur' = reg
    /\ UNCHANGED <<phase, mem, locals, owned>>

\* The caller gets the block and fills it; the locals are dead.
Return ==
    /\ pc = "return"
    /\ LET b == [lo |-> ptr, hi |-> ptr + size] IN
        /\ owned' = owned \cup {b}
        /\ mem' = [a \in Addr |-> IF a \in Block(b) THEN "main" ELSE mem[a]]
    /\ pc' = "idle" /\ ptr' = 0 /\ size' = 0 /\ i' = 0 /\ reg' = 0
    /\ UNCHANGED <<phase, cur>>

\* A handler's kprintf: the whole of malloc, then a short text at the front of
\* the zeroed buffer; out of memory, it prints nothing.  The buffer is dead
\* when the handler returns.
IrqPrint(n) ==
    /\ IrqEnabled
    /\ Fits(n)
    /\ mem' = [a \in Addr |-> IF a \in cur .. (cur + n - 1)
                                THEN IF a = cur THEN "irq" ELSE "zero"
                                ELSE mem[a]]
    /\ cur' = Plus(cur, n)
    /\ UNCHANGED <<phase, pc, locals, owned>>

Malloc == ReturnNull \/ CheckPasses \/ Take \/ ZeroByte \/ PageFault
            \/ LoadSum \/ StoreSum \/ Return

Next ==
    \/ EnableInterrupts
    \/ EnterUserland
    \/ \E n \in MainSizes : Call(n)
    \/ Malloc
    \/ \E n \in IrqSizes : IrqPrint(n)

Spec == Init /\ [][Next]_vars
-----------------------------------------------------------------------------
TypeOK ==
    /\ phase \in {"boot", "kernel", "user"}
    /\ pc \in {"idle", "check", "take", "zero", "store", "return", "halted"}
    /\ cur \in HeapStart .. (2 * HeapEnd)
    /\ mem \in [Addr -> Byte]
    /\ ptr \in 0 .. (2 * HeapEnd)
    /\ size \in 0 .. (AddrSpace - 1)
    /\ i \in 0 .. HeapEnd
    /\ reg \in 0 .. (2 * HeapEnd)
    /\ owned \subseteq [lo : HeapStart .. HeapEnd, hi : HeapStart .. HeapEnd]

\* The blocks malloc hands to the main thread never overlap, although an
\* interrupt may move heap_current between any two of its accesses and the
\* store of line 65 may undo that move.
OwnedDisjoint ==
    \A b, c \in owned : b # c => Block(b) \cap Block(c) = {}

\* Data the main thread stored in its blocks is still there: no later malloc
\* zeroes it and no handler's kprintf buffer lands on it.
DataIntact ==
    \A b \in owned : \A a \in Block(b) : mem[a] = "main"

\* While malloc runs with interrupts off (before sti, and in sys_print_new) the
\* block it returns is zeroed to the last byte and ends below heap_end.
MaskedZeroed ==
    pc = "return" /\ phase # "kernel" =>
        /\ ptr + size < HeapEnd
        /\ \A a \in ptr .. (ptr + size - 1) : mem[a] = "zero"

\* The out of memory test keeps the zeroing loop off the guard page, unless an
\* interrupt moved heap_current after the test (main() only) or the sum of the
\* test wrapped around.
FaultNeedsRace ==
    pc = "halted" => phase = "kernel" \/ size >= AddrSpace - 2 * HeapEnd

\* Outside main() the break never moves back: a handler's kprintf and a system
\* call's malloc never lose each other's update of heap_current.
BreakGrowsMasked ==
    [][phase # "kernel" => cur' >= cur]_vars

\* What makes the properties above inductive.  Blocks handed out lie below the
\* break, and below ptr once malloc has read it: the break may be moved up by
\* handlers and back by StoreSum, but never below the end of the block that
\* malloc is about to return.
BlocksBelowBreak ==
    /\ \A b \in owned : b.lo <= b.hi /\ b.hi <= cur
    /\ pc \in {"zero", "store", "return"} =>
        /\ HeapStart <= ptr /\ ptr <= cur
        /\ \A b \in owned : b.hi <= ptr

\* The loop has written i bytes of the heap.  Only a break inside the heap can
\* get past the loop, so that the sum of line 65 does not wrap.
LoopInHeap ==
    /\ pc = "take" /\ size = 0 => cur < HeapEnd
    /\ pc = "zero" =>
        /\ i <= size
        /\ ptr < HeapEnd => cur < HeapEnd
        /\ size = 0 => ptr < HeapEnd
        /\ i > 0 => ptr + i <= HeapEnd
    /\ pc \in {"store", "return"} => ptr + size <= HeapEnd
    /\ pc = "store" => ptr + size <= reg
    /\ pc = "return" => ptr + size <= cur
    /\ pc \in {"idle", "check", "take"} => i = 0

\* With interrupts off nothing happens between two accesses of the break.
MaskedExact ==
    phase # "kernel" =>
        /\ pc = "take" => Fits(size)
        /\ pc \in {"zero", "store"} => ptr = cur /\ Fits(size)
        /\ pc = "zero" => \A a \in ptr .. (ptr + i - 1) : mem[a] = "zero"
        /\ pc = "store" =>
            reg = ptr + size /\ \A a \in ptr .. (ptr + size - 1) : mem[a] = "zero"

\* The inductive invariant.
IInv ==
    /\ TypeOK /\ BlocksBelowBreak /\ LoopInHeap /\ MaskedExact
    /\ OwnedDisjoint /\ DataIntact /\ MaskedZeroed /\ FaultNeedsRace

\* What the comment on malloc's loop says: "Zero out the memory."
ZeroedOnReturn ==
    pc = "return" => \A a \in ptr .. (ptr + size - 1) : mem[a] = "zero"
=============================================================================

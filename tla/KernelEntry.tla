----------------------------- MODULE KernelEntry -----------------------------
(***************************************************************************)
(* Crossing between the user program and the kernel: enter_userland and    *)
(* syscall_landing_pad (kernel/userland.asm), the two system calls         *)
(* (kernel/syscalls.c) and the interrupt stubs (kernel/idt.asm).           *)
(*                                                                         *)
(* One CPU.  What can go wrong is where an interrupt falls: ring 0 runs on *)
(* the user's stack for a few instructions on each side of a system call,  *)
(* sys_getch_new turns interrupts on and off again, and the system calls   *)
(* and the interrupts share one kernel stack, whose top the TSS holds.     *)
(* One step per instruction, or per run of instructions that touches no    *)
(* state an interrupt could see.                                           *)
(***************************************************************************)
EXTENDS Naturals, Sequences

CONSTANTS Rips,       \* places of the user program
          UserStacks, \* values of its stack pointer
          MaxWaiting  \* keys the key buffer holds (MAX_KEYS - 1)

ASSUME EntryAssumption ==
    /\ Rips # {} /\ UserStacks # {}
    /\ "kernel" \notin UserStacks /\ "none" \notin UserStacks
    /\ MaxWaiting \in Nat \ {0}

VARIABLES
    pc,       \* what the CPU executes
    rip,      \* the user program's place: rip in ring 3, rcx on the way in and out
    rsp,      \* the stack rsp points into: "kernel", or a user stack pointer
    if, ac,   \* the flags IF and AC of rflags
    r11,      \* r11: [if, ac] of the caller, on the way in and out
    gs,       \* the active GS base: "user" (0) or "kernel" (the TSS)
    rsp2,     \* tss64.rsp2; "none" before the first system call
    kstack,   \* frames on the kernel stack, the first at STACK_TOP
    waiting,  \* number of keys in cbuf
    ctx       \* history: the user program's own view of its registers

vars == <<pc, rip, rsp, if, ac, r11, gs, rsp2, kstack, waiting, ctx>>
flags == <<if, ac>>
regs == <<rip, r11>>
stacks == <<rsp, rsp2, kstack>>

\* sys_print_new; sys_getch_new, with interrupts on except in "getch" and
\* "getch_off"; the copies of userland_memcpy, between stac and clac.
Printing == {"print", "print_copy", "print_out"}
GetchOn == {"poll", "got", "got_copy", "got_done"}
Getch == GetchOn \cup {"getch", "getch_off"}
Copying == {"print_copy", "got_copy"}
\* syscall_landing_pad, before and after the call.
PadIn == {"pad", "pad_gs", "pad_saved", "pad_rsp"}
PadOut == {"done", "done_pop", "done_rsp", "done_gs"}
EnterUser == {"main", "enter_cli", "enter_rsp"}
Handlers == {"keyboard", "other", "iret"}

Bit == {0, 1}
Flags == [if : Bit, ac : Bit]
Interrupted == EnterUser \cup {"user"} \cup PadIn \cup Printing \cup Getch \cup PadOut

\* What stands on the kernel stack: main()'s frames, the registers pushed by
\* the landing pad, or an interrupt frame with the registers of pushaq.
Frame ==
    [kind : {"main"}]
        \cup [kind : {"sys"}, rip : Rips, r11 : Flags]
        \cup [kind : {"irq"}, pc : Interrupted, rsp : UserStacks \cup {"kernel"}, fl : Flags]

Top == kstack[Len(kstack)]
Pop == SubSeq(kstack, 1, Len(kstack) - 1)
Move(from, to) == pc = from /\ pc' = to

\* main() on its way to enter_userland, interrupts on.
Init ==
    /\ pc = "main"
    /\ rip \in Rips /\ rsp = "kernel"
    /\ if = 1 /\ ac = 0
    /\ r11 = [if |-> 0, ac |-> 0]
    /\ gs = "user" /\ rsp2 = "none"
    /\ kstack = <<[kind |-> "main"]>>
    /\ waiting = 0
    /\ ctx \in [rip : Rips, rsp : UserStacks, ac : {0}]
-----------------------------------------------------------------------------
\* enter_userland: cli, before rsp leaves the kernel stack.
EnterCli ==
    /\ Move("main", "enter_cli")
    /\ if' = 0
    /\ UNCHANGED <<ac, regs, gs, stacks, waiting, ctx>>

\* The program's entry point, flags (0x200202: IF set) and stack.
EnterLoadRegs ==
    /\ Move("enter_cli", "enter_rsp")
    /\ rip' = ctx.rip /\ r11' = [if |-> 1, ac |-> 0] /\ rsp' = ctx.rsp
    /\ UNCHANGED <<flags, gs, rsp2, kstack, waiting, ctx>>

EnterSysret ==
    /\ Move("enter_rsp", "user")
    /\ if' = r11.if /\ ac' = r11.ac
    /\ UNCHANGED <<regs, gs, stacks, waiting, ctx>>

\* The program runs; popf lets it set AC, but not IF.
UserStep ==
    /\ pc = "user"
    /\ \E r \in Rips, s \in UserStacks, b \in Bit :
        /\ rip' = r /\ rsp' = s /\ ac' = b
        /\ ctx' = [rip |-> r, rsp |-> s, ac |-> b]
    /\ UNCHANGED <<pc, if, r11, gs, rsp2, kstack, waiting>>

\* Mutant: a mask without IF.
SfMaskNoIf == {"ac"}

\* The bits that MSR_SFMASK makes the syscall instruction clear.
SfMask == {"if", "ac"}

\* syscall: flags to r11, then masked; rsp is still the program's.
Syscall ==
    /\ Move("user", "pad")
    /\ r11' = [if |-> if, ac |-> ac]
    /\ if' = IF "if" \in SfMask THEN 0 ELSE if
    /\ ac' = IF "ac" \in SfMask THEN 0 ELSE ac
    /\ UNCHANGED <<rip, gs, stacks, waiting, ctx>>

Swapgs == gs' = IF gs = "user" THEN "kernel" ELSE "user"

PadSwapgs ==
    /\ Move("pad", "pad_gs")
    /\ Swapgs
    /\ UNCHANGED <<flags, regs, stacks, waiting, ctx>>

\* mov gs:[rsp2_offset], rsp.  With the wrong GS base the TSS is not reached.
PadSaveRsp ==
    /\ Move("pad_gs", "pad_saved")
    /\ rsp2' = IF gs = "kernel" THEN rsp ELSE rsp2
    /\ UNCHANGED <<flags, regs, gs, rsp, kstack, waiting, ctx>>

\* mov rsp, gs:[rsp0_offset]: the top of the kernel stack, whatever is there.
PadLoadRsp ==
    /\ pc = "pad_saved" /\ pc' = IF gs = "kernel" THEN "pad_rsp" ELSE "crash"
    /\ rsp' = "kernel" /\ kstack' = <<>>
    /\ UNCHANGED <<flags, regs, gs, rsp2, waiting, ctx>>

\* The pushes, and the call through syscall_table.
PadPush ==
    /\ pc = "pad_rsp" /\ pc' \in {"print", "getch"}
    /\ kstack' = Append(kstack, [kind |-> "sys", rip |-> rip, r11 |-> r11])
    /\ UNCHANGED <<flags, regs, gs, rsp, rsp2, waiting, ctx>>
-----------------------------------------------------------------------------
\* userland_memcpy: stac, the copy, clac.
Stac(from, to) ==
    /\ Move(from, to)
    /\ ac' = 1
    /\ UNCHANGED <<if, regs, gs, stacks, waiting, ctx>>

Clac(from, to) ==
    /\ Move(from, to)
    /\ ac' = 0
    /\ UNCHANGED <<if, regs, gs, stacks, waiting, ctx>>

\* sys_print_new: malloc and the copy of the text; then debug_buffer.  The C
\* code is free to change rcx and r11.
PrintCopy == Stac("print", "print_copy") \/ Clac("print_copy", "print_out")

PrintReturn ==
    /\ Move("print_out", "done")
    /\ rip' \in Rips /\ r11' \in Flags
    /\ UNCHANGED <<flags, gs, stacks, waiting, ctx>>

\* Mutant: sys_getch_new without enable_interrupt().
GetchNoSti ==
    /\ Move("getch", "poll")
    /\ UNCHANGED <<flags, regs, gs, stacks, waiting, ctx>>

\* enable_interrupt()
GetchSti ==
    /\ Move("getch", "poll")
    /\ if' = 1
    /\ UNCHANGED <<ac, regs, gs, stacks, waiting, ctx>>

\* The loop around circ_buf_pop: empty, it turns; else it has a key.
GetchPoll ==
    /\ pc = "poll" /\ waiting > 0
    /\ pc' = "got" /\ waiting' = waiting - 1
    /\ UNCHANGED <<flags, regs, gs, stacks, ctx>>

GetchCopy == Stac("got", "got_copy") \/ Clac("got_copy", "got_done")

\* disable_interrupt()
GetchCli ==
    /\ Move("got_done", "getch_off")
    /\ if' = 0
    /\ UNCHANGED <<ac, regs, gs, stacks, waiting, ctx>>

GetchReturn ==
    /\ Move("getch_off", "done")
    /\ rip' \in Rips /\ r11' \in Flags
    /\ UNCHANGED <<flags, gs, stacks, waiting, ctx>>
-----------------------------------------------------------------------------
\* The pops: whatever the top of the stack holds goes to rcx and r11.
DonePop ==
    /\ Move("done", "done_pop")
    /\ rip' = Top.rip /\ r11' = Top.r11 /\ kstack' = Pop
    /\ UNCHANGED <<flags, gs, rsp, rsp2, waiting, ctx>>

\* mov rsp, gs:[rsp2_offset]
DoneLoadRsp ==
    /\ pc = "done_pop" /\ pc' = IF gs = "kernel" THEN "done_rsp" ELSE "crash"
    /\ rsp' = rsp2
    /\ UNCHANGED <<flags, regs, gs, rsp2, kstack, waiting, ctx>>

\* Mutant: no swapgs on the way out.
DoneNoSwapgs ==
    /\ Move("done_rsp", "done_gs")
    /\ UNCHANGED <<flags, regs, gs, stacks, waiting, ctx>>

DoneSwapgs ==
    /\ Move("done_rsp", "done_gs")
    /\ Swapgs
    /\ UNCHANGED <<flags, regs, stacks, waiting, ctx>>

Sysret ==
    /\ Move("done_gs", "user")
    /\ if' = r11.if /\ ac' = r11.ac
    /\ UNCHANGED <<regs, gs, stacks, waiting, ctx>>

EnterStep == EnterCli \/ EnterLoadRegs \/ EnterSysret
PadStep == PadSwapgs \/ PadSaveRsp \/ PadLoadRsp \/ PadPush
             \/ DonePop \/ DoneLoadRsp \/ DoneSwapgs \/ Sysret
CallStep == PrintCopy \/ PrintReturn \/ GetchSti \/ GetchPoll \/ GetchCopy
              \/ GetchCli \/ GetchReturn
-----------------------------------------------------------------------------
IrqFrame == [kind |-> "irq", pc |-> pc, rsp |-> rsp, fl |-> [if |-> if, ac |-> ac]]

\* From ring 3 the CPU switches to the top of the kernel stack (IST is 0, rsp0
\* is STACK_TOP).  In ring 0 it pushes where rsp points; on the program's stack
\* the push faults (SMAP), and so does the push of the fault's own frame.  The
\* gate clears IF and leaves AC.
IrqEnter(handler) ==
    /\ if = 1 /\ pc \in Interrupted
    /\ pc' = IF pc = "user" \/ rsp = "kernel" THEN handler ELSE "crash"
    /\ kstack' = IF pc = "user" THEN <<IrqFrame>> ELSE Append(kstack, IrqFrame)
    /\ rsp' = "kernel" /\ if' = 0
    /\ UNCHANGED <<ac, regs, gs, rsp2, waiting, ctx>>

\* Mutant: circ_buf_push does not test for a full buffer.
KeyboardUntested ==
    /\ Move("keyboard", "iret")
    /\ waiting' = waiting + 1
    /\ UNCHANGED <<flags, regs, gs, stacks, ctx>>

\* keyboard_handler for a key it knows: circ_buf_push drops it when full.
KeyboardHandler ==
    /\ Move("keyboard", "iret")
    /\ waiting' = IF waiting < MaxWaiting THEN waiting + 1 ELSE waiting
    /\ UNCHANGED <<flags, regs, gs, stacks, ctx>>

\* The timer, mouse and disk handlers, and keys that give no character.
OtherHandler ==
    /\ Move("other", "iret")
    /\ UNCHANGED <<flags, regs, gs, stacks, waiting, ctx>>

\* popaq; iretq
IrqReturn ==
    /\ pc = "iret"
    /\ pc' = Top.pc /\ rsp' = Top.rsp /\ if' = Top.fl.if /\ ac' = Top.fl.ac
    /\ kstack' = Pop
    /\ UNCHANGED <<regs, gs, rsp2, waiting, ctx>>

HandlerStep == KeyboardHandler \/ OtherHandler \/ IrqReturn
KernelStep == EnterStep \/ PadStep \/ CallStep

Next ==
    \/ KernelStep
    \/ UserStep \/ Syscall
    \/ IrqEnter("keyboard") \/ IrqEnter("other")
    \/ HandlerStep

\* A handler runs to its end, and interrupts do not arrive so fast that the
\* interrupted code never gets an instruction in.  The person at the keyboard
\* goes on typing.
Fairness ==
    /\ WF_vars(HandlerStep)
    /\ SF_vars(KernelStep)
    /\ SF_vars(IrqEnter("keyboard"))

Spec == Init /\ [][Next]_vars /\ Fairness
-----------------------------------------------------------------------------
TypeOK ==
    /\ pc \in Interrupted \cup Handlers \cup {"crash"}
    /\ rip \in Rips /\ rsp \in UserStacks \cup {"kernel"}
    /\ rsp2 \in UserStacks \cup {"none"}
    /\ if \in Bit /\ ac \in Bit /\ r11 \in Flags
    /\ gs \in {"user", "kernel"}
    /\ kstack \in Seq(Frame) /\ Len(kstack) <= 2
    /\ waiting \in 0 .. MaxWaiting
    /\ ctx \in [rip : Rips, rsp : UserStacks, ac : Bit]

\* The code that is executing, or that the running handler interrupted.
Where == IF pc \in Handlers THEN Top.pc ELSE pc
InSyscall == Where \in PadIn \cup Printing \cup Getch \cup PadOut

\* No interrupt is ever taken in ring 0 while rsp is the user program's, and
\* the landing pad never reads a stack pointer through the wrong GS base.
NoIrqOnUserStack == pc # "crash"

\* The program resumes, after any system call and any interrupt, where it was,
\* on its own stack, with its own flags, interrupts on, and its own GS base.
UserResumes ==
    pc = "user" =>
        /\ rip = ctx.rip /\ rsp = ctx.rsp /\ ac = ctx.ac
        /\ if = 1 /\ gs = "user"

\* While a system call runs, its frame stays at the top of the kernel stack
\* through every interrupt, and tss64.rsp2 keeps the program's stack pointer.
CallerSaved ==
    Where \in Printing \cup Getch \cup {"done"} =>
        /\ kstack # <<>>
        /\ kstack[1] = [kind |-> "sys", rip |-> ctx.rip, r11 |-> [if |-> 1, ac |-> ctx.ac]]
        /\ rsp2 = ctx.rsp /\ gs = "kernel"

\* In a system call the kernel may touch user memory (AC set) only between the
\* stac and the clac of userland_memcpy, or in a handler that interrupts them.
AcOnlyWhileCopying == InSyscall /\ ac = 1 => Where \in Copying

\* Of the kernel code that serves the program, interrupts reach only the part
\* of sys_getch_new between sti and cli: never malloc in sys_print_new.
InterruptsOnlyInGetch ==
    InSyscall /\ (if = 1 \/ pc \in Handlers) => Where \in GetchOn

\* "Otherwise we will hang for ever": with interrupts on, every system call
\* returns to the program.
SyscallReturns == (pc = "pad") ~> (pc = "user")
=============================================================================

------------------------ MODULE SystemCalls_proofs -------------------------
(***************************************************************************)
(* The system calls.  First the crossing between program and kernel: its   *)
(* safety, for every program and every interleaving with interrupts.  Then *)
(* what the kernel sends: that memcpy of sys_print copies the program's    *)
(* bytes, that itoa and printf of the debug lines print the numbers that   *)
(* they are given, and that the port is sent all of it in order, for every *)
(* address, size, number, width and buffer; and that no loop on the way    *)
(* turns for ever.                                                         *)
(*                                                                         *)
(* The digits are read by recursive functions.  That such a function       *)
(* exists, and what it computes, is shown by taking the least number for   *)
(* which it would fail (LeastOf, UpToN).                                   *)
(***************************************************************************)
EXTENDS KernelEntry, Serial, SequenceTheorems, WellFoundedInduction, TLAPS

\* What rsp, IF, AC and the GS base are at each place of the code.
OnUserStack == {"user", "enter_rsp", "pad", "pad_gs", "pad_saved", "done_rsp", "done_gs"}
StackAt(p) == IF p \in OnUserStack THEN ctx.rsp ELSE "kernel"
IfAt(p) == IF p \in {"main", "user"} \cup GetchOn THEN 1 ELSE 0
AcAt(p) == IF p = "user" THEN ctx.ac ELSE IF p \in Copying THEN 1 ELSE 0
OnKernelGs == (PadIn \ {"pad"}) \cup Printing \cup Getch \cup {"done", "done_pop", "done_rsp"}

\* What the landing pad has pushed for the running program.
CallerFlags == [if |-> 1, ac |-> ctx.ac]
CallerFrame == [kind |-> "sys", rip |-> ctx.rip, r11 |-> CallerFlags]

\* rcx and r11 hold the program's rip and flags outside the C code.
RegsOK(p) ==
    /\ p \in {"user", "enter_rsp"} \cup PadIn \cup {"done_pop", "done_rsp", "done_gs"} => rip = ctx.rip
    /\ p \in PadIn \cup {"done_pop", "done_rsp", "done_gs"} => r11 = CallerFlags
    /\ p = "enter_rsp" => r11 = [if |-> 1, ac |-> 0]
    /\ p \in EnterUser => ctx.ac = 0
    /\ gs = IF p \in OnKernelGs THEN "kernel" ELSE "user"
    /\ p \in {"pad_saved", "pad_rsp", "done", "done_pop"} \cup Printing \cup Getch => rsp2 = ctx.rsp

\* n frames belong to the code at p; the lowest is the program's if it is in a
\* system call.
FramesOK(p, n) ==
    /\ p \in EnterUser \cup {"user", "pad", "pad_gs", "pad_saved"} => n \in {0, 1}
    /\ p \in {"pad_rsp", "done_pop", "done_rsp", "done_gs"} => n = 0
    /\ p \in Printing \cup Getch \cup {"done"} => n = 1 /\ kstack[1] = CallerFrame

CodeOK ==
    pc \in Interrupted =>
        /\ rsp = StackAt(pc) /\ if = IfAt(pc) /\ ac = AcAt(pc)
        /\ RegsOK(pc) /\ FramesOK(pc, Len(kstack))

HandlerOK ==
    pc \in Handlers =>
        /\ if = 0 /\ rsp = "kernel"
        /\ Len(kstack) >= 1 /\ Top.kind = "irq"
        /\ Top.fl = [if |-> 1, ac |-> ac]
        /\ \E q \in Interrupted :
            /\ Top.pc = q /\ IfAt(q) = 1
            /\ Top.rsp = StackAt(q) /\ ac = AcAt(q)
            /\ RegsOK(q) /\ FramesOK(q, Len(kstack) - 1)

IInv == TypeOK /\ CodeOK /\ HandlerOK /\ NoIrqOnUserStack

\* What a pop leaves of a stack of one or two frames.
LEMMA PopFact ==
  ASSUME NEW S, NEW s \in Seq(S), Len(s) \in {1, 2}
  PROVE  /\ SubSeq(s, 1, Len(s) - 1) \in Seq(S)
         /\ Len(SubSeq(s, 1, Len(s) - 1)) = Len(s) - 1
         /\ Len(s) = 2 => SubSeq(s, 1, Len(s) - 1)[1] = s[1]
<1>1. \A i \in 1 .. Len(s) - 1 : s[i] \in S
  OBVIOUS
<1>2. CASE Len(s) = 1
  BY <1>2, SubSeqProperties
<1>3. CASE Len(s) = 2
  BY <1>1, <1>3, SubSeqProperties
<1>4. Len(s) = 1 \/ Len(s) = 2
  OBVIOUS
<1>5. QED
  BY ONLY <1>2, <1>3, <1>4, Zenon

USE EntryAssumption
    DEF Bit, Interrupted, Handlers, EnterUser, PadIn, PadOut, Printing, Getch, GetchOn, Copying

LEMMA InitIInv == Init => IInv
  BY DEF Init, IInv, TypeOK, CodeOK, HandlerOK, NoIrqOnUserStack, RegsOK, FramesOK,
         StackAt, IfAt, AcAt, OnUserStack, OnKernelGs, Flags, Frame

LEMMA NextIInv == IInv /\ [Next]_vars => IInv'
<1> SUFFICES ASSUME IInv, [Next]_vars PROVE IInv'
  OBVIOUS
<1> USE DEF IInv, Move
<1>2. CASE EnterStep
  <2>1. TypeOK'
    BY <1>2 DEF EnterStep, EnterCli, EnterLoadRegs, EnterSysret, TypeOK, CodeOK, flags,
       regs, stacks, Flags, RegsOK
  <2>2. CodeOK' /\ HandlerOK' /\ NoIrqOnUserStack'
    BY <1>2 DEF EnterStep, EnterCli, EnterLoadRegs, EnterSysret, TypeOK, CodeOK, HandlerOK,
       NoIrqOnUserStack, flags, regs, stacks, RegsOK, FramesOK, StackAt, IfAt, AcAt,
       OnUserStack, OnKernelGs, CallerFlags
  <2>3. QED BY <2>1, <2>2
<1>3. CASE UserStep
  BY <1>3 DEF UserStep, TypeOK, CodeOK, HandlerOK, NoIrqOnUserStack, RegsOK, FramesOK,
     StackAt, IfAt, AcAt, OnUserStack, OnKernelGs
<1>4. CASE Syscall
  BY <1>4 DEF Syscall, SfMask, TypeOK, CodeOK, HandlerOK, NoIrqOnUserStack, RegsOK, FramesOK,
     StackAt, IfAt, AcAt, OnUserStack, OnKernelGs, stacks, Flags, CallerFlags
<1>5. CASE PadSwapgs \/ PadSaveRsp \/ PadLoadRsp
  <2>1. TypeOK'
    <3>1. CASE PadSwapgs
      BY <3>1 DEF PadSwapgs, Swapgs, TypeOK, flags, regs, stacks
    <3>2. CASE PadSaveRsp
      BY <3>2 DEF PadSaveRsp, TypeOK, CodeOK, flags, regs, StackAt, OnUserStack
    <3>3. CASE PadLoadRsp
      <4>1. kstack' \in Seq(Frame) /\ Len(kstack') = 0
        BY <3>3 DEF PadLoadRsp
      <4>2. QED BY <3>3, <4>1 DEF PadLoadRsp, TypeOK, flags, regs
    <3>4. QED BY <1>5, <3>1, <3>2, <3>3
  <2>2. CodeOK' /\ HandlerOK' /\ NoIrqOnUserStack'
    BY <1>5 DEF PadSwapgs, PadSaveRsp, PadLoadRsp, Swapgs, TypeOK, CodeOK, HandlerOK,
       NoIrqOnUserStack, flags, regs, stacks, RegsOK, FramesOK, StackAt, IfAt, AcAt,
       OnUserStack, OnKernelGs, CallerFlags
  <2>3. QED BY <2>1, <2>2
<1>6. CASE PadPush
  <2> DEFINE f == [kind |-> "sys", rip |-> rip, r11 |-> r11]
  <2>1. f \in Frame /\ Len(kstack) = 0 /\ kstack \in Seq(Frame) /\ f = CallerFrame
    BY <1>6 DEF PadPush, TypeOK, CodeOK, RegsOK, FramesOK, Frame, CallerFrame
  <2> HIDE DEF f
  <2>2. kstack' \in Seq(Frame) /\ Len(kstack') = 1 /\ kstack'[1] = f
    BY <1>6, <2>1, AppendProperties DEF PadPush, f
  <2>3. TypeOK'
    BY <1>6, <2>2 DEF PadPush, TypeOK, flags, regs
  <2>4. CodeOK' /\ HandlerOK' /\ NoIrqOnUserStack'
    BY <1>6, <2>1, <2>2 DEF PadPush, TypeOK, CodeOK, HandlerOK, NoIrqOnUserStack, flags, regs,
       RegsOK, FramesOK, StackAt, IfAt, AcAt, OnUserStack, OnKernelGs, CallerFlags, CallerFrame
  <2>5. QED BY <2>3, <2>4
<1>7. CASE CallStep
  <2>1. TypeOK'
    BY <1>7 DEF CallStep, PrintCopy, PrintReturn, GetchSti, GetchPoll, GetchCopy, GetchCli,
       GetchReturn, Stac, Clac, TypeOK, flags, regs, stacks
  <2>2. CodeOK' /\ HandlerOK' /\ NoIrqOnUserStack'
    BY <1>7 DEF CallStep, PrintCopy, PrintReturn, GetchSti, GetchPoll, GetchCopy, GetchCli,
       GetchReturn, Stac, Clac, TypeOK, CodeOK, HandlerOK, NoIrqOnUserStack, flags, regs, stacks,
       RegsOK, FramesOK, StackAt, IfAt, AcAt, OnUserStack, OnKernelGs, CallerFlags, CallerFrame
  <2>3. QED BY <2>1, <2>2
<1>8. CASE DonePop
  <2>1. /\ kstack \in Seq(Frame) /\ Len(kstack) = 1 /\ Top = CallerFrame
        /\ rip' = ctx.rip /\ r11' = CallerFlags
    <3>1. pc = "done" /\ kstack \in Seq(Frame) /\ FramesOK(pc, Len(kstack))
      BY <1>8 DEF DonePop, TypeOK, CodeOK
    <3>2. Len(kstack) = 1 /\ kstack[1] = CallerFrame
      BY <3>1 DEF FramesOK
    <3>3. Top = CallerFrame
      BY <3>2 DEF Top
    <3>4. rip' = ctx.rip /\ r11' = CallerFlags
      BY <1>8, <3>3 DEF DonePop, CallerFrame
    <3>5. QED BY <3>1, <3>2, <3>3, <3>4
  <2>2. kstack' \in Seq(Frame) /\ Len(kstack') = 0
    BY <1>8, <2>1, PopFact DEF DonePop, Pop
  <2>3. TypeOK'
    BY <1>8, <2>1, <2>2 DEF DonePop, TypeOK, flags, CallerFlags, Flags
  <2>4. CodeOK' /\ HandlerOK' /\ NoIrqOnUserStack'
    BY <1>8, <2>1, <2>2 DEF DonePop, TypeOK, CodeOK, HandlerOK, NoIrqOnUserStack, flags,
       RegsOK, FramesOK, StackAt, IfAt, AcAt, OnUserStack, OnKernelGs, CallerFlags
  <2>5. QED BY <2>3, <2>4
<1>9. CASE DoneLoadRsp \/ DoneSwapgs \/ Sysret
  <2>1. TypeOK'
    BY <1>9 DEF DoneLoadRsp, DoneSwapgs, Sysret, Swapgs, TypeOK, CodeOK, RegsOK,
       flags, regs, stacks, OnKernelGs, Flags
  <2>2. CodeOK' /\ HandlerOK' /\ NoIrqOnUserStack'
    BY <1>9 DEF DoneLoadRsp, DoneSwapgs, Sysret, Swapgs, TypeOK, CodeOK, HandlerOK,
       NoIrqOnUserStack, flags, regs, stacks, RegsOK, FramesOK, StackAt, IfAt, AcAt,
       OnUserStack, OnKernelGs, CallerFlags
  <2>3. QED BY <2>1, <2>2
<1>10. ASSUME NEW h \in {"keyboard", "other"}, IrqEnter(h) PROVE IInv'
  <2>1. PICK q \in Interrupted : q = pc
    BY <1>10 DEF IrqEnter
  <2>2. /\ if = 1 /\ IfAt(q) = 1
        /\ pc' = h /\ kstack \in Seq(Frame)
        /\ rsp = StackAt(q) /\ ac = AcAt(q)
        /\ RegsOK(q) /\ FramesOK(q, Len(kstack))
    BY <1>10, <2>1 DEF IrqEnter, TypeOK, CodeOK, IfAt, StackAt, OnUserStack
  <2>3. /\ IrqFrame \in Frame /\ IrqFrame.kind = "irq" /\ IrqFrame.pc = q
        /\ IrqFrame.rsp = rsp /\ IrqFrame.fl = [if |-> 1, ac |-> ac]
    BY <2>1, <2>2 DEF IrqFrame, TypeOK, Frame, Flags
  <2>4. /\ kstack' \in Seq(Frame) /\ Len(kstack') \in 1 .. 2
        /\ kstack'[Len(kstack')] = IrqFrame
        /\ q = "user" => Len(kstack') = 1
        /\ q # "user" => /\ Len(kstack') = Len(kstack) + 1
                         /\ Len(kstack) = 1 => kstack'[1] = kstack[1]
    <3>1. CASE q = "user"
      BY <1>10, <2>1, <2>3, <3>1 DEF IrqEnter
    <3>2. CASE q # "user"
      <4>1. kstack' = Append(kstack, IrqFrame)
        BY <1>10, <2>1, <3>2 DEF IrqEnter
      <4>2. Len(kstack) \in {0, 1}
        BY <2>2 DEF FramesOK, IfAt
      <4>3. QED BY <2>2, <2>3, <3>2, <4>1, <4>2, AppendProperties
    <3>3. QED BY <3>1, <3>2
  <2>5. TypeOK'
    BY <1>10, <2>1, <2>2, <2>4 DEF IrqEnter, TypeOK, regs
  <2>6. Top' = IrqFrame
    BY <2>4 DEF Top
  <2>7. RegsOK(q)' /\ FramesOK(q, Len(kstack) - 1)'
    <3>1. RegsOK(q)'
      BY <1>10, <2>2, SMT DEF IrqEnter, RegsOK, regs, CallerFlags
    <3>2. FramesOK(q, Len(kstack) - 1)'
      BY <1>10, <2>1, <2>2, <2>4 DEF IrqEnter, FramesOK, CallerFrame, CallerFlags, regs, IfAt
    <3>3. QED BY <3>1, <3>2
  <2>8. StackAt(q)' = StackAt(q) /\ AcAt(q)' = AcAt(q) /\ IfAt(q)' = IfAt(q)
    BY <1>10 DEF IrqEnter, StackAt, AcAt, IfAt, regs
  <2>9. if' = 0 /\ rsp' = "kernel" /\ ac' = ac
    BY <1>10 DEF IrqEnter
  <2>10. (Top.pc)' = q /\ (Top.kind)' = "irq" /\ (Top.rsp)' = rsp
           /\ (Top.fl)' = [if |-> 1, ac |-> ac]
    BY <2>3, <2>6
  <2>11. HandlerOK'
    <3>1. \E p \in Interrupted :
            /\ (Top.pc)' = p /\ IfAt(p)' = 1
            /\ (Top.rsp)' = StackAt(p)' /\ ac' = AcAt(p)'
            /\ RegsOK(p)' /\ FramesOK(p, Len(kstack) - 1)'
      BY <2>1, <2>2, <2>7, <2>8, <2>9, <2>10, Zenon
    <3>2. Len(kstack)' >= 1
      BY <2>4
    <3>3. QED BY <2>9, <2>10, <3>1, <3>2 DEF HandlerOK
  <2>12. QED
    BY <2>2, <2>5, <2>11 DEF CodeOK, NoIrqOnUserStack
<1>11. CASE KeyboardHandler \/ OtherHandler
  <2>1. TypeOK'
    BY <1>11 DEF KeyboardHandler, OtherHandler, TypeOK, flags, regs, stacks
  <2>2. CodeOK' /\ HandlerOK' /\ NoIrqOnUserStack'
    BY <1>11 DEF KeyboardHandler, OtherHandler, CodeOK, HandlerOK, NoIrqOnUserStack, flags, regs,
       stacks, RegsOK, FramesOK, StackAt, IfAt, AcAt, CallerFlags, CallerFrame, Top
  <2>3. QED BY <2>1, <2>2
<1>12. CASE IrqReturn
  <2>1. PICK q \in Interrupted :
          /\ Top.pc = q /\ IfAt(q) = 1
          /\ Top.rsp = StackAt(q) /\ ac = AcAt(q)
          /\ RegsOK(q) /\ FramesOK(q, Len(kstack) - 1)
    BY <1>12 DEF IrqReturn, HandlerOK
  <2>2. /\ Len(kstack) \in {1, 2} /\ kstack \in Seq(Frame)
        /\ Top.fl.if = 1 /\ Top.fl.ac = ac
    <3>1. Len(kstack) >= 1 /\ Top.fl = [if |-> 1, ac |-> ac]
      BY <1>12 DEF IrqReturn, HandlerOK
    <3>2. kstack \in Seq(Frame) /\ Len(kstack) <= 2
      BY DEF TypeOK
    <3>3. Len(kstack) >= 1 /\ Len(kstack) <= 2 /\ Len(kstack) \in Nat
      BY <3>1, <3>2
    <3>4. Len(kstack) \in {1, 2}
      <4>1. \A n \in Nat : n >= 1 /\ n <= 2 => n \in {1, 2}
        OBVIOUS
      <4>2. QED BY ONLY <3>3, <4>1, Zenon
    <3>5. Top.fl.if = 1 /\ Top.fl.ac = ac
      BY <3>1
    <3>6. QED BY <3>2, <3>4, <3>5
  <2>3. pc' = q /\ rsp' = StackAt(q) /\ if' = 1 /\ ac' = ac /\ kstack' = Pop
    BY <1>12, <2>1, <2>2 DEF IrqReturn
  <2>4. /\ kstack' \in Seq(Frame) /\ Len(kstack') = Len(kstack) - 1
        /\ Len(kstack) = 2 => kstack'[1] = kstack[1]
    BY <2>2, <2>3, PopFact DEF Pop
  <2>5. TypeOK'
    BY <1>12, <2>1, <2>2, <2>3, <2>4 DEF IrqReturn, TypeOK, regs, StackAt
  <2>6. RegsOK(q)' /\ FramesOK(q, Len(kstack))'
    <3>1. RegsOK(q)'
      BY <1>12, <2>1, SMT DEF IrqReturn, RegsOK, regs, CallerFlags
    <3>2. FramesOK(q, Len(kstack))'
      BY <1>12, <2>1, <2>2, <2>4 DEF IrqReturn, FramesOK, CallerFrame, CallerFlags, regs, IfAt
    <3>3. QED BY <3>1, <3>2
  <2>7. StackAt(q)' = StackAt(q) /\ AcAt(q)' = AcAt(q) /\ IfAt(q)' = IfAt(q)
    BY <1>12 DEF IrqReturn, StackAt, AcAt, IfAt, regs
  <2>8. CodeOK'
    BY <2>1, <2>2, <2>3, <2>6, <2>7 DEF CodeOK
  <2>9. QED
    BY <2>1, <2>3, <2>5, <2>8 DEF HandlerOK, NoIrqOnUserStack
<1>13. CASE UNCHANGED vars
  BY <1>13 DEF vars, TypeOK, CodeOK, HandlerOK, NoIrqOnUserStack, RegsOK, FramesOK, StackAt, IfAt,
     AcAt, CallerFlags, CallerFrame, Top
<1>14. QED
  BY <1>2, <1>3, <1>4, <1>5, <1>6, <1>7, <1>8, <1>9, <1>10, <1>11, <1>12, <1>13
  DEF Next, KernelStep, PadStep, HandlerStep
-----------------------------------------------------------------------------
\* The invariant holds in every reachable state: in ring 0 on the program's
\* stack interrupts are off, and a handler knows exactly what it interrupted.
THEOREM EntryInvariant == Spec => []IInv
<1>1. Init => IInv
  BY InitIInv
<1>2. IInv /\ [Next]_vars => IInv'
  BY NextIInv
<1>3. QED
  BY <1>1, <1>2, PTL DEF Spec

\* Type correctness of enter_userland, the landing pad and the handlers; the
\* kernel stack never holds more than two frames.
THEOREM EntryTypeCorrect == Spec => []TypeOK
  BY EntryInvariant, PTL DEF IInv

\* No interrupt is taken on the user program's stack, and the landing pad
\* never uses the wrong GS base.
THEOREM NeverOnUserStack == Spec => []NoIrqOnUserStack
  BY EntryInvariant, PTL DEF IInv

\* enter_userland, sysret and iretq all give the program back its own rip,
\* rsp and flags, with interrupts on.
THEOREM ProgramResumes == Spec => []UserResumes
<1>1. IInv => UserResumes
  BY DEF IInv, CodeOK, UserResumes, RegsOK, StackAt, IfAt, AcAt, OnUserStack, OnKernelGs
<1>2. QED
  BY <1>1, EntryInvariant, PTL

\* The frame that syscall_landing_pad pushed, and tss64.rsp2, survive every
\* interrupt of the system call.
THEOREM CallerStaysSaved == Spec => []CallerSaved
<1>1. IInv => CallerSaved
  <2> SUFFICES ASSUME IInv PROVE CallerSaved
    OBVIOUS
  <2> DEFINE Saved(q) == q \in Printing \cup Getch \cup {"done"} =>
                           /\ kstack # <<>> /\ kstack[1] = CallerFrame
                           /\ rsp2 = ctx.rsp /\ gs = "kernel"
  <2>1. CASE pc \in Handlers
    <3>1. PICK q \in Interrupted :
            Top.pc = q /\ RegsOK(q) /\ FramesOK(q, Len(kstack) - 1)
      BY <2>1 DEF IInv, HandlerOK
    <3>2. Len(kstack) >= 1
      BY <2>1 DEF IInv, HandlerOK
    <3>3. Saved(q)
      BY <3>1, <3>2 DEF RegsOK, FramesOK, OnKernelGs
    <3>4. Where = q
      BY <2>1, <3>1 DEF Where
    <3>5. QED BY <3>3, <3>4 DEF CallerSaved, CallerFrame, CallerFlags
  <2>2. CASE pc \notin Handlers
    <3>1. Where = pc
      BY <2>2 DEF Where
    <3>2. Saved(pc)
      BY <2>2 DEF IInv, CodeOK, RegsOK, FramesOK, OnKernelGs
    <3>3. QED BY <3>1, <3>2 DEF CallerSaved, CallerFrame, CallerFlags
  <2>3. QED BY <2>1, <2>2
<1>2. QED
  BY <1>1, EntryInvariant, PTL

\* SMAP is lifted in a system call only between the stac and the clac of
\* userland_memcpy.
THEOREM AcOnlyInCopies == Spec => []AcOnlyWhileCopying
<1>1. IInv => AcOnlyWhileCopying
  <2> SUFFICES ASSUME IInv PROVE AcOnlyWhileCopying
    OBVIOUS
  <2>1. CASE pc \in Handlers
    <3>1. PICK q \in Interrupted : Top.pc = q /\ ac = AcAt(q)
      BY <2>1 DEF IInv, HandlerOK
    <3>2. Where = q
      BY <2>1, <3>1 DEF Where
    <3>3. QED BY <3>1, <3>2 DEF AcOnlyWhileCopying, InSyscall, AcAt
  <2>2. CASE pc \notin Handlers
    BY <2>2 DEF IInv, CodeOK, AcOnlyWhileCopying, InSyscall, AcAt, Where
  <2>3. QED BY <2>1, <2>2
<1>2. QED
  BY <1>1, EntryInvariant, PTL

\* In a system call, interrupts fall only between enable_interrupt and
\* disable_interrupt of sys_getch_new.
THEOREM OnlyGetchInterrupted == Spec => []InterruptsOnlyInGetch
<1>1. IInv => InterruptsOnlyInGetch
  <2> SUFFICES ASSUME IInv PROVE InterruptsOnlyInGetch
    OBVIOUS
  <2>1. CASE pc \in Handlers
    <3>1. PICK q \in Interrupted : Top.pc = q /\ IfAt(q) = 1
      BY <2>1 DEF IInv, HandlerOK
    <3>2. Where = q
      BY <2>1, <3>1 DEF Where
    <3>3. QED BY <3>1, <3>2 DEF InterruptsOnlyInGetch, InSyscall, IfAt
  <2>2. CASE pc \notin Handlers
    BY <2>2 DEF IInv, CodeOK, InterruptsOnlyInGetch, InSyscall, IfAt, Where
  <2>3. QED BY <2>1, <2>2
<1>2. QED
  BY <1>1, EntryInvariant, PTL
-----------------------------------------------------------------------------
LEMMA Product ==
    ASSUME NEW x \in Nat, NEW y \in Nat
    PROVE  x * y \in Nat
  OBVIOUS

\* The bytes from the beginning up to the address to, each at its place.
Image(to) == [a \in dest .. to - 1 |-> src + a - dest]

\* Each word that has been read holds a byte of the source.
FetchedOK == \A a \in fetched : \E b \in a .. a + TypeWidth - 1 : b \in src .. src + size - 1

\* Where the destination is aligned.
Aligned(t) == t \in dest .. dest + TypeWidth - 1 /\ t % TypeWidth = 0

\* dst8 - dest bytes are done.  While memcpy aligns, an aligned address lies ahead; in
\* the words, src8 is the next byte, or with a shift the word behind the one that holds it.
AlignOK ==
    /\ count = size - (dst8 - dest) /\ src8 = src + (dst8 - dest)
    /\ size >= TypeWidth /\ \E t \in Int : Aligned(t) /\ dst8 <= t

WordsOK ==
    /\ length \in Nat /\ count \in Nat /\ shift \in 0 .. TypeWidth - 1
    /\ (dst8 - dest) + (length * TypeWidth) + (count % TypeWidth) = size
    /\ shift = 0 => src8 = src + (dst8 - dest)
    /\ shift # 0 => src8 = src + (dst8 - dest) - shift + TypeWidth /\ srcWord = src8 - TypeWidth

RestOK ==
    /\ count \in Nat /\ (dst8 - dest) + count = size /\ src8 = src + (dst8 - dest)

\* memcpy at each of its places.
MemcpyOK ==
    /\ mpc \in {"idle", "divide", "align", "words", "rest"}
    /\ mpc = "idle" => fetched = {} /\ stored = <<>>
    /\ mpc = "divide" => fetched = {}
    /\ mpc \in {"align", "words", "rest"} =>
         /\ dest \in Nat /\ src \in Nat /\ size \in Nat /\ dst8 \in Nat /\ dest <= dst8
         /\ stored = Image(dst8) /\ FetchedOK
    /\ mpc = "align" => AlignOK
    /\ mpc = "words" => WordsOK
    /\ mpc = "rest" => RestOK

LEMMA Widths ==
    /\ TypeWidth \in Nat \ {0, 1} /\ Unroll \in Nat \ {0} /\ Wrap \in Nat \ {0} /\ LowPage \in Nat
  BY MemcpyAssumption

\* An aligned address is never far.
LEMMA NextAligned ==
    ASSUME NEW n \in Nat
    PROVE  \E t \in n .. n + TypeWidth - 1 : t % TypeWidth = 0
<1> DEFINE W == TypeWidth
           r == n % W
           q == n \div W
<1>0. W \in Nat /\ W > 0
  BY Widths
<1> HIDE DEF W
<1>1. r \in 0 .. W - 1 /\ q \in Nat /\ n = (q * W) + r
  BY <1>0
<1> HIDE DEF r, q
<1>2. CASE r = 0
  BY <1>0, <1>1, <1>2 DEF r, W
<1>3. CASE r # 0
  <2>1. (q + 1) * W = (q * W) + W
    BY <1>0, <1>1
  <2>2. ((q + 1) * W) % W = 0
    BY <1>0, <1>1
  <2>3. (q + 1) * W \in n .. n + W - 1
    BY <1>0, <1>1, <1>3, <2>1
  <2> QED
    BY <2>2, <2>3 DEF W
<1> QED
  BY <1>2, <1>3

\* memcpy begins in a state that the invariant describes.
LEMMA CallOK ==
    ASSUME MemcpyOK, NEW to \in Nat, NEW from \in Nat, NEW n \in Nat, Call(to, from, n)
    PROVE  MemcpyOK'
<1>1. /\ mpc = "idle" /\ dest' = to /\ src' = from /\ size' = n
      /\ dst8' = to /\ src8' = from /\ count' = n
      /\ UNCHANGED <<stored, fetched>> /\ fetched = {} /\ stored = <<>>
  BY DEF Call, MemcpyOK
<1>2. mpc' \in {"divide", "rest", "align"} /\ (mpc' = "align" => ~(n < TypeWidth))
  BY DEF Call
<1>3. stored' = Image(dst8)' 
  BY <1>1 DEF Image
<1>4. FetchedOK'
  BY <1>1 DEF FetchedOK
<1>5. mpc' = "align" => AlignOK'
  <2>1. PICK t \in to .. to + TypeWidth - 1 : t % TypeWidth = 0
    BY NextAligned
  <2>2. t \in Int /\ Aligned(t)' /\ dst8' <= t
    BY <1>1, <2>1, Widths DEF Aligned
  <2> QED
    BY <1>1, <1>2, <2>2, Widths DEF AlignOK
<1>6. RestOK'
  BY <1>1 DEF RestOK
<1> QED
  BY <1>1, <1>2, <1>3, <1>4, <1>5, <1>6 DEF MemcpyOK

\* Bytes stored behind those that are there.
LEMMA StoreBehind ==
    ASSUME MemcpyOK, mpc \in {"align", "words", "rest"}, NEW n \in Nat, NEW bytes,
           DOMAIN bytes = dst8 .. dst8 + n - 1,
           \A a \in dst8 .. dst8 + n - 1 : bytes[a] = src + a - dest, Store(bytes)
    PROVE  stored' = Image(dst8 + n)
<1>1. /\ dest \in Nat /\ src \in Nat /\ dst8 \in Nat /\ dest <= dst8 /\ stored = Image(dst8)
  BY DEF MemcpyOK
<1>2. DOMAIN stored = dest .. dst8 - 1 /\ \A a \in dest .. dst8 - 1 : stored[a] = src + a - dest
  BY <1>1 DEF Image
<1>3. (DOMAIN stored) \cup (DOMAIN bytes) = dest .. dst8 + n - 1
  BY <1>1, <1>2
<1>4. stored' = [a \in dest .. dst8 + n - 1 |-> IF a \in DOMAIN bytes THEN bytes[a] ELSE stored[a]]
  BY <1>3 DEF Store
<1>5. ASSUME NEW a \in dest .. dst8 + n - 1
      PROVE  (IF a \in DOMAIN bytes THEN bytes[a] ELSE stored[a]) = src + a - dest
  <2>1. CASE a \in dst8 .. dst8 + n - 1
    BY <2>1
  <2>2. CASE a \notin dst8 .. dst8 + n - 1
    <3>1. a \in dest .. dst8 - 1
      BY <1>1, <1>5, <2>2
    <3> QED
      BY <1>2, <2>2, <3>1
  <2> QED
    BY <2>1, <2>2
<1> DEFINE new == [a \in dest .. dst8 + n - 1 |-> IF a \in DOMAIN bytes THEN bytes[a] ELSE stored[a]]
<1>6. new = [a \in dest .. dst8 + n - 1 |-> src + a - dest]
  BY <1>5
<1>7. Image(dst8 + n) = [a \in dest .. dst8 + n - 1 |-> src + a - dest]
  <2>1. (dst8 + n) - 1 = dst8 + n - 1
    BY <1>1
  <2> QED
    BY <2>1 DEF Image
<1>8. stored' = new
  BY <1>4
<1> HIDE DEF new
<1> QED
  BY <1>6, <1>7, <1>8

LEMMA CopyByteStores ==
    ASSUME MemcpyOK, mpc \in {"align", "rest"}, CopyByte
    PROVE  /\ stored' = Image(dst8)' /\ UNCHANGED <<args, fetched, mpc>>
           /\ dst8' = dst8 + 1 /\ src8' = src8 + 1 /\ count' = count - 1
<1>1. /\ Store([a \in {dst8} |-> src8]) /\ UNCHANGED <<args, fetched, mpc>>
      /\ dst8' = dst8 + 1 /\ src8' = src8 + 1 /\ count' = count - 1
  BY DEF CopyByte
<1>2. dest \in Nat /\ src \in Nat /\ dst8 \in Nat /\ src8 = src + (dst8 - dest)
  BY DEF MemcpyOK, AlignOK, RestOK
<1>3. {dst8} = dst8 .. dst8 + 1 - 1
  BY <1>2
<1> DEFINE bytes == [a \in {dst8} |-> src8]
<1>4. DOMAIN bytes = dst8 .. dst8 + 1 - 1 /\ \A a \in dst8 .. dst8 + 1 - 1 : bytes[a] = src + a - dest
  BY <1>2, <1>3
<1> HIDE DEF bytes
<1>5. stored' = Image(dst8 + 1)
  BY <1>1, <1>4, StoreBehind DEF bytes
<1> QED
  BY <1>1, <1>5 DEF Image, args

LEMMA AlignByteOK == MemcpyOK /\ AlignByte => MemcpyOK'
<1> SUFFICES ASSUME MemcpyOK, AlignByte PROVE MemcpyOK'
  OBVIOUS
<1>1. mpc = "align" /\ dst8 % TypeWidth # 0 /\ CopyByte
  BY DEF AlignByte
<1>2. /\ stored' = Image(dst8)' /\ UNCHANGED <<args, fetched, mpc>>
      /\ dst8' = dst8 + 1 /\ src8' = src8 + 1 /\ count' = count - 1
  BY <1>1, CopyByteStores
<1>3. dest \in Nat /\ src \in Nat /\ size \in Nat /\ dst8 \in Nat /\ dest <= dst8 /\ AlignOK /\ FetchedOK
  BY <1>1 DEF MemcpyOK
<1>4. PICK t \in Int : Aligned(t) /\ dst8 <= t
  BY <1>3 DEF AlignOK
<1>5. dst8 + 1 <= t
  BY <1>1, <1>3, <1>4 DEF Aligned
<1>6. AlignOK'
  <2>1. Aligned(t)'
    BY <1>2, <1>4 DEF Aligned, args
  <2> QED
    BY <1>2, <1>3, <1>4, <1>5, <2>1 DEF AlignOK, args
<1>7. FetchedOK'
  BY <1>2, <1>3 DEF FetchedOK, args
<1> QED
  BY <1>1, <1>2, <1>3, <1>6, <1>7 DEF MemcpyOK, args

LEMMA RestByteOK == MemcpyOK /\ RestByte => MemcpyOK'
<1> SUFFICES ASSUME MemcpyOK, RestByte PROVE MemcpyOK'
  OBVIOUS
<1>1. mpc = "rest" /\ count # 0 /\ CopyByte
  BY DEF RestByte
<1>2. /\ stored' = Image(dst8)' /\ UNCHANGED <<args, fetched, mpc>>
      /\ dst8' = dst8 + 1 /\ src8' = src8 + 1 /\ count' = count - 1
  BY <1>1, CopyByteStores
<1>3. dest \in Nat /\ src \in Nat /\ size \in Nat /\ dst8 \in Nat /\ dest <= dst8 /\ RestOK /\ FetchedOK
  BY <1>1 DEF MemcpyOK
<1>4. RestOK'
  BY <1>1, <1>2, <1>3 DEF RestOK, args
<1>5. FetchedOK'
  BY <1>2, <1>3 DEF FetchedOK, args
<1> QED
  BY <1>1, <1>2, <1>3, <1>4, <1>5 DEF MemcpyOK, args

\* What the shift is, and that the first word read holds a byte of the source.
LEMMA FirstWordOK == MemcpyOK /\ FirstWord => MemcpyOK'
<1> SUFFICES ASSUME MemcpyOK, FirstWord PROVE MemcpyOK'
  OBVIOUS
<1> DEFINE W == TypeWidth
<1>0. W \in Nat /\ W > 1
  BY Widths
<1>1. /\ mpc = "align" /\ mpc' = "words" /\ length' = count \div W /\ shift' = src8 % W
      /\ UNCHANGED <<args, dst8, count, stored>>
  BY DEF FirstWord
<1>2. dest \in Nat /\ src \in Nat /\ size \in Nat /\ dst8 \in Nat /\ dest <= dst8 /\ AlignOK /\ FetchedOK
      /\ stored = Image(dst8)
  BY <1>1 DEF MemcpyOK
<1>3. PICK t \in Int : Aligned(t) /\ dst8 <= t
  BY <1>2 DEF AlignOK
<1>4. /\ count = size - (dst8 - dest) /\ src8 = src + (dst8 - dest) /\ size >= W
      /\ dst8 <= dest + W - 1
  BY <1>0, <1>2, <1>3 DEF AlignOK, Aligned
<1>5. count \in Nat /\ count > 0 /\ src8 \in Nat /\ src8 \in src .. src + size - 1
  BY <1>0, <1>2, <1>4
<1> HIDE DEF W
<1>6. shift' \in 0 .. W - 1 /\ length' \in Nat /\ (length' * W) + (count % W) = count
  BY <1>0, <1>1, <1>5
<1>7. (dst8 - dest) + (length' * W) + (count % W) = size
  <2> DEFINE p == length' * W
             c == count % W
  <2>a. p \in Nat
    BY <1>0, <1>6, Product
  <2>b. c \in Nat
    BY <1>0, <1>5
  <2>1. p \in Nat /\ c \in Nat /\ p + c = count
    BY <1>6, <2>a, <2>b
  <2> HIDE DEF p, c
  <2>2. (dst8 - dest) + p + c = size
    BY <1>2, <1>4, <2>1
  <2> QED
    BY <2>2 DEF p, c
<1>8. CASE shift' = 0
  <2>1. UNCHANGED <<src8, srcWord, fetched>>
    BY <1>8 DEF FirstWord
  <2>2. WordsOK'
    BY <1>1, <1>4, <1>5, <1>6, <1>7, <1>8, <2>1 DEF WordsOK, args, W
  <2>3. FetchedOK'
    BY <1>1, <1>2, <2>1 DEF FetchedOK, args
  <2> QED
    BY <1>1, <1>2, <2>2, <2>3 DEF MemcpyOK, args, Image
<1>9. CASE shift' # 0
  <2>1. srcWord' = src8 - shift' /\ fetched' = fetched \cup {srcWord'} /\ src8' = srcWord' + W
    BY <1>9 DEF FirstWord, W
  <2>2. WordsOK'
    <3>1. src8' = src + (dst8 - dest) - shift' + W /\ srcWord' = src8' - W
      BY <1>0, <1>2, <1>4, <1>5, <1>6, <2>1
    <3> QED
      BY <1>1, <1>5, <1>6, <1>7, <1>9, <3>1 DEF WordsOK, args, W
  <2>3. FetchedOK'
    <3>1. src8 \in srcWord' .. srcWord' + W - 1
      <4> DEFINE h == shift'
      <4>1. h \in 0 .. W - 1 /\ srcWord' = src8 - h
        BY <1>6, <2>1
      <4> HIDE DEF h
      <4>2. src8 - h <= src8 /\ src8 <= (src8 - h) + W - 1
        BY <1>0, <1>5, <4>1
      <4> QED
        BY <1>0, <1>5, <4>1, <4>2
    <3> QED
      BY <1>1, <1>2, <1>5, <2>1, <3>1 DEF FetchedOK, args, W
  <2> QED
    BY <1>1, <1>2, <2>2, <2>3 DEF MemcpyOK, args, Image
<1> QED
  BY <1>8, <1>9

\* With a shift or without, a word is put together from the bytes that follow.
LEMMA MergedIs ==
    ASSUME MemcpyOK, mpc = "words", NEW m \in Nat, NEW k \in 0 .. TypeWidth - 1
    PROVE  Merged(m, k) = (src + (dst8 - dest)) + ((m * TypeWidth) + k)
<1> DEFINE W == TypeWidth
           p == m * W
<1>0. W \in Nat /\ W > 1 /\ k \in 0 .. W - 1
  BY Widths
<1>1. dest \in Nat /\ src \in Nat /\ dst8 \in Nat /\ dest <= dst8 /\ WordsOK
  BY DEF MemcpyOK
<1>2. /\ shift \in 0 .. W - 1
      /\ shift = 0 => src8 = src + (dst8 - dest)
      /\ shift # 0 => src8 = src + (dst8 - dest) - shift + W /\ srcWord = src8 - W
  BY <1>1 DEF WordsOK
<1>3. p \in Nat /\ (m - 1) * W = p - W /\ (m = 0 => p = 0)
  BY <1>0, Product
<1>4. Merged(m, k) = IF shift = 0 THEN src8 + p + k
                     ELSE IF k + shift < W THEN (IF m = 0 THEN srcWord ELSE src8 + (p - W)) + k + shift
                     ELSE src8 + p + k + shift - W
  BY <1>3 DEF Merged
<1> HIDE DEF W, p
<1>5. CASE shift = 0
  BY <1>0, <1>1, <1>2, <1>3, <1>4, <1>5 DEF W, p
<1>6. CASE shift # 0
  <2>1. Merged(m, k) = (src8 - W) + p + k + shift
    <3>1. CASE k + shift < W
      BY <1>0, <1>1, <1>2, <1>3, <1>4, <1>6, <3>1
    <3>2. CASE ~(k + shift < W)
      BY <1>0, <1>1, <1>2, <1>3, <1>4, <1>6, <3>2
    <3> QED
      BY <3>1, <3>2
  <2>2. (src8 - W) + p + k + shift = (src + (dst8 - dest)) + (p + k)
    BY <1>0, <1>1, <1>2, <1>3, <1>6
  <2> QED
    BY <2>1, <2>2 DEF W, p
<1> QED
  BY <1>5, <1>6

LEMMA CopyWordsStores ==
    ASSUME MemcpyOK, mpc = "words", NEW n \in Nat, CopyWords(n)
    PROVE  stored' = Image(dst8)'
<1> DEFINE W == TypeWidth
           bytes == [a \in dst8 .. dst8 + n * W - 1 |-> Merged((a - dst8) \div W, (a - dst8) % W)]
<1>0. W \in Nat /\ W > 1 /\ dst8 \in Nat /\ src \in Nat /\ dest \in Nat
  BY Widths DEF MemcpyOK
<1>1. Store(bytes) /\ dst8' = dst8 + n * W /\ UNCHANGED args
  BY DEF CopyWords
<1>2. n * W \in Nat
  BY <1>0, Product
<1>3. ASSUME NEW a \in dst8 .. dst8 + n * W - 1
      PROVE  Merged((a - dst8) \div W, (a - dst8) % W) = src + a - dest
  <2> DEFINE o == a - dst8
             m == o \div W
             k == o % W
  <2>1. o \in Nat
    BY <1>0, <1>2, <1>3
  <2> HIDE DEF o
  <2>2. m \in Nat /\ k \in 0 .. W - 1 /\ (m * W) + k = o
    BY <1>0, <2>1
  <2> HIDE DEF m, k
  <2>3. Merged(m, k) = (src + (dst8 - dest)) + o
    BY <2>2, MergedIs
  <2>4. (src + (dst8 - dest)) + o = src + a - dest
    BY <1>0, <1>2, <1>3 DEF o
  <2> QED
    BY <2>3, <2>4 DEF m, k, o
<1>4. DOMAIN bytes = dst8 .. dst8 + n * W - 1 /\ \A a \in dst8 .. dst8 + n * W - 1 : bytes[a] = src + a - dest
  BY <1>3
<1> HIDE DEF bytes
<1>5. stored' = Image(dst8 + n * W)
  <2> DEFINE p == n * W
  <2> HIDE DEF p
  <2>1. p \in Nat /\ DOMAIN bytes = dst8 .. dst8 + p - 1 /\ \A a \in dst8 .. dst8 + p - 1 : bytes[a] = src + a - dest
    BY <1>2, <1>4 DEF p
  <2>2. stored' = Image(dst8 + p)
    BY <1>1, <2>1, StoreBehind
  <2> QED
    BY <2>2 DEF p
<1> QED
  BY <1>1, <1>5 DEF Image, args

\* n words at once, each read from an aligned place that the source reaches.
LEMMA CopyWordsOK ==
    ASSUME MemcpyOK, mpc = "words", NEW n \in Nat, n > 0, n <= length, CopyWords(n)
    PROVE  MemcpyOK'
<1> DEFINE W == TypeWidth
           p == n * W
           l == length * W
           c == count % W
           off == dst8 - dest
<1>0. W \in Nat /\ W > 1
  BY Widths
<1>1. /\ dest \in Nat /\ src \in Nat /\ size \in Nat /\ dst8 \in Nat /\ dest <= dst8 /\ FetchedOK
      /\ WordsOK /\ off \in Nat
  BY DEF MemcpyOK
<1>2. /\ length \in Nat /\ count \in Nat /\ shift \in 0 .. W - 1
      /\ off + l + c = size
      /\ shift = 0 => src8 = src + off
      /\ shift # 0 => src8 = src + off - shift + W /\ srcWord = src8 - W
  BY <1>1 DEF WordsOK
<1>3. /\ fetched' = fetched \cup {src8 + m * W : m \in 0 .. n - 1}
      /\ srcWord' = (IF shift = 0 THEN srcWord ELSE src8 + (n - 1) * W)
      /\ dst8' = dst8 + p /\ src8' = src8 + p /\ length' = length - n
      /\ UNCHANGED <<args, count, shift, mpc>>
  BY DEF CopyWords
<1>4. p \in Nat /\ l \in Nat /\ (length - n) * W = l - p /\ (n - 1) * W = p - W
  BY <1>0, <1>2, Product
<1>5. length - n \in Nat /\ (length - n) * W \in Nat
  BY <1>0, <1>2, Product
<1>c. c \in Nat
  BY <1>0, <1>2
<1>6. p <= l /\ off + p <= size
  <2> HIDE DEF p, l, c, off, W
  <2>1. l - p \in Nat
    BY <1>4, <1>5
  <2> QED
    BY <1>1, <1>2, <1>4, <1>c, <2>1
<1>7. dst8' \in Nat /\ dest <= dst8' /\ dst8' - dest = off + p
  BY <1>1, <1>3, <1>4
<1>8. WordsOK'
  <2>1. (off + p) + ((length - n) * W) + c = size
    <3> DEFINE r == (length - n) * W
    <3>1. r = l - p
      BY <1>4
    <3> HIDE DEF p, l, c, off, W, r
    <3>2. (off + p) + r + c = size
      BY <1>1, <1>2, <1>4, <1>c, <3>1
    <3> QED
      BY <3>2 DEF r
  <2>2. shift # 0 => src8' = src + (off + p) - shift + W /\ srcWord' = src8' - W
    <3> HIDE DEF p, l, c, off, W
    <3> QED
      BY <1>0, <1>1, <1>2, <1>3, <1>4
  <2>3. shift = 0 => src8' = src + (off + p)
    <3> HIDE DEF p, l, c, off, W
    <3> QED
      BY <1>1, <1>2, <1>3, <1>4
  <2> HIDE DEF p, l, off
  <2> QED
    BY <1>2, <1>3, <1>5, <1>7, <2>1, <2>2, <2>3 DEF WordsOK, args, W, c
<1>9. FetchedOK'
  <2> SUFFICES ASSUME NEW a \in fetched'
               PROVE  \E b \in a .. a + W - 1 : b \in src .. src + size - 1
    BY <1>3 DEF FetchedOK, args
  <2>1. CASE a \in fetched
    BY <1>1, <2>1 DEF FetchedOK
  <2>2. ASSUME NEW m \in 0 .. n - 1, a = src8 + m * W
        PROVE  \E b \in a .. a + W - 1 : b \in src .. src + size - 1
    <3> DEFINE q == m * W
               x == src + off + q
    <3>1. q \in Nat /\ (n - 1 - m) * W = p - W - q
      BY <1>0, Product
    <3>2. (n - 1 - m) * W \in Nat
      BY <1>0, Product
    <3>3. q + W <= p
      <4> HIDE DEF p, q, W
      <4> QED
        BY <1>0, <1>4, <3>1, <3>2
    <3>a. a = src8 + q
      BY <2>2
    <3> HIDE DEF p, l, c, off, W, q
    <3>4. x \in src .. src + size - 1 /\ x + W - 1 \in src .. src + size - 1
      BY <1>0, <1>1, <1>4, <1>6, <3>1, <3>3
    <3>5. CASE shift = 0
      <4>1. x \in a .. a + W - 1
        BY <1>0, <1>1, <1>2, <3>1, <3>5, <3>a
      <4> QED
        BY <3>4, <4>1 DEF W
    <3>6. CASE shift # 0
      <4>1. x + W - 1 \in a .. a + W - 1
        BY <1>0, <1>1, <1>2, <3>1, <3>6, <3>a
      <4> QED
        BY <3>4, <4>1 DEF W
    <3> QED
      BY <3>5, <3>6
  <2> QED
    BY <1>3, <2>1, <2>2
<1>10. stored' = Image(dst8)'
  BY CopyWordsStores
<1> HIDE DEF W, p, l, c, off
<1> QED
  BY <1>1, <1>3, <1>7, <1>8, <1>9, <1>10 DEF MemcpyOK, args

LEMMA WordStepsOK == MemcpyOK /\ (CopyWord \/ CopyUnrolled) => MemcpyOK'
<1> SUFFICES ASSUME MemcpyOK, CopyWord \/ CopyUnrolled PROVE MemcpyOK'
  OBVIOUS
<1>1. mpc = "words" /\ length \in Nat
  BY DEF CopyWord, CopyUnrolled, MemcpyOK, WordsOK
<1>2. CASE CopyWord
  <2>1. length # 0
    BY <1>2, Widths DEF CopyWord
  <2> QED
    BY <1>1, <1>2, <2>1, CopyWordsOK DEF CopyWord
<1>3. CASE CopyUnrolled
  <2>1. length # 0 /\ length % Unroll = 0 /\ Unroll \in Nat \ {0} /\ CopyWords(Unroll)
    BY <1>3, Widths DEF CopyUnrolled
  <2>2. Unroll <= length
    BY <1>1, <2>1
  <2> QED
    BY <1>1, <2>1, <2>2, CopyWordsOK
<1> QED
  BY <1>2, <1>3

\* src8 goes back to the first byte that is not stored.
LEMMA EndWordsOK == MemcpyOK /\ EndWords => MemcpyOK'
<1> SUFFICES ASSUME MemcpyOK, EndWords PROVE MemcpyOK'
  OBVIOUS
<1>1. /\ mpc = "words" /\ length = 0 /\ mpc' = "rest" /\ count' = count % TypeWidth
      /\ src8' = (IF shift = 0 THEN src8 ELSE src8 + shift - TypeWidth)
      /\ UNCHANGED <<args, dst8, stored, fetched>>
  BY DEF EndWords
<1>2. /\ dest \in Nat /\ src \in Nat /\ size \in Nat /\ dst8 \in Nat /\ dest <= dst8 /\ WordsOK
      /\ stored = Image(dst8) /\ FetchedOK
  BY <1>1 DEF MemcpyOK
<1>3. 0 * TypeWidth = 0 /\ count % TypeWidth \in Nat
  BY <1>2, Widths DEF WordsOK
<1>4. (dst8 - dest) + count' = size
  <2>1. (dst8 - dest) + 0 + (count % TypeWidth) = size
    BY <1>1, <1>2, <1>3 DEF WordsOK
  <2> QED
    BY <1>1, <1>2, <1>3, <2>1
<1>5. src8' = src + (dst8 - dest)
  BY <1>1, <1>2, Widths DEF WordsOK
<1>6. RestOK'
  BY <1>1, <1>3, <1>4, <1>5 DEF RestOK, args
<1>7. FetchedOK'
  BY <1>1, <1>2 DEF FetchedOK, args
<1>8. stored' = Image(dst8)'
  BY <1>1, <1>2 DEF Image, args
<1> QED
  BY <1>1, <1>2, <1>6, <1>7, <1>8 DEF MemcpyOK, args

LEMMA MemcpyStepOK == MemcpyOK /\ MemcpyStep => MemcpyOK'
  BY AlignByteOK, FirstWordOK, WordStepsOK, EndWordsOK, RestByteOK DEF MemcpyStep

LEMMA MemcpyUnchanged == MemcpyOK /\ UNCHANGED memcpyVars => MemcpyOK'
  BY DEF MemcpyOK, memcpyVars, args, Image, FetchedOK, AlignOK, Aligned, WordsOK, RestOK

LEMMA MemcpyExact == MemcpyOK => CopiesExactly
<1> SUFFICES ASSUME MemcpyOK PROVE CopiesExactly
  OBVIOUS
<1>1. ASSUME Copied PROVE stored = [a \in dest .. dest + size - 1 |-> src + a - dest]
  <2>1. /\ dest \in Nat /\ size \in Nat /\ dst8 \in Nat /\ dest <= dst8 /\ stored = Image(dst8)
        /\ (dst8 - dest) + 0 = size
    BY <1>1 DEF Copied, MemcpyOK, RestOK
  <2>2. dst8 - 1 = dest + size - 1
    BY <2>1
  <2> QED
    BY <2>1, <2>2 DEF Image
<1>2. FetchedOK
  BY DEF MemcpyOK, FetchedOK
<1> QED
  BY <1>1, <1>2 DEF CopiesExactly, FetchedOK
-----------------------------------------------------------------------------
\* A set of naturals has a least element.
LEMMA LeastOf ==
    ASSUME NEW T, T \subseteq Nat, T # {}
    PROVE  \E x \in T : \A y \in T : x <= y
<1> DEFINE R == OpToRel(<, Nat)
<1>1. IsWellFoundedOn(R, Nat)
  BY NatLessThanWellFounded
<1>2. \A x, y \in Nat : y < x => <<y, x>> \in R
  BY DEF OpToRel
<1> HIDE DEF R
<1>3. PICK x \in T : \A y \in T : ~(<<y, x>> \in R)
  BY <1>1, WFMin
<1>4. ASSUME NEW y \in T PROVE x <= y
  <2>1. x \in Nat /\ y \in Nat /\ ~(<<y, x>> \in R)
    BY <1>3, <1>4
  <2>2. ~(y < x)
    BY <1>2, <2>1
  <2> QED
    BY <2>1, <2>2
<1> QED
  BY <1>4

\* Step by step up to n.
LEMMA UpToN ==
    ASSUME NEW n \in Nat, NEW T, 0 \in T, \A k \in 1 .. n : k - 1 \in T => k \in T
    PROVE  \A k \in 0 .. n : k \in T
<1> DEFINE S == {k \in 0 .. n : k \notin T}
<1> SUFFICES ASSUME S # {} PROVE FALSE
  OBVIOUS
<1>1. S \subseteq Nat
  OBVIOUS
<1> HIDE DEF S
<1>2. PICK k \in S : \A l \in S : k <= l
  BY <1>1, LeastOf
<1>3. k \in 1 .. n /\ k \notin T
  BY <1>2 DEF S
<1>4. k - 1 \in 0 .. n /\ ~(k <= k - 1) /\ k - 1 \in T
  BY <1>2, <1>3 DEF S
<1> QED
  BY <1>3, <1>4

\* A function of 0 .. n may be defined by what it is at 0 and how it goes on.
Steps(f, x, n, step) == f[0] = x /\ \A k \in 1 .. n : f[k] = step[k][f[k - 1]]

LEMMA StepsExist ==
    ASSUME NEW V, NEW x \in V, NEW n \in Nat, NEW step \in [1 .. n -> [V -> V]]
    PROVE  \E f \in [0 .. n -> V] : Steps(f, x, n, step)
<1> USE DEF Steps
<1> DEFINE T == {m \in 0 .. n : ~\E f \in [0 .. m -> V] : Steps(f, x, m, step)}
<1> SUFFICES ASSUME T # {} PROVE FALSE
  OBVIOUS
<1>1. T \subseteq Nat /\ T # {}
  OBVIOUS
<1> HIDE DEF T
<1>2. PICK m \in T : \A l \in T : m <= l
  BY <1>1, LeastOf
<1>3. m \in 0 .. n /\ ~\E f \in [0 .. m -> V] : Steps(f, x, m, step)
  BY <1>2 DEF T
<1>4. CASE m = 0
  <2> DEFINE f == [k \in 0 .. 0 |-> x]
  <2>1. f \in [0 .. 0 -> V] /\ Steps(f, x, 0, step)
    OBVIOUS
  <2> QED
    BY <1>3, <1>4, <2>1
<1>5. CASE m # 0
  <2>1. m - 1 \in 0 .. n /\ m \in 1 .. n /\ ~(m <= m - 1)
    BY <1>3, <1>5
  <2>2. PICK f \in [0 .. m - 1 -> V] : Steps(f, x, m - 1, step)
    BY <1>2, <2>1 DEF T
  <2> DEFINE g == [k \in 0 .. m |-> IF k = m THEN step[m][f[m - 1]] ELSE f[k]]
  <2>3. step[m][f[m - 1]] \in V
    BY <2>1
  <2>4. g \in [0 .. m -> V]
    BY <2>1, <2>3
  <2>5. ASSUME NEW k \in 1 .. m PROVE g[k] = step[k][g[k - 1]]
    <3>1. CASE k = m
      BY <2>1, <3>1
    <3>2. CASE k # m
      BY <2>1, <2>2, <2>5, <3>2
    <3> QED
      BY <3>1, <3>2
  <2>6. g[0] = x
    BY <2>1, <2>2
  <2> QED
    BY <1>3, <2>4, <2>5, <2>6
<1> QED
  BY <1>4, <1>5

\* v is the value of s, digit by digit.
Values(v, s, base) ==
    /\ v \in [0 .. Len(s) -> Int] /\ v[0] = 0
    /\ \A k \in 1 .. Len(s) : v[k] = v[k - 1] * base + Numeral(s[k])

LEMMA NumeralInt ==
    ASSUME NEW s \in Seq(Nat), NEW k \in 1 .. Len(s)
    PROVE  s[k] \in Nat /\ Numeral(s[k]) \in Int
<1>1. s[k] \in Nat
  BY ElementOfSeq
<1> QED
  BY <1>1 DEF Numeral, Zero

\* The recursive function of Reads exists, and is what it is defined to be.
LEMMA ReadsValue ==
    ASSUME NEW s \in Seq(Nat), NEW base \in Nat
    PROVE  \E v : Values(v, s, base) /\ Reads(s, base) = v[Len(s)]
<1> DEFINE n == Len(s)
           step == [k \in 1 .. n |-> [v \in Int |-> v * base + Numeral(s[k])]]
           Eq(f) == f = [k \in 0 .. n |-> IF k = 0 THEN 0 ELSE f[k - 1] * base + Numeral(s[k])]
           c == CHOOSE f : Eq(f)
<1> HIDE DEF c
<1>1. n \in Nat
  BY LenProperties
<1>2. step \in [1 .. n -> [Int -> Int]]
  BY NumeralInt
<1>3. PICK f \in [0 .. n -> Int] : f[0] = 0 /\ \A k \in 1 .. n : f[k] = step[k][f[k - 1]]
  <2> HIDE DEF step, n
  <2>1. 0 \in Int
    OBVIOUS
  <2>2. \E f \in [0 .. n -> Int] : Steps(f, 0, n, step)
    BY <1>1, <1>2, <2>1, StepsExist, Zenon
  <2> QED
    BY <2>2 DEF Steps
<1>4. ASSUME NEW k \in 1 .. n PROVE f[k] = f[k - 1] * base + Numeral(s[k])
  <2>0. k - 1 \in 0 .. n
    BY <1>1, <1>4
  <2>1. f[k - 1] \in Int
    BY <1>3, <2>0
  <2>2. step[k] = [v \in Int |-> v * base + Numeral(s[k])]
    BY <1>4
  <2>3. f[k] = step[k][f[k - 1]]
    BY <1>3, <1>4
  <2> HIDE DEF step
  <2> QED
    BY <2>1, <2>2, <2>3
<1>5. Eq(f)
  <2> HIDE DEF step
  <2> QED
    BY <1>1, <1>3, <1>4
<1>6. Eq(c)
  <2> HIDE DEF Eq
  <2> QED
    BY <1>5, Zenon DEF c
<1>7. c[0] = 0 /\ \A k \in 1 .. n : c[k] = c[k - 1] * base + Numeral(s[k])
  <2> HIDE DEF n
  <2>1. \A k \in 0 .. n : c[k] = IF k = 0 THEN 0 ELSE c[k - 1] * base + Numeral(s[k])
    BY <1>6, Zenon
  <2> QED
    BY <1>1, <2>1
<1>8. \A k \in 0 .. n : c[k] = f[k]
  <2> HIDE DEF n, step, Eq
  <2>1. \A k \in 1 .. n : c[k - 1] = f[k - 1] => c[k] = f[k]
    BY <1>4, <1>7
  <2> DEFINE T == {k \in 0 .. n : c[k] = f[k]}
  <2>2. 0 \in T
    BY <1>1, <1>3, <1>7
  <2>3. \A k \in 1 .. n : k - 1 \in T => k \in T
    BY <1>1, <2>1
  <2> HIDE DEF T
  <2>4. \A k \in 0 .. n : k \in T
    BY <1>1, <2>2, <2>3, UpToN
  <2> QED
    BY <2>4 DEF T
<1>9. Reads(s, base) = c[n]
  BY Zenon DEF Reads, c
<1>10. c[n] = f[n]
  BY <1>1, <1>8
<1> QED
  BY <1>3, <1>4, <1>9, <1>10 DEF Values

\* It is the only one.
LEMMA ReadsIs ==
    ASSUME NEW s \in Seq(Nat), NEW base \in Nat, NEW v, Values(v, s, base)
    PROVE  Reads(s, base) = v[Len(s)]
<1>1. PICK w : Values(w, s, base) /\ Reads(s, base) = w[Len(s)]
  BY ReadsValue
<1> DEFINE n == Len(s)
<1>2. n \in Nat
  BY LenProperties
<1>3. v[0] = w[0] /\ \A k \in 1 .. n : v[k - 1] = w[k - 1] => v[k] = w[k]
  BY <1>1 DEF Values
<1> HIDE DEF n
<1> DEFINE T == {k \in 0 .. n : v[k] = w[k]}
<1>4. 0 \in T /\ \A k \in 1 .. n : k - 1 \in T => k \in T
  BY <1>2, <1>3
<1>5. v[n] = w[n]
  <2> HIDE DEF T
  <2>0. \A k \in 0 .. n : k \in T
    BY <1>2, <1>4, UpToN
  <2>a. n \in 0 .. n
    BY <1>2
  <2>1. n \in T
    BY <2>0, <2>a
  <2> QED
    BY <2>1 DEF T
<1> QED
  BY <1>1, <1>5 DEF n

LEMMA ReadsEmpty ==
    ASSUME NEW base \in Nat
    PROVE  Reads(<<>>, base) = 0
<1>1. <<>> \in Seq(Nat) /\ Len(<<>>) = 0
  OBVIOUS
<1>2. PICK v : Values(v, <<>>, base) /\ Reads(<<>>, base) = v[Len(<<>>)]
  BY <1>1, ReadsValue
<1> QED
  BY <1>1, <1>2 DEF Values

\* A digit behind a number, and zeros in front of it.
LEMMA ReadsAppend ==
    ASSUME NEW s \in Seq(Nat), NEW c \in Nat, NEW base \in Nat
    PROVE  Reads(Append(s, c), base) = Reads(s, base) * base + Numeral(c)
<1> DEFINE t == Append(s, c)
           n == Len(s)
<1>1. n \in Nat /\ t \in Seq(Nat) /\ Len(t) = n + 1 /\ t[n + 1] = c /\ \A k \in 1 .. n : t[k] = s[k]
  BY AppendProperties, LenProperties
<1>2. PICK v : Values(v, s, base) /\ Reads(s, base) = v[n]
  BY ReadsValue
<1> DEFINE last == v[n] * base + Numeral(c)
           w == [k \in 0 .. n + 1 |-> IF k = n + 1 THEN last ELSE v[k]]
<1>3. last \in Int
  <2>1. v \in [0 .. n -> Int] /\ n \in 0 .. n
    BY <1>1, <1>2 DEF Values
  <2>2. Numeral(c) \in Int /\ v[n] \in Int
    BY <2>1 DEF Numeral, Zero
  <2> QED
    BY <2>2
<1>4. Values(w, t, base)
  <2> HIDE DEF t, n, last
  <2>1. v \in [0 .. n -> Int] /\ v[0] = 0 /\ \A k \in 1 .. n : v[k] = v[k - 1] * base + Numeral(s[k])
    BY <1>2 DEF Values, n
  <2>2. w \in [0 .. n + 1 -> Int] /\ w[0] = 0
    BY <1>1, <1>3, <2>1
  <2>3. ASSUME NEW k \in 1 .. n + 1 PROVE w[k] = w[k - 1] * base + Numeral(t[k])
    <3>1. CASE k = n + 1
      <4>1. w[k] = last /\ w[k - 1] = v[n] /\ t[k] = c
        BY <1>1, <2>3, <3>1
      <4> QED
        BY <4>1 DEF last
    <3>2. CASE k # n + 1
      <4>1. k \in 1 .. n
        BY <1>1, <2>3, <3>2
      <4>2. w[k] = v[k] /\ w[k - 1] = v[k - 1] /\ t[k] = s[k]
        BY <1>1, <4>1
      <4> QED
        BY <2>1, <4>1, <4>2
    <3> QED
      BY <3>1, <3>2
  <2> QED
    BY <1>1, <2>2, <2>3 DEF Values
<1>5. w[n + 1] = last
  BY <1>1
<1> HIDE DEF w, last, t
<1>6. Reads(t, base) = w[n + 1]
  BY <1>1, <1>4, ReadsIs
<1> QED
  BY <1>2, <1>5, <1>6 DEF t, last

LEMMA FillIs ==
    ASSUME NEW c \in Nat, NEW n \in Int
    PROVE  /\ Fill(c, n) \in Seq(Nat) /\ Len(Fill(c, n)) = (IF n > 0 THEN n ELSE 0)
           /\ \A k \in 1 .. n : Fill(c, n)[k] = c
<1>1. CASE n > 0
  <2>1. n \in Nat /\ \A k \in 1 .. n : c \in Nat
    BY <1>1
  <2>2. Fill(c, n) \in Seq(Nat) /\ Len(Fill(c, n)) = n
    BY <2>1, IsASeq DEF Fill
  <2> QED
    BY <1>1, <2>2 DEF Fill
<1>2. CASE ~(n > 0)
  <2>1. 1 .. n = 1 .. 0
    BY <1>2
  <2>2. Fill(c, n) = [k \in 1 .. 0 |-> c]
    BY <2>1 DEF Fill
  <2>3. Fill(c, n) \in Seq(Nat) /\ Len(Fill(c, n)) = 0
    BY <2>2, IsASeq
  <2> QED
    BY <1>2, <2>1, <2>3
<1> QED
  BY <1>1, <1>2

LEMMA ReadsZeros ==
    ASSUME NEW n \in Nat, NEW s \in Seq(Nat), NEW base \in Nat
    PROVE  Reads(Fill(Zero, n) \o s, base) = Reads(s, base)
<1> DEFINE z == Fill(Zero, n)
           t == z \o s
           m == Len(s)
<1>1. Zero \in Nat
  BY DEF Zero
<1>a. m \in Nat /\ n \in Int
  BY LenProperties
<1>b. z \in Seq(Nat) /\ Len(z) = (IF n > 0 THEN n ELSE 0) /\ \A k \in 1 .. n : z[k] = Zero
  BY <1>1, <1>a, FillIs
<1> HIDE DEF z, m
<1>2. z \in Seq(Nat) /\ Len(z) = n /\ m \in Nat /\ \A k \in 1 .. n : z[k] = Zero
  BY <1>a, <1>b
<1>3. /\ t \in Seq(Nat) /\ Len(t) = n + m
      /\ \A k \in 1 .. n + m : t[k] = IF k <= n THEN z[k] ELSE s[k - n]
  BY <1>2, ConcatProperties DEF m
<1>4. PICK v : Values(v, s, base) /\ Reads(s, base) = v[m]
  BY ReadsValue DEF m
<1>5. v \in [0 .. m -> Int] /\ v[0] = 0 /\ \A k \in 1 .. m : v[k] = v[k - 1] * base + Numeral(s[k])
  BY <1>4 DEF Values, m
<1> DEFINE w == [k \in 0 .. n + m |-> IF k <= n THEN 0 ELSE v[k - n]]
<1>6. Values(w, t, base)
  <2> HIDE DEF t
  <2>1. w \in [0 .. n + m -> Int] /\ w[0] = 0
    <3>1. ASSUME NEW k \in 0 .. n + m, ~(k <= n) PROVE v[k - n] \in Int
      <4>1. k - n \in 0 .. m
        BY <1>2, <3>1
      <4> QED
        BY <1>5, <4>1
    <3>2. \A k \in 0 .. n + m : (IF k <= n THEN 0 ELSE v[k - n]) \in Int
      BY <3>1
    <3>3. 0 \in 0 .. n + m /\ 0 <= n
      BY <1>2
    <3> QED
      BY <3>2, <3>3
  <2>2. ASSUME NEW k \in 1 .. n + m PROVE w[k] = w[k - 1] * base + Numeral(t[k])
    <3>1. CASE k <= n
      <4>1. k \in 1 .. n /\ k - 1 \in 0 .. n + m /\ k - 1 <= n
        BY <1>2, <2>2, <3>1
      <4>2. w[k] = 0 /\ w[k - 1] = 0 /\ t[k] = Zero
        BY <1>2, <1>3, <2>2, <3>1, <4>1
      <4> HIDE DEF w
      <4> QED
        BY <4>2 DEF Numeral, Zero
    <3>2. CASE k > n
      <4> DEFINE j == k - n
      <4>1. j \in 1 .. m /\ k - 1 \in 0 .. n + m /\ (k - 1) - n = j - 1 /\ ~(k <= n)
        BY <1>2, <2>2, <3>2
      <4>2. w[k] = v[j] /\ t[k] = s[j]
        BY <1>3, <2>2, <4>1
      <4>3. w[k - 1] = v[j - 1]
        <5>1. CASE k - 1 <= n
          <6>1. j - 1 = 0
            BY <1>2, <2>2, <3>2, <5>1
          <6> QED
            BY <1>5, <4>1, <5>1, <6>1
        <5>2. CASE ~(k - 1 <= n)
          BY <4>1, <5>2
        <5> QED
          BY <5>1, <5>2
      <4> HIDE DEF w, j
      <4> QED
        BY <1>5, <4>1, <4>2, <4>3
    <3> QED
      BY <1>2, <2>2, <3>1, <3>2
  <2> QED
    BY <1>3, <2>1, <2>2 DEF Values
<1>7. w[n + m] = v[m]
  <2>1. CASE m = 0
    BY <1>2, <1>5, <2>1
  <2>2. CASE m # 0
    BY <1>2, <2>2
  <2> QED
    BY <2>1, <2>2
<1> HIDE DEF w, t
<1>8. Reads(t, base) = w[n + m]
  BY <1>3, <1>6, ReadsIs
<1> QED
  BY <1>4, <1>7, <1>8 DEF t, z
-----------------------------------------------------------------------------
\* r is what is left of n after each digit, and after o digits nothing is.
Digitwise(r, n) ==
    /\ r \in [0 .. n -> Int] /\ r[0] = n
    /\ \A k \in 1 .. n : r[k] = r[k - 1] \div 10

Offset(r, n, o) == o \in 0 .. n /\ r[o] = 0 /\ \A j \in 0 .. o - 1 : r[j] # 0

\* The recursive function of Itoa exists, and comes to 0.
LEMMA ItoaIs ==
    ASSUME NEW n \in Nat, n # 0
    PROVE  \E r, o : /\ Digitwise(r, n) /\ Offset(r, n, o)
                     /\ Itoa(n) = [k \in 1 .. o |-> Zero + (r[o - k] % 10)]
<1> DEFINE step == [k \in 1 .. n |-> [v \in Int |-> v \div 10]]
           Eq(f) == f = [k \in 0 .. n |-> IF k = 0 THEN n ELSE f[k - 1] \div 10]
           r == CHOOSE f : Eq(f)
           o == CHOOSE k \in 0 .. n : r[k] = 0 /\ \A j \in 0 .. k - 1 : r[j] # 0
<1> HIDE DEF r, o
<1>1. PICK f \in [0 .. n -> Int] : f[0] = n /\ \A k \in 1 .. n : f[k] = step[k][f[k - 1]]
  <2>1. n \in Int /\ step \in [1 .. n -> [Int -> Int]]
    OBVIOUS
  <2> HIDE DEF step
  <2>2. \E f \in [0 .. n -> Int] : Steps(f, n, n, step)
    BY <2>1, StepsExist, Zenon
  <2> QED
    BY <2>2 DEF Steps
<1>2. ASSUME NEW k \in 1 .. n PROVE f[k] = f[k - 1] \div 10
  <2>1. k - 1 \in 0 .. n
    BY <1>2
  <2>2. f[k - 1] \in Int /\ step[k] = [v \in Int |-> v \div 10] /\ f[k] = step[k][f[k - 1]]
    BY <1>1, <1>2, <2>1
  <2> HIDE DEF step
  <2> QED
    BY <2>2
<1> HIDE DEF step
<1>3. Eq(f)
  BY <1>1, <1>2
<1>4. Eq(r)
  <2> HIDE DEF Eq
  <2> QED
    BY <1>3, Zenon DEF r
<1>5. \A k \in 0 .. n : r[k] = IF k = 0 THEN n ELSE r[k - 1] \div 10
  BY <1>4, Zenon
<1>6. r[0] = n /\ \A k \in 1 .. n : r[k] = r[k - 1] \div 10
  BY <1>5
<1>7. Itoa(n) = [k \in 1 .. o |-> Zero + (r[o - k] % 10)]
  <2> HIDE DEF Eq
  <2> QED
    BY Zenon DEF Itoa, o, r, Eq
<1> HIDE DEF Eq
<1>8. \A k \in 0 .. n : r[k] \in Nat /\ r[k] <= n - k
  <2> DEFINE T == {k \in 0 .. n : r[k] \in Nat /\ r[k] <= n - k}
  <2>1. 0 \in T
    BY <1>6
  <2>2. ASSUME NEW k \in 1 .. n, k - 1 \in T PROVE k \in T
    <3>1. r[k - 1] \in Nat /\ r[k - 1] <= n - (k - 1) /\ r[k] = r[k - 1] \div 10
      BY <1>6, <2>2
    <3> DEFINE x == r[k - 1]
    <3> HIDE DEF x
    <3>2. x \in Nat /\ x <= n - (k - 1) /\ k \in 1 .. n
      BY <2>2, <3>1 DEF x
    <3>3. x \div 10 \in Nat /\ x \div 10 <= n - k
      BY <3>2
    <3> QED
      BY <3>1, <3>2, <3>3 DEF x
  <2> HIDE DEF T
  <2>3. \A k \in 0 .. n : k \in T
    BY <2>1, <2>2, UpToN
  <2> QED
    BY <2>3 DEF T
<1>9. \E k \in 0 .. n : r[k] = 0 /\ \A j \in 0 .. k - 1 : r[j] # 0
  <2> DEFINE T == {k \in 0 .. n : r[k] = 0}
  <2>1. n \in 0 .. n /\ r[n] \in Nat /\ r[n] <= n - n
    BY <1>8
  <2>2. n \in T
    BY <2>1
  <2>3. T \subseteq Nat /\ T # {}
    BY <2>2
  <2> HIDE DEF T
  <2>4. PICK k \in T : \A l \in T : k <= l
    BY <2>3, LeastOf
  <2>5. ASSUME NEW j \in 0 .. k - 1 PROVE r[j] # 0
    <3>1. j \in 0 .. n /\ ~(k <= j)
      BY <2>4, <2>5 DEF T
    <3> QED
      BY <2>4, <3>1 DEF T
  <2> QED
    BY <2>4, <2>5 DEF T
<1>10. Offset(r, n, o)
  BY <1>9, Zenon DEF o, Offset
<1>11. Digitwise(r, n)
  <2>1. \A k \in 0 .. n : r[k] = f[k]
    <3> DEFINE T == {k \in 0 .. n : r[k] = f[k]}
    <3>1. 0 \in T
      BY <1>1, <1>6
    <3>2. \A k \in 1 .. n : k - 1 \in T => k \in T
      BY <1>2, <1>6
    <3> HIDE DEF T
    <3>3. \A k \in 0 .. n : k \in T
      BY <3>1, <3>2, UpToN
    <3> QED
      BY <3>3 DEF T
  <2>2. r = [k \in 0 .. n |-> IF k = 0 THEN n ELSE r[k - 1] \div 10]
    BY <1>4 DEF Eq
  <2>3. r = [k \in 0 .. n |-> r[k]]
    BY <2>2
  <2>4. r \in [0 .. n -> Int]
    BY <1>8, <2>3
  <2> QED
    BY <1>6, <2>4 DEF Digitwise
<1> QED
  BY <1>7, <1>10, <1>11

\* itoa prints a number that reads as n, with no zero in front.
LEMMA ItoaOK ==
    ASSUME NEW n \in Nat
    PROVE  /\ Itoa(n) \in Seq(Nat) /\ IsNumber(Itoa(n)) /\ NoZeroInFront(Itoa(n))
           /\ Reads(Itoa(n), 10) = n
<1>1. CASE n = 0
  <2>1. Itoa(n) = <<Zero>> /\ <<Zero>> = Append(<<>>, Zero) /\ <<>> \in Seq(Nat) /\ Zero \in Nat
    BY <1>1 DEF Itoa, Zero
  <2>2. Reads(<<Zero>>, 10) = Reads(<<>>, 10) * 10 + Numeral(Zero)
    BY <2>1, ReadsAppend
  <2>3. Reads(<<>>, 10) = 0 /\ Numeral(Zero) = 0
    BY ReadsEmpty DEF Numeral, Zero
  <2> DEFINE s == <<Zero>>
  <2>4. s \in Seq(Nat) /\ Len(s) = 1 /\ s # <<>> /\ s[1] = Zero /\ DOMAIN s = 1 .. 1
    BY <2>1
  <2> HIDE DEF s
  <2>5. IsNumber(s) /\ NoZeroInFront(s)
    BY <2>4 DEF IsNumber, NoZeroInFront, Zero
  <2>6. Itoa(n) = s /\ Reads(s, 10) = n
    BY <1>1, <2>1, <2>2, <2>3 DEF s
  <2> QED
    BY <2>4, <2>5, <2>6
<1>2. CASE n # 0
  <2>1. PICK r, o : /\ Digitwise(r, n) /\ Offset(r, n, o)
                    /\ Itoa(n) = [k \in 1 .. o |-> Zero + (r[o - k] % 10)]
    BY <1>2, ItoaIs
  <2> DEFINE s == [k \in 1 .. o |-> Zero + (r[o - k] % 10)]
  <2>2. /\ r \in [0 .. n -> Int] /\ r[0] = n /\ \A k \in 1 .. n : r[k] = r[k - 1] \div 10
        /\ o \in 0 .. n /\ r[o] = 0 /\ \A j \in 0 .. o - 1 : r[j] # 0
    BY <2>1 DEF Digitwise, Offset
  <2>3. o \in 1 .. n
    BY <1>2, <2>2
  <2>4. ASSUME NEW k \in 1 .. o PROVE r[o - k] \in Int /\ o - k \in 0 .. n /\ s[k] \in 48 .. 57
    <3>1. o - k \in 0 .. n
      BY <2>3, <2>4
    <3>2. r[o - k] \in Int /\ s[k] = Zero + (r[o - k] % 10)
      BY <2>2, <2>4, <3>1
    <3> DEFINE x == r[o - k]
    <3> HIDE DEF x
    <3>3. x % 10 \in 0 .. 9
      BY <3>2 DEF x
    <3>4. s[k] \in 48 .. 57
      BY <3>2, <3>3 DEF x, Zero
    <3> QED
      BY <3>1, <3>2, <3>4
  <2>5. s \in Seq(Nat) /\ Len(s) = o /\ DOMAIN s = 1 .. o
    <3>1. \A k \in 1 .. o : Zero + (r[o - k] % 10) \in Nat
      BY <2>4
    <3>2. o \in Nat
      BY <2>3
    <3> QED
      BY <3>1, <3>2, IsASeq
  <2> DEFINE w == [k \in 0 .. o |-> r[o - k]]
  <2>6. Values(w, s, 10)
    <3>1. w \in [0 .. o -> Int]
      <4>1. \A k \in 0 .. o : o - k \in 0 .. n
        BY <2>3
      <4> QED
        BY <2>2, <4>1
    <3>2. w[0] = 0
      BY <2>2, <2>3
    <3>3. ASSUME NEW k \in 1 .. o PROVE w[k] = w[k - 1] * 10 + Numeral(s[k])
      <4> DEFINE x == r[o - k]
      <4>1. x \in Int /\ o - k \in 0 .. n
        BY <2>4, <3>3
      <4>2. (o - k) + 1 \in 1 .. n /\ ((o - k) + 1) - 1 = o - k /\ o - (k - 1) = (o - k) + 1
        BY <2>3, <3>3
      <4>3. r[(o - k) + 1] = x \div 10
        BY <2>2, <4>2
      <4>4. w[k] = x /\ w[k - 1] = r[(o - k) + 1] /\ s[k] = Zero + (x % 10)
        BY <2>3, <3>3, <4>2
      <4> HIDE DEF w, s, x
      <4>5. x = ((x \div 10) * 10) + (x % 10) /\ x % 10 \in 0 .. 9
        BY <4>1
      <4>6. Numeral(s[k]) = x % 10
        BY <4>4, <4>5 DEF Numeral, Zero
      <4> QED
        BY <4>3, <4>4, <4>5, <4>6
    <3> HIDE DEF w, s
    <3> QED
      BY <2>5, <3>1, <3>2, <3>3 DEF Values
  <2>7. w[o] = n
    BY <2>2, <2>3
  <2> HIDE DEF w
  <2>8. Reads(s, 10) = n
    <3> HIDE DEF s
    <3> QED
      BY <2>5, <2>6, <2>7, ReadsIs
  <2>9. s # <<>>
    <3> HIDE DEF s
    <3> QED
      BY <2>3, <2>5, EmptySeq
  <2>10. IsNumber(s)
    <3> HIDE DEF s
    <3> QED
      BY <2>4, <2>5, <2>9 DEF IsNumber
  <2>11. s[1] # Zero
    <3> DEFINE x == r[o - 1]
    <3>1. 1 \in 1 .. o /\ o - 1 \in 0 .. o - 1 /\ x \in Int
      BY <2>3, <2>4
    <3>2. x # 0 /\ x \div 10 = 0
      BY <2>2, <2>3, <3>1
    <3>3. s[1] = Zero + (x % 10)
      BY <3>1
    <3> HIDE DEF x, s
    <3>4. x % 10 # 0
      BY <3>1, <3>2
    <3>5. x % 10 \in Int
      BY <3>1
    <3> QED
      BY <3>3, <3>4, <3>5 DEF Zero
  <2> QED
    BY <2>1, <2>5, <2>8, <2>10, <2>11 DEF NoZeroInFront
<1> QED
  BY <1>1, <1>2
-----------------------------------------------------------------------------
\* The powers of base: the least set that holds 1 and goes on by the factor base.
IsPower(e, base) ==
    \A S \in SUBSET Nat : 1 \in S /\ (\A x \in S : x * base \in S) => e \in S

LEMMA PowerOne ==
    ASSUME NEW base \in {10, 16}
    PROVE  IsPower(1, base)
  BY DEF IsPower

LEMMA PowerTimes ==
    ASSUME NEW base \in {10, 16}, NEW e, IsPower(e, base)
    PROVE  IsPower(e * base, base)
<1> SUFFICES ASSUME NEW S \in SUBSET Nat, 1 \in S, \A x \in S : x * base \in S
             PROVE  e * base \in S
  BY DEF IsPower
<1>1. e \in S
  BY DEF IsPower
<1> QED
  BY <1>1

\* A power but 1 is the base times another.
LEMMA PowerIs ==
    ASSUME NEW base \in {10, 16}, NEW e, IsPower(e, base)
    PROVE  /\ e \in Nat \ {0}
           /\ e = 1 \/ (IsPower(e \div base, base) /\ e \div base \in Nat \ {0} /\ e = (e \div base) * base)
<1> DEFINE S == {x \in Nat \ {0} : IsPower(x, base)}
           T == {x \in S : x = 1 \/ \E y \in S : x = y * base}
<1>1. 1 \in S
  BY PowerOne
<1>2. ASSUME NEW x \in S PROVE x * base \in S
  <2>1. x * base \in Nat \ {0}
    BY <1>2
  <2>2. IsPower(x * base, base)
    BY <1>2, PowerTimes
  <2> QED
    BY <2>1, <2>2
<1>3. T \in SUBSET Nat /\ T \subseteq S
  OBVIOUS
<1>4. 1 \in T /\ \A x \in T : x * base \in T
  <2> HIDE DEF S
  <2> QED
    BY <1>1, <1>2
<1>5. e \in T
  <2> HIDE DEF T
  <2> QED
    BY <1>3, <1>4 DEF IsPower
<1>6. CASE e = 1
  BY <1>6
<1>7. CASE e # 1
  <2>1. PICK y \in S : e = y * base
    BY <1>5, <1>7
  <2>2. y \in Nat \ {0} /\ IsPower(y, base)
    BY <2>1
  <2>3. (y * base) \div base = y /\ y * base \in Nat \ {0}
    BY <2>2
  <2> QED
    BY <2>1, <2>2, <2>3
<1> QED
  BY <1>6, <1>7

\* Division and the bound that Scale tests.
LEMMA DivBound ==
    ASSUME NEW x \in Nat, NEW e \in Nat, e # 0, NEW base \in {10, 16}
    PROVE  /\ x \div e \in Nat /\ x % e \in 0 .. e - 1 /\ x = ((x \div e) * e) + (x % e)
           /\ x \div e >= base => e * base <= x
           /\ x \div e < base => x < e * base
<1> DEFINE q == x \div e
           r == x % e
<1>1. q \in Nat /\ r \in 0 .. e - 1 /\ x = (q * e) + r
  OBVIOUS
<1> HIDE DEF q, r
<1>2. ASSUME q >= base PROVE e * base <= x
  <2>1. (q - base) * e \in Nat
    BY <1>1, <1>2, Product
  <2>2. q * e >= base * e
    BY <1>1, <1>2, <2>1
  <2> QED
    BY <1>1, <2>2
<1>3. ASSUME q < base PROVE x < e * base
  <2>1. (base - 1 - q) * e \in Nat
    BY <1>1, <1>3, Product
  <2>2. q * e <= (base - 1) * e
    BY <1>1, <1>3, <2>1
  <2> QED
    BY <1>1, <2>2
<1> QED
  BY <1>1, <1>2, <1>3 DEF q, r

Numerals == (48 .. 57) \cup (97 .. 102)

LEMMA DigitIs ==
    ASSUME NEW q \in 0 .. 15
    PROVE  Digit(q) \in Numerals /\ Digit(q) \in Nat /\ Numeral(Digit(q)) = q /\ (q > 0 => Digit(q) # Zero)
<1>1. CASE q < 10
  BY <1>1 DEF Digit, Numeral, Numerals, Zero
<1>2. CASE q >= 10
  BY <1>2 DEF Digit, Numeral, Numerals, Zero
<1> QED
  BY <1>1, <1>2
-----------------------------------------------------------------------------
DirectiveType == [left : BOOLEAN, lz : BOOLEAN, alt : BOOLEAN, width : Nat, conv : {"d", "u", "x", "s"}]

Numeric == dir.conv # "s"

\* A directive and an argument for it.
AskedOK ==
    /\ dir \in DirectiveType
    /\ dir.conv = "s" => arg \in Seq(Nat)
    /\ Numeric => arg[1] \in 1 - Modulus .. Modulus - 1

SignOf == IF dir.conv = "d" /\ arg[1] < 0 THEN <<Minus>> ELSE <<>>

\* d is a power of the base that does not pass num, so it never wraps.
ScaleOK ==
    /\ num = Magnitude /\ num \in 0 .. Modulus - 1 /\ bf = <<>>
    /\ IsPower(d, Base) /\ (d = 1 \/ d <= num)

\* The digits so far, what is left of the number, and no zero in front.
DigitsOK ==
    /\ num \in Nat /\ bf \in Seq(Nat) /\ \A k \in 1 .. Len(bf) : bf[k] \in Numerals
    /\ d = 0 => bf # <<>> /\ Reads(bf, Base) = Magnitude
    /\ d # 0 => /\ IsPower(d, Base) /\ num < d * Base
                /\ Magnitude = (Reads(bf, Base) * (d * Base)) + num
    /\ bf # <<>> => bf[1] # Zero \/ (d = 0 /\ Len(bf) = 1)

\* The characters that putchw puts between the fills.
PutOK ==
    IF Numeric THEN /\ bf \in Seq(Nat) /\ bf # <<>> /\ \A k \in 1 .. Len(bf) : bf[k] \in Numerals
                    /\ Reads(bf, Base) = Magnitude /\ NoZeroInFront(bf)
               ELSE bf = arg /\ sign = <<>>

\* What vsnprintf leaves in the buffer.
TextOK ==
    /\ text \in Seq(Nat) /\ Len(text) < DebugSize
    /\ \/ Len(text) = DebugSize - 1
       \/ Len(text) >= dir.width /\ StandsForArgument(text)

\* printf at each of its places.
PrintfOK ==
    /\ ppc \in {"idle", "convert", "scale", "digits", "put", "done"}
    /\ ppc = "idle" => dir = NoDirective
    /\ ppc # "idle" => AskedOK
    /\ ppc \in {"idle", "convert"} => bf = <<>> /\ sign = <<>>
    /\ ppc \in {"scale", "digits"} => Numeric
    /\ ppc \in {"scale", "digits", "put"} /\ Numeric => sign = SignOf
    /\ ppc = "scale" => ScaleOK
    /\ ppc = "digits" => DigitsOK
    /\ ppc = "put" => PutOK
    /\ ppc = "done" => TextOK

LEMMA PrintfConstants ==
    /\ Modulus \in Nat \ {0} /\ DebugSize \in Nat \ {0} /\ Directive \subseteq DirectiveType
    /\ Argument \subseteq 1 - Modulus .. Modulus - 1 /\ Text \subseteq Seq(Nat) /\ Line \subseteq Nat
  BY PrintfAssumption, SerialAssumption DEF DirectiveType

LEMMA BaseIs == Base \in {10, 16} /\ Base = IF dir.conv = "x" THEN 16 ELSE 10
  BY DEF Base

\* The magnitude of the argument, whatever its sign.
LEMMA NumberOK == PrintfOK /\ Number => PrintfOK'
<1> SUFFICES ASSUME PrintfOK, Number PROVE PrintfOK'
  OBVIOUS
<1> DEFINE negative == dir.conv = "d" /\ arg[1] < 0
<1>1. /\ ppc = "convert" /\ dir.conv \in {"d", "u", "x"} /\ ppc' = "scale" /\ d' = 1
      /\ sign' = (IF negative THEN <<Minus>> ELSE <<>>)
      /\ num' = (IF negative THEN -arg[1] ELSE arg[1]) % Modulus
      /\ UNCHANGED <<dir, arg, bf, text>> /\ bf = <<>> /\ AskedOK
  BY DEF Number, PrintfOK
<1>2. arg[1] \in 1 - Modulus .. Modulus - 1 /\ Modulus \in Nat \ {0}
  BY <1>1, PrintfConstants DEF AskedOK, Numeric
<1>3. num' = Magnitude /\ num' \in 0 .. Modulus - 1
  <2> DEFINE x == arg[1]
  <2>1. x \in 1 - Modulus .. Modulus - 1
    BY <1>2
  <2>2. Magnitude = (IF negative THEN -x ELSE x % Modulus) /\ num' = (IF negative THEN -x ELSE x) % Modulus
    BY <1>1 DEF Magnitude
  <2>3. negative => x < 0
    OBVIOUS
  <2> HIDE DEF x, negative
  <2>4. CASE negative
    <3>1. -x \in 0 .. Modulus - 1
      BY <1>2, <2>1, <2>3, <2>4
    <3>2. (-x) % Modulus = -x
      BY <1>2, <3>1
    <3> QED
      BY <2>2, <2>4, <3>1, <3>2
  <2>5. CASE ~negative
    BY <1>2, <2>1, <2>2, <2>5
  <2> QED
    BY <2>4, <2>5
<1>4. Magnitude' = Magnitude /\ SignOf' = SignOf /\ AskedOK' /\ Numeric' /\ Base' = Base
  BY <1>1 DEF Magnitude, SignOf, AskedOK, Numeric, Base
<1>5. ScaleOK'
  BY <1>1, <1>3, <1>4, PowerOne, BaseIs DEF ScaleOK
<1>6. sign' = SignOf'
  BY <1>1, <1>4 DEF SignOf
<1> QED
  BY <1>1, <1>4, <1>5, <1>6 DEF PrintfOK

LEMMA StringOK == PrintfOK /\ String => PrintfOK'
<1> SUFFICES ASSUME PrintfOK, String PROVE PrintfOK'
  OBVIOUS
<1>1. /\ ppc = "convert" /\ dir.conv = "s" /\ ppc' = "put" /\ bf' = arg
      /\ UNCHANGED <<dir, arg, num, d, sign, text>> /\ sign = <<>> /\ AskedOK
  BY DEF String, PrintfOK
<1> QED
  BY <1>1 DEF PrintfOK, AskedOK, Numeric, PutOK

\* The test of Scale keeps d from wrapping.
LEMMA ScaleGrows ==
    ASSUME PrintfOK, Scale
    PROVE  /\ num \in Nat /\ num < Modulus /\ d \in Nat \ {0} /\ (d = 1 \/ d <= num)
           /\ IF Scales THEN d' = d * Base /\ d * Base <= num ELSE num < d * Base
<1>1. num \in 0 .. Modulus - 1 /\ IsPower(d, Base) /\ (d = 1 \/ d <= num) /\ d \in Nat \ {0} /\ Base \in {10, 16}
  BY BaseIs, PowerIs DEF Scale, PrintfOK, ScaleOK
<1>2. /\ num \div d >= Base => d * Base <= num
      /\ num \div d < Base => num < d * Base
      /\ num \div d \in Nat
  <2>1. num \in Nat /\ d \in Nat /\ d # 0 /\ Base \in {10, 16}
    BY <1>1, PrintfConstants
  <2> QED
    BY <2>1, DivBound
<1>3. CASE Scales
  <2>1. d' = (d * Base) % Modulus
    BY <1>3 DEF Scale
  <2>2. d * Base <= num
    BY <1>2, <1>3 DEF Scales
  <2> DEFINE p == d * Base
  <2>3. p \in 0 .. Modulus - 1
    BY <1>1, <2>2, PrintfConstants
  <2> HIDE DEF p
  <2>4. p % Modulus = p
    BY <2>3, PrintfConstants
  <2>5. d' = d * Base
    BY <2>1, <2>4 DEF p
  <2> QED
    BY <1>1, <1>3, <2>2, <2>5, PrintfConstants
<1>4. CASE ~Scales
  <2>1. num < d * Base
    BY <1>1, <1>2, <1>4 DEF Scales
  <2> QED
    BY <1>1, <1>4, <2>1, PrintfConstants
<1> QED
  BY <1>3, <1>4

\* d grows to the power of the number's first digit.
LEMMA ScaleStepOK == PrintfOK /\ Scale => PrintfOK'
<1> SUFFICES ASSUME PrintfOK, Scale PROVE PrintfOK'
  OBVIOUS
<1>1. /\ ppc = "scale" /\ UNCHANGED <<dir, arg, num, sign, bf, text>> /\ AskedOK /\ Numeric /\ sign = SignOf
      /\ ScaleOK
  BY DEF Scale, PrintfOK
<1>2. Magnitude' = Magnitude /\ SignOf' = SignOf /\ AskedOK' /\ Numeric' /\ Base' = Base
  BY <1>1 DEF Magnitude, SignOf, AskedOK, Numeric, Base
<1>3. /\ num = Magnitude /\ num \in 0 .. Modulus - 1 /\ bf = <<>>
      /\ IsPower(d, Base) /\ (d = 1 \/ d <= num) /\ d \in Nat \ {0} /\ Base \in {10, 16}
  BY <1>1, BaseIs, PowerIs DEF ScaleOK
<1>4. IF Scales THEN d' = d * Base /\ d * Base <= num ELSE num < d * Base
  BY ScaleGrows
<1>5. CASE Scales
  <2>1. ppc' = ppc
    BY <1>5 DEF Scale
  <2>2. d' = d * Base /\ d * Base <= num
    BY <1>4, <1>5
  <2>3. ScaleOK'
    BY <1>1, <1>2, <1>3, <2>2, PowerTimes DEF ScaleOK
  <2> QED
    BY <1>1, <1>2, <2>1, <2>3 DEF PrintfOK
<1>6. CASE ~Scales
  <2>1. d' = d /\ ppc' = "digits"
    BY <1>6 DEF Scale
  <2>2. num < d * Base
    BY <1>4, <1>6
  <2>3. Reads(<<>>, Base) = 0 /\ <<>> \in Seq(Nat) /\ Len(<<>>) = 0
    BY <1>3, ReadsEmpty
  <2>4. Magnitude = (0 * (d * Base)) + num
    BY <1>3
  <2>5. DigitsOK'
    BY <1>1, <1>2, <1>3, <2>1, <2>2, <2>3, <2>4 DEF DigitsOK
  <2> QED
    BY <1>1, <1>2, <2>1, <2>5 DEF PrintfOK
<1> QED
  BY <1>5, <1>6

\* A digit goes from num to bf, or a zero in front is left out.
Moves(e, base, R, n) ==
    /\ n \div e \in 0 .. base - 1 /\ n % e \in Nat
    /\ (R * (e * base)) + n = (((R * base) + (n \div e)) * e) + (n % e)
    /\ e = 1 => n % e = 0 /\ e \div base = 0
    /\ e # 1 => /\ IsPower(e \div base, base) /\ e \div base # 0
                /\ (e \div base) * base = e /\ n % e < e

LEMMA DigitMoves ==
    ASSUME NEW base \in {10, 16}, NEW e, IsPower(e, base), NEW R \in Int, NEW n \in Nat, n < e * base
    PROVE  Moves(e, base, R, n)
<1>1. e \in Nat /\ e # 0
  BY PowerIs
<1> DEFINE q == n \div e
           r == n % e
<1>2. q \in Nat /\ r \in 0 .. e - 1 /\ n = (q * e) + r /\ (q >= base => e * base <= n)
  BY <1>1, DivBound
<1>3. q \in 0 .. base - 1
  <2> HIDE DEF q, r
  <2>1. e * base \in Nat
    BY <1>1
  <2> QED
    BY <1>2, <2>1
<1> HIDE DEF q, r
<1>4. (R * (e * base)) + n = (((R * base) + q) * e) + r
  BY <1>1, <1>2
<1>5. e = 1 => r = 0 /\ e \div base = 0
  BY <1>2
<1>6. e # 1 => /\ IsPower(e \div base, base) /\ e \div base # 0 /\ (e \div base) * base = e
  BY PowerIs
<1>7. r < e /\ r \in Nat
  BY <1>1, <1>2
<1> QED
  BY <1>2, <1>3, <1>4, <1>5, <1>6, <1>7 DEF q, r, Moves

\* Each digit is that of d, and the rest is less than d.
LEMMA DigitsStepOK == PrintfOK /\ Digits => PrintfOK'
<1> SUFFICES ASSUME PrintfOK, Digits PROVE PrintfOK'
  OBVIOUS
<1>1. /\ ppc = "digits" /\ UNCHANGED <<dir, arg, sign, text>> /\ AskedOK /\ Numeric /\ sign = SignOf
      /\ DigitsOK
  BY DEF Digits, PrintfOK
<1>2. Magnitude' = Magnitude /\ SignOf' = SignOf /\ AskedOK' /\ Numeric' /\ Base' = Base /\ Base \in {10, 16}
  BY <1>1, BaseIs DEF Magnitude, SignOf, AskedOK, Numeric, Base
<1>3. CASE d = 0
  <2>1. ppc' = "put" /\ UNCHANGED <<num, d, bf>>
    BY <1>3 DEF Digits
  <2>2. PutOK'
    BY <1>1, <1>2, <1>3, <2>1 DEF DigitsOK, PutOK, NoZeroInFront
  <2> QED
    BY <1>1, <1>2, <2>1, <2>2 DEF PrintfOK
<1>4. CASE d # 0
  <2> DEFINE q == num \div d
             R == Reads(bf, Base)
  <2>1. /\ bf' = (IF bf # <<>> \/ q > 0 \/ d \div Base = 0 THEN Append(bf, Digit(q)) ELSE bf)
        /\ num' = num % d /\ d' = d \div Base /\ ppc' = ppc
    BY <1>4 DEF Digits
  <2>2. /\ num \in Nat /\ bf \in Seq(Nat) /\ \A k \in 1 .. Len(bf) : bf[k] \in Numerals
        /\ IsPower(d, Base) /\ num < d * Base /\ Magnitude = (R * (d * Base)) + num
        /\ bf # <<>> => bf[1] # Zero
    BY <1>1, <1>4 DEF DigitsOK
  <2>3. R \in Int
    <3>1. PICK v : Values(v, bf, Base) /\ Reads(bf, Base) = v[Len(bf)]
      BY <1>2, <2>2, ReadsValue
    <3>2. Len(bf) \in 0 .. Len(bf)
      BY <2>2, LenProperties
    <3> QED
      BY <3>1, <3>2 DEF Values
  <2>4. /\ q \in 0 .. Base - 1 /\ num' \in Nat
        /\ Magnitude = (((R * Base) + q) * d) + num'
        /\ d = 1 => num' = 0 /\ d' = 0
        /\ d # 1 => IsPower(d', Base) /\ d' # 0 /\ d' * Base = d /\ num' < d
    <3> HIDE DEF R, q
    <3>0. IsPower(d, Base) /\ R \in Int /\ num \in Nat /\ num < d * Base /\ Base \in {10, 16}
      BY <1>2, <2>2, <2>3
    <3>1. Moves(d, Base, R, num)
      BY <3>0, DigitMoves, Zenon
    <3> QED
      BY <2>1, <2>2, <3>1 DEF q, Moves
  <2>5. q \in 0 .. 15
    BY <1>2, <2>4
  <2>6. Digit(q) \in Numerals /\ Digit(q) \in Nat /\ Numeral(Digit(q)) = q /\ (q > 0 => Digit(q) # Zero)
    BY <2>5, DigitIs
  <2> HIDE DEF q, R
  <2>7. DigitsOK'
    <3>1. CASE bf # <<>> \/ q > 0 \/ d \div Base = 0
      <4> DEFINE t == Append(bf, Digit(q))
      <4>1. bf' = t /\ Reads(t, Base) = (R * Base) + q
        BY <1>2, <2>1, <2>2, <2>6, <3>1, ReadsAppend DEF R
      <4>2. /\ t \in Seq(Nat) /\ Len(t) = Len(bf) + 1 /\ t[Len(bf) + 1] = Digit(q)
            /\ \A k \in 1 .. Len(bf) : t[k] = bf[k]
        BY <2>2, <2>6, AppendProperties
      <4>3. Len(bf) \in Nat /\ (bf = <<>> <=> Len(bf) = 0)
        BY <2>2, EmptySeq, LenProperties
      <4> HIDE DEF t
      <4>4. t # <<>> /\ \A k \in 1 .. Len(t) : t[k] \in Numerals
        <5>1. t # <<>>
          BY <4>2, <4>3, EmptySeq
        <5>2. ASSUME NEW k \in 1 .. Len(t) PROVE t[k] \in Numerals
          <6>1. k = Len(bf) + 1 \/ k \in 1 .. Len(bf)
            BY <4>2, <4>3, <5>2
          <6> QED
            BY <2>2, <2>6, <4>2, <6>1
        <5> QED
          BY <5>1, <5>2
      <4>5. t[1] # Zero \/ (d' = 0 /\ Len(t) = 1)
        <5>1. CASE bf # <<>>
          BY <2>2, <4>2, <4>3, <5>1
        <5>2. CASE bf = <<>>
          <6>1. t[1] = Digit(q) /\ Len(t) = 1
            BY <4>2, <4>3, <5>2
          <6>2. q > 0 \/ d' = 0
            BY <2>1, <3>1, <5>2
          <6> QED
            BY <2>6, <6>1, <6>2
        <5> QED
          BY <5>1, <5>2
      <4>6. CASE d = 1
        <5>1. Magnitude = (R * Base) + q
          BY <1>2, <2>3, <2>4, <2>5, <4>6
        <5> QED
          BY <1>2, <2>4, <4>1, <4>2, <4>4, <4>5, <4>6, <5>1 DEF DigitsOK
      <4>7. CASE d # 1
        <5>1. Magnitude = (Reads(bf', Base) * (d' * Base)) + num' /\ num' < d' * Base
          BY <2>4, <4>1, <4>7
        <5> QED
          BY <1>2, <2>4, <4>1, <4>2, <4>4, <4>5, <4>7, <5>1 DEF DigitsOK
      <4> QED
        BY <4>6, <4>7
    <3>2. CASE ~(bf # <<>> \/ q > 0 \/ d \div Base = 0)
      <4>1. bf = <<>> /\ bf' = <<>> /\ q = 0 /\ d' # 0 /\ d # 1
        BY <2>1, <2>4, <2>5, <3>2
      <4>2. R = 0 /\ Reads(bf', Base) = 0
        BY <1>2, <4>1, ReadsEmpty DEF R
      <4>3. d' * Base = d /\ d \in Nat /\ IsPower(d', Base) /\ num' < d' * Base
        BY <1>2, <2>2, <2>4, <4>1, PowerIs
      <4>4. Magnitude = num'
        <5>1. Magnitude = (((0 * Base) + 0) * d) + num' /\ num' \in Nat
          BY <2>4, <4>1, <4>2
        <5>2. ((0 * Base) + 0) * d = 0
          BY <1>2, <4>3
        <5> QED
          BY <5>1, <5>2
      <4>5. Magnitude = (0 * (d' * Base)) + num'
        BY <2>4, <4>3, <4>4
      <4> QED
        BY <1>2, <2>2, <2>4, <4>1, <4>2, <4>3, <4>5 DEF DigitsOK
    <3> QED
      BY <3>1, <3>2
  <2> QED
    BY <1>1, <1>2, <2>1, <2>7 DEF PrintfOK
<1> QED
  BY <1>3, <1>4
LEMMA MinOfTwo ==
    ASSUME NEW x \in Int, NEW y \in Int
    PROVE  Min({x, y}) = IF x <= y THEN x ELSE y
<1> DEFINE m == IF x <= y THEN x ELSE y
           c == CHOOSE z \in {x, y} : \A w \in {x, y} : z =< w
<1>1. m \in {x, y} /\ \A w \in {x, y} : m =< w
  OBVIOUS
<1>2. Min({x, y}) = c
  BY DEF Min
<1>3. c \in {x, y} /\ \A w \in {x, y} : c =< w
  BY <1>1, Zenon
<1> HIDE DEF c
<1> QED
  BY <1>2, <1>3

\* The middle of three strings.
LEMMA Middle ==
    ASSUME NEW x \in Seq(Nat), NEW y \in Seq(Nat), NEW z \in Seq(Nat)
    PROVE  SubSeq(x \o y \o z, Len(x) + 1, Len(x) + Len(y)) = y
<1> DEFINE xy == x \o y
           s == xy \o z
           t == SubSeq(s, Len(x) + 1, Len(x) + Len(y))
<1>1. Len(x) \in Nat /\ Len(y) \in Nat /\ Len(z) \in Nat
  BY LenProperties
<1>2. /\ xy \in Seq(Nat) /\ Len(xy) = Len(x) + Len(y)
      /\ \A i \in 1 .. Len(x) + Len(y) : xy[i] = IF i <= Len(x) THEN x[i] ELSE y[i - Len(x)]
  BY ConcatProperties
<1> HIDE DEF xy
<1>3. s \in Seq(Nat) /\ \A i \in 1 .. Len(xy) : s[i] = xy[i]
  BY <1>1, <1>2, ConcatProperties
<1>4. \A i \in Len(x) + 1 .. Len(x) + Len(y) : s[i] = y[i - Len(x)] /\ y[i - Len(x)] \in Nat
  <2> SUFFICES ASSUME NEW i \in Len(x) + 1 .. Len(x) + Len(y)
               PROVE  s[i] = y[i - Len(x)] /\ y[i - Len(x)] \in Nat
    OBVIOUS
  <2>1. i \in 1 .. Len(x) + Len(y) /\ i \in 1 .. Len(xy) /\ ~(i <= Len(x)) /\ i - Len(x) \in 1 .. Len(y)
    <3> DEFINE lx == Len(x)
               ly == Len(y)
    <3>1. lx \in Nat /\ ly \in Nat /\ i \in lx + 1 .. lx + ly /\ Len(xy) = lx + ly
      BY <1>1, <1>2
    <3> HIDE DEF lx, ly
    <3>2. i \in 1 .. lx + ly /\ ~(i <= lx) /\ i - lx \in 1 .. ly
      BY <3>1
    <3> QED
      BY <3>1, <3>2 DEF lx, ly
  <2>2. s[i] = xy[i] /\ xy[i] = y[i - Len(x)]
    BY <1>2, <1>3, <2>1
  <2>3. y \in [1 .. Len(y) -> Nat]
    BY LenProperties
  <2> QED
    BY <2>1, <2>2, <2>3
<1> HIDE DEF s
<1>5. /\ t \in Seq(Nat) /\ Len(t) = Len(y)
      /\ \A i \in 1 .. Len(y) : t[i] = s[Len(x) + 1 + i - 1]
  <2>1. Len(x) + 1 \in Int /\ Len(x) + Len(y) \in Int /\ \A i \in Len(x) + 1 .. Len(x) + Len(y) : s[i] \in Nat
    BY <1>1, <1>4
  <2>2. /\ t \in Seq(Nat)
        /\ Len(t) = IF Len(x) + 1 <= Len(x) + Len(y) THEN Len(x) + Len(y) - (Len(x) + 1) + 1 ELSE 0
        /\ \A i \in 1 .. Len(x) + Len(y) - (Len(x) + 1) + 1 : t[i] = s[Len(x) + 1 + i - 1]
    BY <2>1, SubSeqProperties
  <2> HIDE DEF t
  <2>3. Len(x) + Len(y) - (Len(x) + 1) + 1 = Len(y) /\ (Len(y) = 0 \/ Len(x) + 1 <= Len(x) + Len(y))
    BY <1>1
  <2> QED
    BY <1>1, <2>2, <2>3
<1>6. \A i \in 1 .. Len(y) : t[i] = y[i]
  <2> SUFFICES ASSUME NEW i \in 1 .. Len(y) PROVE t[i] = y[i]
    OBVIOUS
  <2>1. t[i] = s[Len(x) + 1 + i - 1]
    BY <1>5
  <2>2. Len(x) + 1 + i - 1 = Len(x) + i /\ Len(x) + i \in Len(x) + 1 .. Len(x) + Len(y) /\ (Len(x) + i) - Len(x) = i
    BY <1>1
  <2> QED
    BY <1>4, <2>1, <2>2
<1> HIDE DEF t
<1>7. t = y
  BY <1>5, <1>6, SeqEqual
<1> QED
  BY <1>7 DEF t, s, xy

LEMMA ConcatRegroups ==
    ASSUME NEW S, NEW x \in Seq(S), NEW y \in Seq(S), NEW z \in Seq(S)
    PROVE  (x \o y) \o z = x \o (y \o z)
  BY ConcatAssociative

LEMMA TextRegroups ==
    ASSUME NEW x, NEW y, NEW z, x \in Seq(Nat), y \in Seq(Nat), z \in Seq(Nat)
    PROVE  (x \o y) \o z = x \o (y \o z)
<1> DEFINE S == Nat
<1>1. x \in Seq(S) /\ y \in Seq(S) /\ z \in Seq(S)
  OBVIOUS
<1> HIDE DEF S
<1> QED
  BY <1>1, ConcatRegroups

\* Fills on both sides of a string.
Padding(s, F, b, l, z, r) ==
    /\ s \in Seq(Nat) /\ Len(s) = l + Len(F) + z + Len(b) + r
    /\ s = Fill(Blank, l) \o F \o (Fill(Zero, z) \o b) \o Fill(Blank, r)
    /\ SubSeq(s, l + Len(F) + 1, Len(s) - r) = Fill(Zero, z) \o b

LEMMA Padded ==
    ASSUME NEW F \in Seq(Nat), NEW b \in Seq(Nat), NEW l \in Nat, NEW z \in Nat, NEW r \in Nat
    PROVE  Padding(Fill(Blank, l) \o F \o Fill(Zero, z) \o b \o Fill(Blank, r), F, b, l, z, r)
<1> DEFINE s == Fill(Blank, l) \o F \o Fill(Zero, z) \o b \o Fill(Blank, r)
     A == Fill(Blank, l)
           Z == Fill(Zero, z)
           B == Fill(Blank, r)
           AF == A \o F
           Zb == Z \o b
           AFZb == AF \o Zb
<1>1. A \in Seq(Nat) /\ Len(A) = l /\ Z \in Seq(Nat) /\ Len(Z) = z /\ B \in Seq(Nat) /\ Len(B) = r
  <2>1. Blank \in Nat /\ Zero \in Nat /\ l \in Int /\ z \in Int /\ r \in Int
    BY DEF Blank, Zero
  <2>2. \A c, k \in Nat : Fill(c, k) \in Seq(Nat) /\ Len(Fill(c, k)) = k
    <3> SUFFICES ASSUME NEW c \in Nat, NEW k \in Nat PROVE Fill(c, k) \in Seq(Nat) /\ Len(Fill(c, k)) = k
      OBVIOUS
    <3>1. k \in Int /\ k = IF k > 0 THEN k ELSE 0
      OBVIOUS
    <3>2. Fill(c, k) \in Seq(Nat) /\ Len(Fill(c, k)) = IF k > 0 THEN k ELSE 0
      BY <3>1, FillIs
    <3> QED
      BY <3>1, <3>2
  <2> QED
    BY <2>1, <2>2
<1>2. Len(F) \in Nat /\ Len(b) \in Nat
  BY LenProperties
<1>3. s = AF \o Z \o b \o B
  OBVIOUS
<1> HIDE DEF A, Z, B
<1>4. AF \in Seq(Nat) /\ Len(AF) = l + Len(F)
  BY <1>1, ConcatProperties
<1>5. Zb \in Seq(Nat) /\ Len(Zb) = z + Len(b)
  BY <1>1, ConcatProperties
<1>6. AF \o Z \o b = AF \o Zb
  <2>1. AF \in Seq(Nat) /\ Z \in Seq(Nat) /\ b \in Seq(Nat)
    BY <1>1, <1>4
  <2> HIDE DEF AF
  <2>2. \A x, y \in Seq(Nat) : (x \o y) \o b = x \o (y \o b)
    BY TextRegroups
  <2>3. (AF \o Z) \o b = AF \o (Z \o b)
    BY <2>1, <2>2
  <2> QED
    BY <2>3 DEF Zb
<1>7. s = AF \o Zb \o B
  BY <1>3, <1>6
<1> HIDE DEF AF, Zb
<1>8. AFZb \in Seq(Nat) /\ Len(AFZb) = Len(AF) + Len(Zb)
  BY <1>4, <1>5, ConcatProperties
<1>9. s \in Seq(Nat) /\ Len(s) = l + Len(F) + (z + Len(b)) + r
  <2> HIDE DEF AFZb
  <2>1. AFZb \o B \in Seq(Nat) /\ Len(AFZb \o B) = Len(AFZb) + Len(B)
    BY <1>1, <1>8, ConcatProperties
  <2>2. s = AFZb \o B
    BY <1>7 DEF AFZb
  <2> QED
    BY <1>1, <1>4, <1>5, <1>8, <2>1, <2>2
<1>10. SubSeq(s, Len(AF) + 1, Len(AF) + Len(Zb)) = Zb
  <2>1. \A x, y, w \in Seq(Nat) : SubSeq(x \o y \o w, Len(x) + 1, Len(x) + Len(y)) = y
    BY Middle
  <2>2. AF \in Seq(Nat) /\ Zb \in Seq(Nat) /\ B \in Seq(Nat)
    BY <1>1, <1>4, <1>5
  <2>3. SubSeq(AF \o Zb \o B, Len(AF) + 1, Len(AF) + Len(Zb)) = Zb
    BY <2>1, <2>2, Zenon
  <2> QED
    BY <1>7, <2>3, Zenon
<1>11. Len(AF) + 1 = l + Len(F) + 1 /\ Len(AF) + Len(Zb) = Len(s) - r
       /\ Len(s) = l + Len(F) + z + Len(b) + r
  BY <1>2, <1>4, <1>5, <1>9
<1> QED
  BY <1>7, <1>9, <1>10, <1>11 DEF A, Z, B, AF, Zb, Padding

\* The text of putchw: how many characters of what.
LEMMA PutchwIs ==
    ASSUME AskedOK, sign = SignOf, bf \in Seq(Nat)
    PROVE  /\ Prefix \in Seq(Nat)
           /\ \E l, z, r \in Nat :
                 /\ Putchw = Fill(Blank, l) \o Prefix \o Fill(Zero, z) \o bf \o Fill(Blank, r)
                 /\ l + Len(Prefix) + z + Len(bf) + r >= dir.width
                 /\ IF dir.lz THEN l = 0 /\ r = 0 ELSE z = 0
                 /\ z # 0 => l + Len(Prefix) + z + Len(bf) + r = dir.width
<1> DEFINE P == IF dir.alt /\ dir.conv = "x" THEN <<Zero, Ex>> ELSE <<>>
           n == dir.width - Len(Prefix) - Len(bf)
           m == IF n > 0 THEN n ELSE 0
           l == IF dir.lz \/ dir.left THEN 0 ELSE m
           z == IF dir.lz THEN m ELSE 0
           r == IF dir.left /\ ~dir.lz THEN m ELSE 0
<1>1. P = IF dir.conv = "x" /\ dir.alt THEN <<Zero, Ex>> ELSE <<>>
  OBVIOUS
<1>2. sign \o P = Prefix
  BY <1>1 DEF Prefix, SignOf
<1>3. Prefix \in Seq(Nat)
  <2>1. sign \in Seq(Nat)
    BY DEF SignOf, Minus
  <2>2. P \in Seq(Nat)
    BY DEF Zero, Ex
  <2> HIDE DEF P
  <2> QED
    BY <1>2, <2>1, <2>2, ConcatProperties
<1>4. Len(Prefix) \in Nat /\ Len(bf) \in Nat /\ dir.width \in Nat
  BY <1>3, LenProperties DEF AskedOK, DirectiveType
<1>5. Putchw = (IF dir.lz \/ dir.left THEN <<>> ELSE Fill(Blank, n)) \o Prefix
                 \o (IF dir.lz THEN Fill(Zero, n) ELSE <<>>) \o bf
                 \o (IF dir.left /\ ~dir.lz THEN Fill(Blank, n) ELSE <<>>)
  <2> HIDE DEF P
  <2>1. Putchw = LET n2 == dir.width - Len(sign \o P) - Len(bf)
                 IN (IF dir.lz \/ dir.left THEN <<>> ELSE Fill(Blank, n2)) \o (sign \o P)
                     \o (IF dir.lz THEN Fill(Zero, n2) ELSE <<>>) \o bf
                     \o (IF dir.left /\ ~dir.lz THEN Fill(Blank, n2) ELSE <<>>)
    BY Zenon DEF Putchw, P
  <2> QED
    BY <1>2, <2>1, Zenon
<1>6. n \in Int
  BY <1>4
<1>7. \A c : Fill(c, n) = Fill(c, m) /\ Fill(c, 0) = <<>>
  <2>1. 1 .. n = 1 .. m /\ 1 .. 0 = {}
    BY <1>6
  <2> HIDE DEF n, m
  <2> QED
    BY <2>1 DEF Fill
<1>8. Putchw = Fill(Blank, l) \o Prefix \o Fill(Zero, z) \o bf \o Fill(Blank, r)
  <2>1. Fill(Blank, l) = IF dir.lz \/ dir.left THEN <<>> ELSE Fill(Blank, n)
    <3> HIDE DEF n, m
    <3> QED BY <1>7
  <2>2. Fill(Zero, z) = IF dir.lz THEN Fill(Zero, n) ELSE <<>>
    <3> HIDE DEF n, m
    <3> QED BY <1>7
  <2>3. Fill(Blank, r) = IF dir.left /\ ~dir.lz THEN Fill(Blank, n) ELSE <<>>
    <3> HIDE DEF n, m
    <3> QED BY <1>7
  <2> QED
    BY <1>5, <2>1, <2>2, <2>3, Zenon
<1>9. m \in Nat /\ Len(Prefix) + m + Len(bf) >= dir.width
      /\ (m # 0 => Len(Prefix) + m + Len(bf) = dir.width)
  <2> DEFINE p == Len(Prefix)
             b == Len(bf)
             w == dir.width
  <2>1. p \in Nat /\ b \in Nat /\ w \in Nat /\ m = IF w - p - b > 0 THEN w - p - b ELSE 0
    BY <1>4
  <2> HIDE DEF p, b, w, m
  <2>2. m \in Nat /\ p + m + b >= w /\ (m # 0 => p + m + b = w)
    BY <2>1
  <2> QED
    BY <2>2 DEF p, b, w
<1> HIDE DEF m
<1>10. l \in Nat /\ z \in Nat /\ r \in Nat /\ l + Len(Prefix) + z + Len(bf) + r = Len(Prefix) + m + Len(bf)
  <2> DEFINE p == Len(Prefix)
             b == Len(bf)
  <2>1. p \in Nat /\ b \in Nat /\ m \in Nat
    BY <1>4, <1>9
  <2> HIDE DEF p, b
  <2>2. l \in Nat /\ z \in Nat /\ r \in Nat
    BY <2>1
  <2>3. l + z + r = m
    BY <2>1
  <2>4. l + p + z + b + r = p + m + b
    BY <2>1, <2>2, <2>3
  <2> QED
    BY <2>2, <2>4 DEF p, b
<1>11. (IF dir.lz THEN l = 0 /\ r = 0 ELSE z = 0) /\ (z # 0 => m # 0)
  OBVIOUS
<1> HIDE DEF l, z, r
<1>12. /\ l + Len(Prefix) + z + Len(bf) + r >= dir.width
       /\ z # 0 => l + Len(Prefix) + z + Len(bf) + r = dir.width
  BY <1>9, <1>10, <1>11
<1> QED
  BY <1>3, <1>8, <1>10, <1>11, <1>12

\* What putchw makes stands for the argument, and is wide enough.
LEMMA PutchwOK ==
    ASSUME AskedOK, sign = SignOf, PutOK
    PROVE  Putchw \in Seq(Nat) /\ Len(Putchw) >= dir.width /\ StandsForArgument(Putchw)
<1> DEFINE s == Putchw
<1>1. bf \in Seq(Nat)
  BY DEF PutOK, AskedOK, Numeric
<1>2. PICK l \in Nat, z \in Nat, r \in Nat :
         /\ s = Fill(Blank, l) \o Prefix \o Fill(Zero, z) \o bf \o Fill(Blank, r)
         /\ l + Len(Prefix) + z + Len(bf) + r >= dir.width
         /\ IF dir.lz THEN l = 0 /\ r = 0 ELSE z = 0
         /\ z # 0 => l + Len(Prefix) + z + Len(bf) + r = dir.width
  BY <1>1, PutchwIs
<1>3. Prefix \in Seq(Nat) /\ Len(Prefix) \in Nat /\ Len(bf) \in Nat /\ dir.width \in Nat
  BY <1>1, PutchwIs, LenProperties DEF AskedOK, DirectiveType
<1> HIDE DEF s
<1>4. /\ s \in Seq(Nat) /\ Len(s) = l + Len(Prefix) + z + Len(bf) + r
      /\ s = Fill(Blank, l) \o Prefix \o (Fill(Zero, z) \o bf) \o Fill(Blank, r)
      /\ SubSeq(s, l + Len(Prefix) + 1, Len(s) - r) = Fill(Zero, z) \o bf
  <2>1. Padding(Fill(Blank, l) \o Prefix \o Fill(Zero, z) \o bf \o Fill(Blank, r), Prefix, bf, l, z, r)
    BY <1>1, <1>3, Padded
  <2>2. Padding(s, Prefix, bf, l, z, r)
    BY <1>2, <2>1, Zenon
  <2> QED
    BY <2>2 DEF Padding
<1>5. l \in 0 .. Len(s) /\ z \in 0 .. Len(s) /\ r \in 0 .. Len(s)
  <2> DEFINE p == Len(Prefix)
             b == Len(bf)
             t == Len(s)
  <2>1. p \in Nat /\ b \in Nat /\ t = l + p + z + b + r
    BY <1>3, <1>4
  <2> HIDE DEF p, b, t
  <2>2. l \in 0 .. t /\ z \in 0 .. t /\ r \in 0 .. t
    BY <2>1
  <2> QED
    BY <2>2 DEF t
<1>6. Fill(Zero, 0) = <<>> /\ Fill(Blank, 0) = <<>>
  BY DEF Fill
<1>7. ASSUME dir.conv = "s" PROVE StandsForArgument(s)
  <2>1. bf = arg /\ Prefix = <<>> \o <<>> /\ <<>> \o <<>> = <<>>
    BY <1>7 DEF PutOK, Numeric, Prefix
  <2>2. Fill(Blank, l) \in Seq(Nat) /\ Fill(Zero, z) \in Seq(Nat)
    <3>1. Blank \in Nat /\ Zero \in Nat /\ l \in Int /\ z \in Int
      BY DEF Blank, Zero
    <3> QED
      BY <3>1, FillIs
  <2>3. s = Fill(Blank, l) \o Fill(Zero, z) \o arg \o Fill(Blank, r)
    BY <1>2, <2>1, <2>2, ConcatEmptySeq
  <2>4. CASE dir.lz
    <3>1. l = 0 /\ <<>> \o Fill(Zero, z) = Fill(Zero, z)
      BY <1>2, <2>2, <2>4, ConcatEmptySeq
    <3>2. s = Fill(Zero, z) \o arg \o Fill(Blank, r)
      BY <1>6, <2>3, <3>1
    <3> QED
      BY <1>5, <1>7, <2>4, <3>2, Zenon DEF StandsForArgument
  <2>5. CASE ~dir.lz
    <3>1. z = 0 /\ Fill(Blank, l) \o <<>> = Fill(Blank, l)
      BY <1>2, <2>2, <2>5, ConcatEmptySeq
    <3>2. s = Fill(Blank, l) \o arg \o Fill(Blank, r)
      BY <1>6, <2>3, <3>1
    <3> QED
      BY <1>5, <1>7, <2>5, <3>2, Zenon DEF StandsForArgument
  <2> QED
    BY <2>4, <2>5
<1>8. ASSUME dir.conv # "s" PROVE StandsForArgument(s)
  <2> DEFINE digits == Fill(Zero, z) \o bf
  <2>1. /\ bf # <<>> /\ \A k \in 1 .. Len(bf) : bf[k] \in Numerals
        /\ Reads(bf, Base) = Magnitude /\ NoZeroInFront(bf)
    BY <1>8 DEF PutOK, Numeric
  <2>2. Reads(digits, Base) = Magnitude /\ Base \in {10, 16} /\ Base = IF dir.conv = "x" THEN 16 ELSE 10
    BY <1>1, <2>1, BaseIs, ReadsZeros
  <2>3. /\ Fill(Zero, z) \in Seq(Nat) /\ Len(Fill(Zero, z)) = z
        /\ \A k \in 1 .. z : Fill(Zero, z)[k] = Zero
    <3>1. Zero \in Nat /\ z \in Int
      BY DEF Zero
    <3> QED
      BY <3>1, FillIs
  <2>4. IsNumber(digits)
    <3> DEFINE f == Fill(Zero, z)
               e == f \o bf
    <3>1. /\ e \in Seq(Nat) /\ Len(e) = z + Len(bf) /\ DOMAIN e = 1 .. Len(e)
          /\ \A k \in 1 .. z + Len(bf) : e[k] = IF k <= z THEN f[k] ELSE bf[k - z]
      <4> HIDE DEF f
      <4>1. f \in Seq(Nat) /\ Len(f) = z
        BY <2>3 DEF f
      <4>2. /\ e \in Seq(Nat) /\ Len(e) = Len(f) + Len(bf)
            /\ \A k \in 1 .. Len(f) + Len(bf) : e[k] = IF k <= Len(f) THEN f[k] ELSE bf[k - Len(f)]
        BY <1>1, <4>1, ConcatProperties
      <4> HIDE DEF e
      <4> QED
        BY <4>1, <4>2, LenProperties
    <3> HIDE DEF e
    <3>2. e # <<>>
      <4>1. Len(bf) \in Nat \ {0}
        BY <1>1, <2>1, EmptySeq
      <4>2. Len(e) # 0
        BY <3>1, <4>1
      <4> QED
        BY <4>2, EmptySeq
    <3>3. ASSUME NEW k \in 1 .. Len(e) PROVE e[k] \in Numerals
      <4>1. CASE k <= z
        <5>1. k \in 1 .. z /\ e[k] = f[k]
          BY <1>3, <3>1, <3>3, <4>1
        <5> QED
          BY <2>3, <5>1 DEF Numerals, Zero
      <4>2. CASE ~(k <= z)
        <5>1. k - z \in 1 .. Len(bf) /\ e[k] = bf[k - z]
          BY <1>3, <3>1, <3>3, <4>2
        <5> QED
          BY <2>1, <5>1
      <4> QED
        BY <4>1, <4>2
    <3>4. IsNumber(e)
      BY <3>1, <3>2, <3>3 DEF IsNumber, Numerals
    <3> QED
      BY <3>4 DEF e
  <2>5. (dir.lz /\ Len(s) = dir.width) \/ NoZeroInFront(digits)
    <3>1. CASE z = 0
      <4>1. digits = bf
        BY <1>1, <1>6, <3>1, ConcatEmptySeq
      <4> QED
        BY <2>1, <4>1
    <3>2. CASE z # 0
      BY <1>2, <1>4, <3>2
    <3> QED
      BY <3>1, <3>2
  <2> HIDE DEF digits
  <2>6. /\ SubSeq(s, l + Len(Prefix) + 1, Len(s) - r) = digits
        /\ s = Fill(Blank, l) \o Prefix \o digits \o Fill(Blank, r)
    BY <1>4 DEF digits
  <2>7. Reads(digits, IF dir.conv = "x" THEN 16 ELSE 10) = Magnitude
    BY <2>2
  <2> QED
    BY <1>5, <1>8, <2>4, <2>5, <2>6, <2>7, Zenon DEF StandsForArgument
<1>9. Len(s) >= dir.width
  BY <1>2, <1>4
<1> QED
  BY <1>4, <1>7, <1>8, <1>9 DEF s

\* The buffer holds the text, or as much as fits.
LEMMA PutStepOK == PrintfOK /\ Put(DebugSize) => PrintfOK'
<1> SUFFICES ASSUME PrintfOK, Put(DebugSize) PROVE PrintfOK'
  OBVIOUS
<1>1. /\ ppc = "put" /\ ppc' = "done" /\ text' = Cut(Putchw, DebugSize)
      /\ UNCHANGED <<dir, arg, num, d, sign, bf>> /\ AskedOK /\ PutOK
      /\ sign = SignOf
  BY DEF Put, PrintfOK, PutOK, SignOf, Numeric
<1> DEFINE s == Putchw
<1>2. s \in Seq(Nat) /\ Len(s) >= dir.width /\ StandsForArgument(s)
  BY <1>1, PutchwOK
<1> HIDE DEF s
<1>3. Len(s) \in Nat /\ DebugSize \in Nat \ {0}
  BY <1>2, LenProperties, PrintfConstants
<1>4. Cut(s, DebugSize) = SubSeq(s, 1, IF Len(s) <= DebugSize - 1 THEN Len(s) ELSE DebugSize - 1)
  BY <1>3, MinOfTwo DEF Cut
<1>5. AskedOK' /\ dir' = dir /\ arg' = arg /\ Prefix' = Prefix /\ Magnitude' = Magnitude
  BY <1>1 DEF AskedOK, Numeric, Prefix, Magnitude
<1>6. CASE Len(s) <= DebugSize - 1
  <2>1. text' = s
    BY <1>1, <1>2, <1>4, <1>6, SubSeqFull DEF s
  <2>2. StandsForArgument(text)'
    BY <1>2, <1>5, <2>1 DEF StandsForArgument
  <2>3. TextOK'
    BY <1>2, <1>3, <1>5, <1>6, <2>1, <2>2 DEF TextOK
  <2> QED
    BY <1>1, <1>5, <2>3 DEF PrintfOK
<1>7. CASE ~(Len(s) <= DebugSize - 1)
  <2> DEFINE t == SubSeq(s, 1, DebugSize - 1)
  <2>1. DebugSize - 1 \in Nat /\ \A k \in 1 .. DebugSize - 1 : s[k] \in Nat
    <3>1. s \in [1 .. Len(s) -> Nat]
      BY <1>2, LenProperties
    <3> QED
      BY <1>3, <1>7, <3>1
  <2>2. t \in Seq(Nat) /\ Len(t) = DebugSize - 1
    <3>1. /\ t \in Seq(Nat)
          /\ Len(t) = IF 1 <= DebugSize - 1 THEN DebugSize - 1 - 1 + 1 ELSE 0
      BY <2>1, SubSeqProperties
    <3> HIDE DEF t
    <3> QED
      BY <2>1, <3>1
  <2>3. text' = t
    BY <1>1, <1>4, <1>7 DEF s
  <2> HIDE DEF t
  <2>4. TextOK'
    BY <1>3, <1>5, <2>2, <2>3 DEF TextOK
  <2> QED
    BY <1>1, <1>5, <2>4 DEF PrintfOK
<1> QED
  BY <1>6, <1>7
-----------------------------------------------------------------------------
\* A step of printf, or none.
LEMMA PrintfStepOK == PrintfOK /\ PrintfStep(DebugSize) => PrintfOK'
  BY NumberOK, StringOK, ScaleStepOK, DigitsStepOK, PutStepOK DEF PrintfStep

LEMMA PrintfUnchanged ==
    ASSUME PrintfOK, UNCHANGED printfVars
    PROVE  PrintfOK' /\ dir' = dir /\ text' = text /\ ppc' = ppc /\ TextOK' = TextOK
<1>1. UNCHANGED <<dir, arg, num, d, sign, bf, text, ppc>>
  BY DEF printfVars
<1>2. /\ Magnitude' = Magnitude /\ SignOf' = SignOf /\ AskedOK' = AskedOK /\ Numeric' = Numeric /\ Base' = Base
      /\ Prefix' = Prefix
  BY <1>1 DEF Magnitude, SignOf, AskedOK, Numeric, Base, Prefix
<1>3. StandsForArgument(text)' = StandsForArgument(text)
  BY <1>1, <1>2 DEF StandsForArgument
<1>4. ScaleOK' = ScaleOK /\ DigitsOK' = DigitsOK /\ PutOK' = PutOK /\ TextOK' = TextOK
  BY <1>1, <1>2, <1>3 DEF ScaleOK, DigitsOK, PutOK, TextOK
<1> QED
  BY <1>1, <1>2, <1>4 DEF PrintfOK

\* The bytes that have been asked for.
OutOK ==
    /\ out \in Seq(Nat)
    /\ IF dir = NoDirective THEN out = [n \in 1 .. size |-> src + n - 1]
       ELSE line \in Nat /\ out = Itoa(line) \o text /\ TextOK

\* What is sent is the beginning of it.
SentOK == wire \in Seq(Nat) /\ Len(wire) <= Len(out) /\ wire = SubSeq(out, 1, Len(wire))

\* The places of the callers, and what they ask of memcpy, printf and the port.
PortOK ==
    /\ spc \in {"idle", "print", "debug", "write", "done"}
    /\ spc = "idle" => mpc = "idle" /\ ppc = "idle"
    /\ spc = "print" => ppc = "idle"
    /\ spc = "debug" => ppc # "idle" /\ line \in Nat
    /\ spc \in {"idle", "print", "debug"} => wire = <<>>
    /\ spc \in {"write", "done"} => OutOK /\ SentOK
    /\ spc = "done" => Len(wire) = Len(out)

SerialInv == MemcpyOK /\ PrintfOK /\ PortOK

LEMMA SerialStarts == SerialInit => SerialInv
<1> SUFFICES ASSUME SerialInit PROVE SerialInv
  OBVIOUS
<1>1. MemcpyOK
  BY DEF SerialInit, NoMemcpy, MemcpyOK
<1>2. PrintfOK
  BY DEF SerialInit, NoPrintf, PrintfOK
<1>3. PortOK
  BY DEF SerialInit, NoMemcpy, NoPrintf, PortOK
<1> QED
  BY <1>1, <1>2, <1>3 DEF SerialInv

\* Every step keeps the invariant.
LEMMA SerialStepOK == SerialInv /\ [SerialNext]_serialVars => SerialInv'
<1> SUFFICES ASSUME SerialInv, [SerialNext]_serialVars PROVE SerialInv'
  OBVIOUS
<1>1. MemcpyOK /\ PrintfOK /\ PortOK
  BY DEF SerialInv
<1>2. UNCHANGED memcpyVars => MemcpyOK' /\ dest' = dest /\ src' = src /\ size' = size /\ mpc' = mpc
                                /\ stored' = stored
  BY <1>1, MemcpyUnchanged DEF memcpyVars, args
<1>3. UNCHANGED printfVars => PrintfOK' /\ dir' = dir /\ text' = text /\ ppc' = ppc /\ TextOK' = TextOK
  BY <1>1, PrintfUnchanged
<1>4. CASE SysPrint
  <2>1. PICK k \in KernelAddr, u \in UserAddr, n \in PrintSize : Call(k, u, n)
    BY <1>4 DEF SysPrint
  <2>2. k \in Nat /\ u \in Nat /\ n \in Nat
    BY SerialAssumption
  <2>3. MemcpyOK'
    BY <1>1, <2>1, <2>2, CallOK
  <2>4. spc = "idle" /\ spc' = "print" /\ UNCHANGED <<printfVars, line, out, wire, fifo>>
    BY <1>4 DEF SysPrint
  <2> QED
    BY <1>1, <1>3, <2>3, <2>4 DEF SerialInv, PortOK
<1>5. CASE Memcpy
  <2>1. spc = "print" /\ MemcpyStep /\ UNCHANGED <<printfVars, port>>
    BY <1>5 DEF Memcpy
  <2>2. MemcpyOK'
    BY <1>1, <2>1, MemcpyStepOK
  <2> QED
    BY <1>1, <1>3, <2>1, <2>2 DEF SerialInv, PortOK, port
<1>6. CASE DebugBuffer
  <2>1. /\ spc = "print" /\ Copied /\ spc' = "write" /\ out' = [n \in 1 .. size |-> stored[dest + n - 1]]
        /\ UNCHANGED <<memcpyVars, printfVars, line, wire, fifo>>
    BY <1>6 DEF DebugBuffer
  <2>2. /\ dest \in Nat /\ src \in Nat /\ size \in Nat
        /\ stored = [a \in dest .. dest + size - 1 |-> src + a - dest]
    <3>1. CopiesExactly
      BY <1>1, MemcpyExact
    <3> QED
      BY <1>1, <2>1, <3>1 DEF MemcpyOK, Copied, CopiesExactly
  <2> DEFINE s == [n \in 1 .. size |-> stored[dest + n - 1]]
  <2>3. ASSUME NEW n \in 1 .. size PROVE stored[dest + n - 1] = src + n - 1 /\ src + n - 1 \in Nat
    <3> DEFINE a == dest + n - 1
    <3>1. a \in dest .. dest + size - 1 /\ src + a - dest = src + n - 1 /\ src + n - 1 \in Nat
      BY <2>2, <2>3
    <3> HIDE DEF a
    <3>2. stored[a] = src + a - dest
      BY <2>2, <3>1
    <3> QED
      BY <3>1, <3>2 DEF a
  <2>4. s = [n \in 1 .. size |-> src + n - 1]
    BY <2>3
  <2>5. s \in Seq(Nat)
    <3>1. \A n \in 1 .. size : stored[dest + n - 1] \in Nat
      BY <2>3
    <3> QED
      BY <2>2, <3>1, IsASeq
  <2>6. dir = NoDirective /\ wire = <<>> /\ dir' = dir /\ size' = size /\ src' = src
    BY <1>1, <1>2, <1>3, <2>1 DEF PrintfOK, PortOK
  <2>7. OutOK'
    BY <2>1, <2>4, <2>5, <2>6 DEF OutOK
  <2>8. SentOK'
    <3>1. wire' = <<>> /\ Len(<<>>) = 0 /\ <<>> \in Seq(Nat) /\ out' \in Seq(Nat)
      BY <2>1, <2>5, <2>6, EmptySeq
    <3>2. SubSeq(out', 1, 0) = <<>> /\ Len(out') \in Nat
      BY <3>1, SubSeqEmpty, LenProperties
    <3> QED
      BY <3>1, <3>2 DEF SentOK
  <2> QED
    BY <1>1, <1>2, <1>3, <2>1, <2>7, <2>8 DEF SerialInv, PortOK
<1>7. CASE DebugContext
  <2>1. /\ spc = "idle" /\ spc' = "debug" /\ line' \in Line
        /\ UNCHANGED <<memcpyVars, out, wire, fifo>>
    BY <1>7 DEF DebugContext
  <2>2. PICK f \in Directive : \E a \in IF f.conv = "s" THEN Text ELSE {<<n>> : n \in Argument} : Format(f, a)
    BY <1>7 DEF DebugContext
  <2>3. PICK a \in IF f.conv = "s" THEN Text ELSE {<<n>> : n \in Argument} : Format(f, a)
    BY <2>2
  <2>4. /\ ppc = "idle" /\ dir' = f /\ arg' = a /\ ppc' = "convert"
        /\ UNCHANGED <<num, d, sign, bf, text>>
    BY <2>3 DEF Format
  <2>5. AskedOK'
    <3>1. f \in DirectiveType
      BY PrintfConstants
    <3>2. f.conv = "s" => a \in Seq(Nat)
      BY <2>3, PrintfConstants
    <3>3. f.conv # "s" => a[1] \in 1 - Modulus .. Modulus - 1
      BY <2>3, PrintfConstants
    <3> QED
      BY <2>4, <3>1, <3>2, <3>3 DEF AskedOK, Numeric
  <2>6. PrintfOK'
    BY <1>1, <2>4, <2>5 DEF PrintfOK
  <2>7. line' \in Nat
    BY <2>1, PrintfConstants
  <2> QED
    BY <1>1, <1>2, <2>1, <2>4, <2>6, <2>7 DEF SerialInv, PortOK
<1>8. CASE Vsnprintf
  <2>1. spc = "debug" /\ PrintfStep(DebugSize) /\ UNCHANGED <<memcpyVars, port>>
    BY <1>8 DEF Vsnprintf
  <2>2. PrintfOK'
    BY <1>1, <2>1, PrintfStepOK
  <2>3. ppc' # "idle"
    BY <1>1, <2>1 DEF PortOK, PrintfStep, Number, String, Scale, Digits, Put
  <2> QED
    BY <1>1, <1>2, <2>1, <2>2, <2>3 DEF SerialInv, PortOK, port
<1>9. CASE WriteString
  <2>1. /\ spc = "debug" /\ ppc = "done" /\ spc' = "write" /\ out' = Itoa(line) \o text
        /\ UNCHANGED <<memcpyVars, printfVars, line, wire, fifo>>
    BY <1>9 DEF WriteString
  <2>2. TextOK /\ line \in Nat /\ wire = <<>> /\ AskedOK
    BY <1>1, <2>1 DEF PrintfOK, PortOK
  <2>3. Itoa(line) \in Seq(Nat) /\ text \in Seq(Nat)
    BY <2>2, ItoaOK DEF TextOK
  <2>4. out' \in Seq(Nat)
    BY <2>1, <2>3, ConcatProperties
  <2>5. dir # NoDirective
    BY <2>2 DEF AskedOK, DirectiveType, NoDirective
  <2>6. OutOK'
    BY <1>3, <2>1, <2>2, <2>4, <2>5 DEF OutOK
  <2>7. SentOK'
    <3>1. wire' = <<>> /\ Len(<<>>) = 0 /\ <<>> \in Seq(Nat)
      BY <2>1, <2>2, EmptySeq
    <3>2. SubSeq(out', 1, 0) = <<>> /\ Len(out') \in Nat
      BY <2>4, SubSeqEmpty, LenProperties
    <3> QED
      BY <3>1, <3>2 DEF SentOK
  <2> QED
    BY <1>1, <1>2, <1>3, <2>1, <2>6, <2>7 DEF SerialInv, PortOK
<1>10. CASE WriteByte
  <2>1. /\ spc = "write" /\ Len(wire) < Len(out) /\ wire' = Append(wire, out[Len(wire) + 1])
        /\ UNCHANGED <<memcpyVars, printfVars, line, out, spc>>
    BY <1>10 DEF WriteByte
  <2>2. OutOK /\ SentOK
    BY <1>1, <2>1 DEF PortOK
  <2>3. OutOK'
    BY <1>2, <1>3, <2>1, <2>2 DEF OutOK
  <2>4. SentOK'
    <3> DEFINE k == Len(wire)
               w == SubSeq(out, 1, k)
               c == out[k + 1]
    <3>1. wire \in Seq(Nat) /\ out \in Seq(Nat) /\ wire = w /\ k \in Nat /\ Len(out) \in Nat /\ k < Len(out)
      BY <2>1, <2>2, LenProperties DEF SentOK, OutOK
    <3>2. c \in Nat /\ wire' = Append(wire, c)
      <4>1. out \in [1 .. Len(out) -> Nat] /\ k + 1 \in 1 .. Len(out)
        BY <3>1, LenProperties
      <4> HIDE DEF k
      <4>2. c \in Nat
        BY <4>1
      <4> QED
        BY <2>1, <4>2 DEF k
    <3>3. wire' \in Seq(Nat) /\ Len(wire') = k + 1 /\ wire' = wire \o <<c>>
      BY <3>1, <3>2, AppendProperties, AppendIsConcat
    <3>4. SubSeq(out, 1, k + 1) = SubSeq(out, 1, k) \o <<c>>
      <4>1. 1 \in 1 .. Len(out) /\ k + 1 \in 1 .. Len(out) /\ (k + 1) - 1 = k
        BY <3>1
      <4> HIDE DEF k
      <4>2. SubSeq(out, 1, k + 1) = SubSeq(out, 1, (k + 1) - 1) \o <<out[k + 1]>>
        BY <3>1, <4>1, SubSeqRecursiveSecond
      <4> QED
        BY <4>1, <4>2
    <3> HIDE DEF k
    <3>5. wire' = SubSeq(out', 1, Len(wire')) /\ Len(wire') <= Len(out')
      BY <2>1, <3>1, <3>3, <3>4
    <3> QED
      BY <3>3, <3>5 DEF SentOK
  <2> QED
    BY <1>1, <1>2, <1>3, <2>1, <2>3, <2>4 DEF SerialInv, PortOK
<1>11. CASE Written
  <2>1. /\ spc = "write" /\ Len(wire) = Len(out) /\ spc' = "done"
        /\ UNCHANGED <<memcpyVars, printfVars, line, out, wire, fifo>>
    BY <1>11 DEF Written
  <2>2. OutOK' /\ SentOK'
    <3>1. OutOK /\ SentOK
      BY <1>1, <2>1 DEF PortOK
    <3>2. OutOK'
      BY <1>2, <1>3, <2>1, <3>1 DEF OutOK
    <3>3. SentOK'
      BY <2>1, <3>1 DEF SentOK
    <3> QED
      BY <3>2, <3>3
  <2> QED
    BY <1>1, <1>2, <1>3, <2>1, <2>2 DEF SerialInv, PortOK
<1>12. CASE Send \/ UNCHANGED serialVars
  <2>1. UNCHANGED <<memcpyVars, printfVars, line, out, wire, spc>>
    BY <1>12 DEF Send, serialVars, port
  <2>2. OutOK' = OutOK /\ SentOK' = SentOK
    BY <1>2, <1>3, <2>1 DEF OutOK, SentOK
  <2> QED
    BY <1>1, <1>2, <1>3, <2>1, <2>2 DEF SerialInv, PortOK
<1> QED
  BY <1>4, <1>5, <1>6, <1>7, <1>8, <1>9, <1>10, <1>11, <1>12 DEF SerialNext, Cpu

\* The invariant of the serial output: memcpy and printf are where they should be, and
\* what has been sent is the beginning of what there is to send.
THEOREM SerialInvariant == SerialSpec => []SerialInv
<1>1. SerialInit => SerialInv
  BY SerialStarts
<1>2. SerialInv /\ [SerialNext]_serialVars => SerialInv'
  BY SerialStepOK
<1> QED
  BY <1>1, <1>2, PTL DEF SerialSpec

\* memcpy of sys_print puts each byte at its place, whatever the alignments and the
\* size, and reads no word that holds no byte of the source.
THEOREM MemcpyCopies == SerialSpec => []CopiesExactly
<1>1. SerialInv => CopiesExactly
  BY MemcpyExact DEF SerialInv
<1> QED
  BY <1>1, SerialInvariant, PTL

\* A line of the number and the text is what SendsLine asks for.
LEMMA LineSent ==
    ASSUME line \in Nat, TextOK, wire = Itoa(line) \o text
    PROVE  SendsLine
<1> DEFINE s == Itoa(line)
           n == Len(s)
           number == SubSeq(wire, 1, n)
           rest == SubSeq(wire, n + 1, Len(wire))
<1>1. s \in Seq(Nat) /\ IsNumber(s) /\ NoZeroInFront(s) /\ Reads(s, 10) = line /\ text \in Seq(Nat)
  BY ItoaOK DEF TextOK
<1> HIDE DEF s
<1>2. wire = s \o text
  BY DEF s
<1>3. wire \in Seq(Nat) /\ Len(wire) = Len(s) + Len(text) /\ DOMAIN wire = 1 .. Len(wire)
      /\ Len(s) \in Nat \ {0} /\ Len(text) \in Nat
  BY <1>1, <1>2, ConcatProperties, LenProperties, EmptySeq DEF IsNumber
<1>4. <<>> \in Seq(Nat) /\ Len(<<>>) = 0 /\ <<>> \o s = s /\ (s \o text) \o <<>> = s \o text
  BY <1>1, <1>2, <1>3, EmptySeq, ConcatEmptySeq
<1>5. number = s
  <2>1. SubSeq(<<>> \o s \o text, Len(<<>>) + 1, Len(<<>>) + Len(s)) = s
    BY <1>1, <1>4, Middle
  <2>2. Len(<<>>) + 1 = 1 /\ Len(<<>>) + Len(s) = Len(s)
    BY <1>3, <1>4
  <2> QED
    BY <1>2, <1>4, <2>1, <2>2
<1>6. rest = text
  <2>1. SubSeq(s \o text \o <<>>, Len(s) + 1, Len(s) + Len(text)) = text
    BY <1>1, <1>4, Middle
  <2> QED
    BY <1>2, <1>3, <1>4, <2>1
<1>7. n \in DOMAIN wire
  BY <1>3
<1> HIDE DEF n
<1> SUFFICES /\ IsNumber(number) /\ Reads(number, 10) = line /\ NoZeroInFront(number)
             /\ Len(rest) < DebugSize
             /\ \/ Len(rest) = DebugSize - 1
                \/ Len(rest) >= dir.width /\ StandsForArgument(rest)
  BY <1>7, Zenon DEF SendsLine
<1> HIDE DEF number, rest
<1> QED
  BY <1>1, <1>5, <1>6 DEF TextOK

\* sys_print sends the bytes of the program, and a debug line its number and the
\* argument as the directive says.
THEOREM SerialSendsText == SerialSpec => []SendsText
<1>1. SerialInv => SendsText
  <2> SUFFICES ASSUME SerialInv, spc = "done" PROVE IF dir = NoDirective THEN SendsBytes ELSE SendsLine
    BY DEF SendsText
  <2>1. OutOK /\ SentOK /\ Len(wire) = Len(out)
    BY DEF SerialInv, PortOK
  <2>2. wire = out
    BY <2>1, SubSeqFull DEF OutOK, SentOK
  <2>3. CASE dir = NoDirective
    BY <2>1, <2>2, <2>3 DEF OutOK, SendsBytes
  <2>4. CASE dir # NoDirective
    BY <2>1, <2>2, <2>4, LineSent DEF OutOK
  <2> QED
    BY <2>3, <2>4
<1> QED
  BY <1>1, SerialInvariant, PTL

\* What is left to do for memcpy, for printf and for the port.
MemcpyLeft ==
    (3 * (size - (dst8 - dest))) + (IF mpc = "align" THEN 2 ELSE IF mpc = "words" THEN 1 ELSE 0)

PrintfLeft ==
    IF ppc = "convert" THEN 4 * (Modulus + 1)
    ELSE IF ppc = "scale" THEN (2 * (Modulus + 1)) + (Modulus - d)
    ELSE IF ppc = "digits" THEN (Modulus + 1) + d
    ELSE IF ppc = "put" THEN 1 ELSE 0

PortLeft == Len(out) - Len(wire)

LEMMA MemcpyLeftNat == MemcpyOK /\ mpc \in {"align", "words", "rest"} => MemcpyLeft \in Nat
<1> SUFFICES ASSUME MemcpyOK, mpc \in {"align", "words", "rest"} PROVE MemcpyLeft \in Nat
  OBVIOUS
<1> DEFINE left == size - (dst8 - dest)
<1>1. dest \in Nat /\ size \in Nat /\ dst8 \in Nat /\ dest <= dst8 /\ TypeWidth \in Nat \ {0, 1}
  BY Widths DEF MemcpyOK
<1>2. CASE mpc = "align"
  <2>1. PICK t \in Int : Aligned(t) /\ dst8 <= t /\ size >= TypeWidth
    BY <1>2 DEF MemcpyOK, AlignOK
  <2>2. left \in Nat
    BY <1>1, <2>1 DEF Aligned
  <2> HIDE DEF left
  <2>3. (3 * left) + 2 \in Nat
    BY <2>2
  <2> QED
    BY <1>2, <2>3 DEF MemcpyLeft, left
<1>3. CASE mpc = "words"
  <2>1. length \in Nat /\ count \in Nat /\ (dst8 - dest) + (length * TypeWidth) + (count % TypeWidth) = size
    BY <1>3 DEF MemcpyOK, WordsOK
  <2>2. length * TypeWidth \in Nat /\ count % TypeWidth \in Nat
    BY <1>1, <2>1, Product
  <2> DEFINE p == length * TypeWidth
             r == count % TypeWidth
  <2>3. p \in Nat /\ r \in Nat /\ (dst8 - dest) + p + r = size
    BY <2>1, <2>2
  <2> HIDE DEF p, r
  <2>4. left \in Nat
    BY <1>1, <2>3
  <2> HIDE DEF left
  <2>5. (3 * left) + 1 \in Nat
    BY <2>4
  <2> QED
    BY <1>3, <2>5 DEF MemcpyLeft, left
<1>4. CASE mpc = "rest"
  <2>1. count \in Nat /\ (dst8 - dest) + count = size
    BY <1>4 DEF MemcpyOK, RestOK
  <2>2. left \in Nat
    BY <1>1, <2>1
  <2> HIDE DEF left
  <2>3. (3 * left) + 0 \in Nat
    BY <2>2
  <2> QED
    BY <1>4, <2>3 DEF MemcpyLeft, left
<1> QED
  BY <1>2, <1>3, <1>4

LEMMA MemcpyLessLeft ==
    ASSUME MemcpyOK, MemcpyStep
    PROVE  MemcpyLeft \in Nat /\ MemcpyLeft' \in Nat /\ MemcpyLeft' < MemcpyLeft
<1>1. mpc \in {"align", "words", "rest"} /\ mpc' \in {"align", "words", "rest"} /\ dest' = dest /\ size' = size
  BY DEF MemcpyStep, AlignByte, FirstWord, CopyWord, CopyUnrolled, EndWords, RestByte, CopyByte, CopyWords, args
<1>2. MemcpyLeft \in Nat /\ MemcpyLeft' \in Nat
  <2>1. MemcpyOK'
    BY MemcpyStepOK
  <2>2. MemcpyLeft \in Nat
    BY <1>1, MemcpyLeftNat
  <2>3. (MemcpyOK /\ mpc \in {"align", "words", "rest"} => MemcpyLeft \in Nat)'
    BY MemcpyLeftNat, PTL
  <2> QED
    BY <1>1, <2>1, <2>2, <2>3
<1>3. dest \in Nat /\ size \in Nat /\ dst8 \in Nat
  BY <1>1 DEF MemcpyOK
<1>4. CASE AlignByte \/ RestByte
  <2>1. dst8' = dst8 + 1 /\ mpc' = mpc
    BY <1>4 DEF AlignByte, RestByte, CopyByte
  <2> QED
    BY <1>1, <1>2, <1>3, <2>1 DEF MemcpyLeft
<1>5. CASE FirstWord \/ EndWords
  <2>1. dst8' = dst8 /\ ((mpc = "align" /\ mpc' = "words") \/ (mpc = "words" /\ mpc' = "rest"))
    BY <1>5 DEF FirstWord, EndWords
  <2> QED
    BY <1>1, <1>2, <1>3, <2>1 DEF MemcpyLeft
<1>6. ASSUME NEW n \in Nat \ {0}, CopyWords(n) PROVE MemcpyLeft' < MemcpyLeft
  <2>1. dst8' = dst8 + n * TypeWidth /\ mpc' = mpc
    BY <1>6 DEF CopyWords
  <2> DEFINE p == n * TypeWidth
  <2>2. p \in Nat \ {0}
    BY Widths
  <2>3. dst8' = dst8 + p
    BY <2>1
  <2> HIDE DEF p
  <2> QED
    BY <1>1, <1>2, <1>3, <2>1, <2>2, <2>3 DEF MemcpyLeft
<1>7. CASE CopyWord \/ CopyUnrolled
  <2>1. PICK n \in {1, Unroll} : CopyWords(n)
    BY <1>7 DEF CopyWord, CopyUnrolled
  <2>2. n \in Nat \ {0}
    BY <2>1, Widths
  <2> QED
    BY <1>2, <1>6, <2>1, <2>2
<1> QED
  BY <1>2, <1>4, <1>5, <1>7 DEF MemcpyStep

LEMMA PrintfLessLeft ==
    ASSUME PrintfOK, PrintfStep(DebugSize)
    PROVE  PrintfLeft \in Nat /\ PrintfLeft' \in Nat /\ PrintfLeft' < PrintfLeft
<1>1. Modulus \in Nat \ {0}
  BY PrintfConstants
<1>2. CASE Number
  <2>1. ppc = "convert" /\ ppc' = "scale" /\ d' = 1
    BY <1>2 DEF Number
  <2> QED
    BY <1>1, <2>1 DEF PrintfLeft
<1>3. CASE String
  <2>1. ppc = "convert" /\ ppc' = "put"
    BY <1>3 DEF String
  <2> QED
    BY <1>1, <2>1 DEF PrintfLeft
<1>4. CASE Scale
  <2>1. ppc = "scale" /\ IF Scales THEN d' = d * Base /\ ppc' = ppc ELSE d' = d /\ ppc' = "digits"
    BY <1>4, ScaleGrows DEF Scale
  <2>2. num \in Nat /\ num < Modulus /\ d \in Nat \ {0} /\ (d = 1 \/ d <= num)
    BY <1>4, ScaleGrows
  <2>3. d <= Modulus
    BY <1>1, <2>2
  <2>4. CASE Scales
    <3> DEFINE p == d * Base
    <3>1. p > d /\ p <= num /\ p \in Nat
      BY <1>4, <2>2, <2>4, ScaleGrows, BaseIs
    <3>2. d' = p /\ ppc' = "scale"
      BY <2>1, <2>4
    <3> HIDE DEF p
    <3> QED
      BY <1>1, <2>1, <2>2, <2>3, <3>1, <3>2 DEF PrintfLeft
  <2>5. CASE ~Scales
    BY <1>1, <2>1, <2>2, <2>3, <2>5 DEF PrintfLeft
  <2> QED
    BY <2>4, <2>5
<1>5. CASE Digits
  <2>1. ppc = "digits" /\ IF d = 0 THEN ppc' = "put" ELSE d' = d \div Base /\ ppc' = ppc
    BY <1>5 DEF Digits
  <2>2. CASE d = 0
    BY <1>1, <2>1, <2>2 DEF PrintfLeft
  <2>3. CASE d # 0
    <3>1. d \in Nat \ {0} /\ Base \in {10, 16}
      <4>1. IsPower(d, Base)
        BY <2>1, <2>3 DEF PrintfOK, DigitsOK
      <4> QED
        BY <4>1, BaseIs, PowerIs
    <3>2. d \div Base \in Nat /\ d \div Base < d
      BY <3>1
    <3>3. d' \in Nat /\ d' < d
      BY <2>1, <2>3, <3>2
    <3>4. PrintfLeft = (Modulus + 1) + d /\ PrintfLeft' = (Modulus + 1) + d'
      BY <2>1, <2>3 DEF PrintfLeft
    <3> DEFINE old == d
               new == d'
    <3>5. old \in Nat /\ new \in Nat /\ new < old
      BY <3>1, <3>3
    <3>6. PrintfLeft = (Modulus + 1) + old /\ PrintfLeft' = (Modulus + 1) + new
      BY <3>4
    <3> HIDE DEF old, new
    <3> QED
      BY <1>1, <3>5, <3>6
  <2> QED
    BY <2>2, <2>3
<1>6. CASE Put(DebugSize)
  <2>1. ppc = "put" /\ ppc' = "done"
    BY <1>6 DEF Put
  <2> QED
    BY <2>1 DEF PrintfLeft
<1> QED
  BY <1>2, <1>3, <1>4, <1>5, <1>6 DEF PrintfStep

\* Every loop of the output comes to its end: each turn of memcpy's, of ui2a's two and
\* of serial_write_string's leaves less to do than there was.
LoopsEnd ==
    [][/\ MemcpyStep => MemcpyLeft \in Nat /\ MemcpyLeft' \in Nat /\ MemcpyLeft' < MemcpyLeft
       /\ PrintfStep(DebugSize) => PrintfLeft \in Nat /\ PrintfLeft' \in Nat /\ PrintfLeft' < PrintfLeft
       /\ WriteByte => PortLeft \in Nat /\ PortLeft' \in Nat /\ PortLeft' < PortLeft]_serialVars

\* It is why the output returns, as far as it can be said without fairness: no loop of
\* memcpy, ui2a or serial_write_string turns for ever, for any arguments.
THEOREM OutputLoopsEnd == SerialSpec => LoopsEnd
<1>1. SerialInv /\ MemcpyStep => MemcpyLeft \in Nat /\ MemcpyLeft' \in Nat /\ MemcpyLeft' < MemcpyLeft
  BY MemcpyLessLeft DEF SerialInv
<1>2. SerialInv /\ PrintfStep(DebugSize) => PrintfLeft \in Nat /\ PrintfLeft' \in Nat /\ PrintfLeft' < PrintfLeft
  BY PrintfLessLeft DEF SerialInv
<1>3. SerialInv /\ WriteByte => PortLeft \in Nat /\ PortLeft' \in Nat /\ PortLeft' < PortLeft
  <2> SUFFICES ASSUME SerialInv, WriteByte
               PROVE  PortLeft \in Nat /\ PortLeft' \in Nat /\ PortLeft' < PortLeft
    OBVIOUS
  <2> DEFINE c == out[Len(wire) + 1]
  <2>1. /\ spc = "write" /\ Len(wire) < Len(out) /\ wire' = Append(wire, c) /\ out' = out
    BY DEF WriteByte
  <2>2. wire \in Seq(Nat) /\ out \in Seq(Nat)
    BY <2>1 DEF SerialInv, PortOK, OutOK, SentOK
  <2>3. Len(wire) \in Nat /\ Len(out) \in Nat
    BY <2>2, LenProperties
  <2>4. Len(wire') = Len(wire) + 1
    <3>1. c \in Nat
      <4>1. out \in [1 .. Len(out) -> Nat] /\ Len(wire) + 1 \in 1 .. Len(out)
        BY <2>1, <2>2, <2>3, LenProperties
      <4> QED
        BY <4>1
    <3> HIDE DEF c
    <3> QED
      BY <2>1, <2>2, <3>1, AppendProperties
  <2> QED
    BY <2>1, <2>3, <2>4 DEF PortLeft
<1> QED
  BY <1>1, <1>2, <1>3, SerialInvariant, PTL DEF SerialSpec, LoopsEnd

=============================================================================

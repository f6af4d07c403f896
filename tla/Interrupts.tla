----------------------------- MODULE Interrupts -----------------------------
(***************************************************************************)
(* Interrupt delivery: the two interrupt controllers (8259, external) as   *)
(* kernel/pic.c sets them up, the gates and stubs of kernel/idt.c and      *)
(* kernel/idt.asm, the end-of-interrupt commands of the handlers, and the  *)
(* timer with the sleep() that main() ends in.                             *)
(*                                                                         *)
(* A line the controllers hold in service blocks itself and every line of  *)
(* lower priority until a handler sends an end of interrupt (EOI).  An EOI *)
(* does not name a line: it retires the highest one in service.  Every     *)
(* caller of PIC_sendEOI passes a vector (at least 0x20) where a line is   *)
(* expected, so both controllers always get one; keyboard_handler may send *)
(* two.  That this retires the right lines rests on handlers not nesting.  *)
(***************************************************************************)
EXTENDS Integers, Sequences

CONSTANTS
    Lines,   \* interrupt lines in use: 0 .. 15
    Ms       \* argument of sleep()

Timer == 0
Keyboard == 1
Cascade == 2
Mouse == 12
Ata == {14, 15}
Master == 0 .. 7
Slave == 8 .. 15
Handled == {Timer, Keyboard, Mouse} \cup Ata

ASSUME InterruptsAssumption ==
    /\ Lines \subseteq (Master \cup Slave) \ {Cascade}
    /\ Ms \in Nat

VARIABLES
    irr,        \* lines requested and not yet delivered
    isr,        \* lines in service, the cascade among them
    if,         \* the flag IF
    run,        \* handlers running, the innermost last: line and what is left to do
    pc,         \* where main() is in sleep()
    countdown,  \* of idt.c
    elapsed,    \* history: timer interrupts from sleep()'s store to its return,
                \* counted to Ms + 2
    credit      \* lines that may still interrupt before main()'s next instruction

vars == <<irr, isr, if, run, pc, countdown, elapsed, credit>>

First(S) == CHOOSE x \in S : \A y \in S : x <= y
-----------------------------------------------------------------------------
\* Mutants: the slave never gets an EOI; the master gets one only for its own
\* lines.
SendEOIMaster(irq) == <<"eoi1">>
SendEOIElse(irq) == IF irq >= 8 THEN <<"eoi2">> ELSE <<"eoi1">>

\* PIC_sendEOI: the commands it sends.
SendEOI(irq) == IF irq >= 8 THEN <<"eoi2", "eoi1">> ELSE <<"eoi1">>

\* What the handlers do to the controllers and to the timer, in order.  The
\* stub of a vector nobody handles reports it and executes hlt, with IF clear.
Code(line) ==
    CASE line = Timer    -> { <<"tick">> \o SendEOI(32) }
      [] line = Keyboard -> { SendEOI(34), SendEOI(34) \o SendEOI(34) }
      [] line = Mouse    -> { SendEOI(44) }
      [] line \in Ata    -> { SendEOI(32 + line) }
      [] OTHER           -> { <<"hang">> }

\* What the master and the slave would deliver next.  The slave interrupts the
\* master's cascade line; a line in service blocks what has no higher priority.
SlavePending == {l \in irr \cap Slave : \A s \in isr \cap Slave : l < s}
MasterPending ==
    LET reqs == (irr \cap Master) \cup (IF SlavePending # {} THEN {Cascade} ELSE {})
    IN  {l \in reqs : \A s \in isr \cap Master : l < s}

\* Mutant: a trap gate (0x8F).
TrapGateIf == TRUE

\* An interrupt gate (0x8E) enters with IF clear.
GateIf == FALSE

Dead == run # <<>> /\ run[Len(run)].todo = <<"hang">>

Init ==
    /\ irr = {} /\ isr = {}
    /\ if = TRUE /\ run = <<>>
    /\ pc = "set" /\ countdown = 0 /\ elapsed = 0
    /\ credit = Lines

\* A device requests an interrupt.  Devices are slow: between two instructions
\* of main() each does so once at most.
Raise(l) ==
    /\ l \in credit
    /\ irr' = irr \cup {l} /\ credit' = credit \ {l}
    /\ UNCHANGED <<isr, if, run, pc, countdown, elapsed>>

\* The CPU accepts the interrupt of highest priority, and wakes up from hlt.
Deliver ==
    /\ if /\ ~Dead /\ MasterPending # {}
    /\ LET m == First(MasterPending)
           l == IF m = Cascade THEN First(SlavePending) ELSE m
       IN  /\ irr' = irr \ {l}
           /\ isr' = isr \cup {m, l}
           /\ \E ops \in Code(l) : run' = Append(run, [line |-> l, todo |-> ops, fl |-> if])
    /\ if' = GateIf
    /\ pc' = IF pc = "halted" THEN "test" ELSE pc
    /\ UNCHANGED <<countdown, elapsed, credit>>
-----------------------------------------------------------------------------
Running == run[Len(run)]
Doing(op) == run # <<>> /\ Running.todo # <<>> /\ Head(Running.todo) = op
Advance == run' = [run EXCEPT ![Len(run)].todo = Tail(@)]

InSleep == pc \in {"test", "hlt", "halted"}

\* Mutants: a countdown below zero; a countdown that stops at one.
TickBelowZero ==
    /\ Doing("tick") /\ Advance
    /\ countdown' = countdown - 1
    /\ elapsed' = IF InSleep /\ elapsed <= Ms + 1 THEN elapsed + 1 ELSE elapsed
    /\ UNCHANGED <<irr, isr, if, pc, credit>>

TickToOne ==
    /\ Doing("tick") /\ Advance
    /\ countdown' = IF countdown > 1 THEN countdown - 1 ELSE countdown
    /\ elapsed' = IF InSleep /\ elapsed <= Ms + 1 THEN elapsed + 1 ELSE elapsed
    /\ UNCHANGED <<irr, isr, if, pc, credit>>

\* timer_handler
Tick ==
    /\ Doing("tick") /\ Advance
    /\ countdown' = IF countdown > 0 THEN countdown - 1 ELSE countdown
    /\ elapsed' = IF InSleep /\ elapsed <= Ms + 1 THEN elapsed + 1 ELSE elapsed
    /\ UNCHANGED <<irr, isr, if, pc, credit>>

\* outb(PIC2_COMMAND, PIC_EOI), outb(PIC1_COMMAND, PIC_EOI)
Retire(pic) == isr' = IF isr \cap pic = {} THEN isr ELSE isr \ {First(isr \cap pic)}

Eoi2 ==
    /\ Doing("eoi2") /\ Advance
    /\ Retire(Slave)
    /\ UNCHANGED <<irr, if, pc, countdown, elapsed, credit>>

Eoi1 ==
    /\ Doing("eoi1") /\ Advance
    /\ Retire(Master)
    /\ UNCHANGED <<irr, if, pc, countdown, elapsed, credit>>

\* iretq
Iret ==
    /\ run # <<>> /\ Running.todo = <<>>
    /\ run' = SubSeq(run, 1, Len(run) - 1)
    /\ if' = Running.fl
    /\ UNCHANGED <<irr, isr, pc, countdown, elapsed, credit>>

Handler == Tick \/ Eoi2 \/ Eoi1 \/ Iret
-----------------------------------------------------------------------------
\* One instruction of main(): only between handlers, and after the interrupts
\* that are due.
Main(from, to) ==
    /\ run = <<>> /\ MasterPending = {}
    /\ pc = from /\ pc' = to
    /\ credit' = Lines
    /\ UNCHANGED <<irr, isr, if, run>>

SleepSet == Main("set", "test") /\ countdown' = Ms /\ elapsed' = 0

\* Mutant: the loop ends one tick early.
SleepTestEarly ==
    /\ \/ Main("test", "hlt") /\ countdown > 1
       \/ Main("test", "return") /\ countdown <= 1
    /\ UNCHANGED <<countdown, elapsed>>

\* The loop of sleep(): a tick may fall between the test and the hlt, which
\* then waits for the next interrupt.
SleepTest ==
    /\ \/ Main("test", "hlt") /\ countdown > 0
       \/ Main("test", "return") /\ countdown = 0
    /\ UNCHANGED <<countdown, elapsed>>

SleepHlt == Main("hlt", "halted") /\ UNCHANGED <<countdown, elapsed>>

\* main()'s while (1).
SleepAgain == Main("return", "set") /\ UNCHANGED <<countdown, elapsed>>

MainStep == SleepSet \/ SleepTest \/ SleepHlt \/ SleepAgain

Next == (\E l \in Lines : Raise(l)) \/ Deliver \/ Handler \/ MainStep

\* The CPU never stops between interrupts, and the timer never stops.
Fairness ==
    /\ WF_vars(Deliver) /\ WF_vars(Handler) /\ WF_vars(MainStep)
    /\ WF_vars(Raise(Timer))

Spec == Init /\ [][Next]_vars /\ Fairness
-----------------------------------------------------------------------------
Op == {"tick", "eoi1", "eoi2", "hang"}

TypeOK ==
    /\ irr \subseteq Lines /\ isr \subseteq Lines \cup {Cascade}
    /\ if \in BOOLEAN
    /\ run \in Seq([line : Lines, todo : Seq(Op), fl : BOOLEAN])
    /\ pc \in {"set", "test", "hlt", "halted", "return"}
    /\ countdown \in 0 .. Ms /\ elapsed \in 0 .. (Ms + 2)
    /\ credit \subseteq Lines

\* An EOI retires only the line whose handler sends it (and, for a line of the
\* slave, the cascade): the stray EOIs to the other controller and the second
\* EOI of keyboard_handler retire nothing.
EoiRetiresOwn ==
    [][\A l \in isr \ isr' : l = Running.line \/ (l = Cascade /\ Running.line \in Slave)]_vars

\* When no handler runs no line is in service: none is blocked.
NothingLeftInService == run = <<>> => isr = {}

\* sleep(ms) returns after ms timer interrupts, or one more when a tick falls
\* between its test and its hlt.
SleepLength == pc = "return" => elapsed \in Ms .. (Ms + 1)

\* Every interrupt request is delivered, unless a vector without a handler has
\* stopped the machine.
EveryRequestDelivered == \A l \in Lines : (l \in irr) ~> (l \notin irr \/ Dead)

\* sleep() returns, although the wake-up it waits for may come just before hlt.
SleepReturns == (pc = "test") ~> (pc = "return" \/ Dead)
=============================================================================

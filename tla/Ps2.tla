--------------------------------- MODULE Ps2 ---------------------------------
(***************************************************************************)
(* The PS/2 controller and what shares its one output buffer: enable_mouse *)
(* (kernel/drivers/mouse.c), which polls it through kernel/ps2.c before    *)
(* interrupts are on, keyboard_handler, which reads it without a test, and *)
(* mouse_handler, which reads on until it is empty and does not ask whose  *)
(* byte it has.                                                            *)
(*                                                                         *)
(* Controller, keyboard and mouse are external: they run whenever they     *)
(* like, between any two accesses of the kernel.  An interrupt request is  *)
(* latched when a byte comes, and stays when the byte is gone.  Assumed:   *)
(* the controller takes each byte it is written within the 500 polls that  *)
(* ps2_wait_write makes.  What the mouse takes for its answers is free.    *)
(***************************************************************************)
EXTENDS Naturals, Sequences

None == "none"

\* Scan codes, told apart by their bit 0; the controller's mode byte; 0xfa of
\* the mouse; the three bytes of a packet; what a read that failed returns.
Scancode == {"even_key", "odd_key"}
Packet == <<"status", "xrel", "yrel">>
PacketByte == {Packet[n] : n \in 1 .. 3}
FromMouse == PacketByte \cup {"ack"}
Byte == Scancode \cup {"mode"} \cup FromMouse

KeyboardIrq == 1
MouseIrq == 12

VARIABLES
    out,        \* output buffer of the controller: a byte or None
    last,       \* what port 0x60 returns when it is empty
    owes,       \* answers the controller and the mouse have yet to give
    keyOn,      \* mode bit 0: bytes of the keyboard raise an interrupt
    mouseOn,    \* mode bit 1: bytes of the mouse do
    keyOnAtBoot,
    reporting,  \* the mouse sends packets
    index,      \* the packet byte it sends next
    irr,        \* interrupts requested and not delivered
    pc,         \* enable_mouse; "ready" after it, "run" after sti
    waited,     \* ps2_wait_read has polled in vain
    status,     \* status of enable_mouse
    enabled,    \* enable_mouse has come to its end
    run,        \* handler running, or None
    mouse_count,
    raw         \* stat_raw, xrel_raw, yrel_raw

controller == <<out, last, owes, keyOn, mouseOn, irr>>
mouse == <<reporting, index>>
boot == <<keyOnAtBoot, pc, waited, status, enabled>>
handlers == <<run, mouse_count, raw>>
vars == <<controller, mouse, boot, handlers>>

Init ==
    /\ out = None /\ last = None /\ owes = <<>>
    /\ keyOn \in BOOLEAN /\ mouseOn \in BOOLEAN /\ keyOnAtBoot = keyOn
    /\ reporting = FALSE /\ index = 1
    /\ irr = {}
    /\ pc = "start" /\ waited = FALSE /\ status = None /\ enabled = FALSE
    /\ run = None /\ mouse_count = 0 /\ raw = <<None, None, None>>
-----------------------------------------------------------------------------
\* The line that a byte in the output buffer raises.
Line(b) == IF b \in FromMouse THEN MouseIrq ELSE KeyboardIrq
Raised(b, key, mou) ==
    IF b # None /\ (IF b \in FromMouse THEN mou ELSE key) THEN {Line(b)} ELSE {}

\* A byte comes to the output buffer, which takes one at a time.
Place(b) ==
    /\ out = None /\ out' = b
    /\ irr' = irr \cup Raised(b, keyOn, mouseOn)
    /\ UNCHANGED <<last, keyOn, mouseOn, boot, handlers>>

TypeKey(k) == Place(k) /\ UNCHANGED <<owes, mouse>>

Answer == owes # <<>> /\ Place(Head(owes)) /\ owes' = Tail(owes) /\ UNCHANGED mouse

MoveMouse ==
    /\ reporting /\ owes = <<>> /\ Place(Packet[index])
    /\ index' = IF index = 3 THEN 1 ELSE index + 1
    /\ UNCHANGED <<owes, reporting>>

Device == (\E k \in Scancode : TypeKey(k)) \/ Answer \/ MoveMouse
-----------------------------------------------------------------------------
At(from, to) == pc = from /\ pc' = to

\* Enables the mouse's port and asks for the mode byte.
AskStatus ==
    /\ At("start", "status")
    /\ owes' = Append(owes, "mode")
    /\ UNCHANGED <<out, last, keyOn, mouseOn, irr, mouse, keyOnAtBoot, waited, status, enabled, handlers>>

\* ps2_wait_read finds nothing.  It turns until a byte is there, however long:
\* its timer is unsigned, so never below 0.
PollEmpty ==
    /\ pc \in {"status", "defaults_ack", "report_ack"} /\ out = None /\ ~waited
    /\ waited' = TRUE
    /\ UNCHANGED <<controller, mouse, keyOnAtBoot, pc, status, enabled, handlers>>

\* ps2_read takes the byte.  But if the last poll in vain left the timer at 0,
\* ps2_wait_read answers false, and ps2_read fails (-1) with the byte there.
Ps2Read(b) ==
    /\ out # None /\ waited' = FALSE
    /\ \/ b = out /\ out' = None /\ last' = out
       \/ waited /\ b = "failed" /\ UNCHANGED <<out, last>>

ReadStatus ==
    /\ At("status", "mode")
    /\ \E b \in Byte \cup {"failed"} : Ps2Read(b) /\ status' = b
    /\ UNCHANGED <<owes, keyOn, mouseOn, irr, mouse, keyOnAtBoot, enabled, handlers>>

\* Bit 0 of status: that of the mode byte, if it is the mode byte.  A wrong byte
\* may also turn the keyboard off (bit 4): it then types no key, as it may here.
KeyBit == CASE status = "mode" -> keyOn
            [] status \in {"odd_key", "failed"} -> TRUE
            [] OTHER -> FALSE

\* status | 2 is the new mode byte; a byte waiting may raise its line now.
WriteMode ==
    /\ At("mode", "defaults")
    /\ keyOn' = KeyBit /\ mouseOn' = TRUE
    /\ irr' = irr \cup Raised(out, KeyBit, TRUE)
    /\ UNCHANGED <<out, last, owes, mouse, keyOnAtBoot, waited, status, enabled, handlers>>

SetDefaults ==
    /\ At("defaults", "defaults_ack")
    /\ owes' = Append(owes, "ack")
    /\ UNCHANGED <<out, last, keyOn, mouseOn, irr, mouse, keyOnAtBoot, waited, status, enabled, handlers>>

\* Mutant: the answer is not looked at.
DefaultsAnyAnswer ==
    /\ At("defaults_ack", "report")
    /\ \E b \in Byte \cup {"failed"} : Ps2Read(b)
    /\ UNCHANGED <<owes, keyOn, mouseOn, irr, mouse, keyOnAtBoot, status, enabled, handlers>>

\* Any answer but 0xfa ends enable_mouse.
ReadDefaultsAck ==
    /\ \E b \in Byte \cup {"failed"} :
        /\ Ps2Read(b)
        /\ At("defaults_ack", IF b = "ack" THEN "report" ELSE "ready")
    /\ UNCHANGED <<owes, keyOn, mouseOn, irr, mouse, keyOnAtBoot, status, enabled, handlers>>

EnableReporting ==
    /\ At("report", "report_ack")
    /\ owes' = Append(owes, "ack") /\ reporting' = TRUE
    /\ UNCHANGED <<out, last, keyOn, mouseOn, irr, index, keyOnAtBoot, waited, status, enabled, handlers>>

ReadReportAck ==
    /\ At("report_ack", "ready")
    /\ \E b \in Byte \cup {"failed"} : Ps2Read(b) /\ enabled' = (b = "ack")
    /\ UNCHANGED <<owes, keyOn, mouseOn, irr, mouse, keyOnAtBoot, status, handlers>>

\* The sti of idt_init; enable_ata comes before it.
Sti ==
    /\ At("ready", "run")
    /\ UNCHANGED <<controller, mouse, keyOnAtBoot, waited, status, enabled, handlers>>

EnableMouse == AskStatus \/ PollEmpty \/ ReadStatus \/ WriteMode \/ SetDefaults \/ ReadDefaultsAck
                 \/ EnableReporting \/ ReadReportAck \/ Sti
-----------------------------------------------------------------------------
\* Handlers do not nest; the keyboard's line goes first.
Deliver ==
    /\ pc = "run" /\ run = None
    /\ \/ KeyboardIrq \in irr /\ run' = "keyboard" /\ irr' = irr \ {KeyboardIrq}
       \/ irr = {MouseIrq} /\ run' = "mouse" /\ irr' = {}
    /\ UNCHANGED <<out, last, owes, keyOn, mouseOn, mouse, boot, mouse_count, raw>>

\* Mutant: the handler returns without a read.
KeyboardNoRead ==
    /\ run = "keyboard" /\ run' = None
    /\ UNCHANGED <<controller, mouse, boot, mouse_count, raw>>

\* keyboard_handler reads port 0x60, whatever is there: maybe a byte it has
\* seen, maybe the mouse's.
KeyboardRead ==
    /\ run = "keyboard" /\ run' = None
    /\ out' = None /\ last' = IF out # None THEN out ELSE last
    /\ UNCHANGED <<owes, keyOn, mouseOn, irr, mouse, boot, mouse_count, raw>>

\* mouse_handler's loop: the status, which says that there is a byte ...
MouseTest ==
    /\ run = "mouse"
    /\ run' = IF out = None THEN None ELSE "mouse_read"
    /\ UNCHANGED <<controller, mouse, boot, mouse_count, raw>>

\* Mutant: the count is reset one byte late.
CountLate == IF mouse_count = 3 THEN 0 ELSE mouse_count + 1

\* (mouse_count + 1) % 3
Count == (mouse_count + 1) % 3

\* ... then the byte, whosever it is, and handle().
MouseRead ==
    /\ run = "mouse_read" /\ run' = "mouse"
    /\ out' = None /\ last' = out
    /\ raw' = [n \in 1 .. 3 |-> IF n = mouse_count + 1 THEN out ELSE raw[n]]
    /\ mouse_count' = Count
    /\ UNCHANGED <<owes, keyOn, mouseOn, irr, mouse, boot>>

Handler == KeyboardRead \/ MouseTest \/ MouseRead

Next == Device \/ EnableMouse \/ Deliver \/ Handler

Spec == Init /\ [][Next]_vars
-----------------------------------------------------------------------------
TypeOK ==
    /\ out \in Byte \cup {None} /\ last \in Byte \cup {None}
    /\ owes \in Seq({"mode", "ack"}) /\ Len(owes) <= 2
    /\ {keyOn, mouseOn, keyOnAtBoot, reporting, waited, enabled} \subseteq BOOLEAN
    /\ index \in 1 .. 3
    /\ irr \subseteq {KeyboardIrq, MouseIrq}
    /\ pc \in {"start", "status", "mode", "defaults", "defaults_ack", "report",
               "report_ack", "ready", "run"}
    /\ status \in Byte \cup {None, "failed"}
    /\ run \in {None, "keyboard", "mouse", "mouse_read"}
    /\ mouse_count \in 0 .. 2
    /\ raw \in [1 .. 3 -> Byte \cup {None}]

\* Input never locks up: when no handler runs, no interrupt is due and the
\* byte's line is on, the output buffer, which blocks both devices, is empty.
NothingStuck ==
    pc = "run" /\ run = None /\ irr = {} => Raised(out, keyOn, mouseOn) = {}

\* When enable_mouse reports success, whatever keys were typed meanwhile and
\* however late the mouse was, the mouse reports, both devices interrupt as they
\* should, and no answer is left that mouse_handler would take for a packet.
EnabledIsTrue ==
    enabled =>
        /\ reporting /\ mouseOn /\ keyOn = keyOnAtBoot
        /\ owes = <<>> /\ out \notin {"ack", "mode"}

\* The comment on handle's third byte, "We have a complete packet.", if the mouse
\* has been enabled.
CompletePacket ==
    [][enabled /\ run = "mouse_read" /\ mouse_count = 2 => raw' = Packet]_vars
=============================================================================

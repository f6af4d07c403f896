----------------------------- MODULE Ps2_proofs -----------------------------
(***************************************************************************)
(* The output buffer never blocks a device whose interrupt is on, and      *)
(* enable_mouse never reports a success it has not had.                    *)
(***************************************************************************)
EXTENDS Ps2, TLAPS

\* A waiting byte has raised its line, or a handler is about to read it.
LineDue == run = None => Raised(out, keyOn, mouseOn) \subseteq irr

\* The answers enable_mouse has asked for and not read.
NoAnswer == out \notin {"mode", "ack"}
OwedNothing == NoAnswer /\ owes = <<>>
OwedMode == (NoAnswer /\ owes = <<"mode">>) \/ (out = "mode" /\ owes = <<>>)
OwedAck == (NoAnswer /\ owes = <<"ack">>) \/ (out = "ack" /\ owes = <<>>)
OwedBoth == (NoAnswer /\ owes = <<"mode", "ack">>) \/ (out = "mode" /\ owes = <<"ack">>)

\* A byte taken for the mode byte leaves the mode byte to be taken for the next
\* answer, which ends enable_mouse.
AnswersOK ==
    /\ pc = "start" => OwedNothing
    /\ pc = "status" => OwedMode
    /\ pc \in {"mode", "defaults"} => IF status = "mode" THEN OwedNothing ELSE OwedMode
    /\ pc = "defaults_ack" => IF status = "mode" THEN OwedAck ELSE OwedBoth
    /\ pc = "report" => OwedNothing /\ status = "mode"
    /\ pc = "report_ack" => OwedAck /\ status = "mode"
    /\ pc \notin {"report_ack", "ready", "run"} => ~reporting
    /\ enabled => OwedNothing /\ status = "mode" /\ pc \in {"ready", "run"}

ModeOK ==
    /\ pc \in {"start", "status", "mode"} => keyOn = keyOnAtBoot
    /\ status = "mode" => keyOn = keyOnAtBoot
    /\ pc \notin {"start", "status", "mode"} => mouseOn
    /\ pc = "report_ack" \/ enabled => reporting
    /\ pc # "run" => run = None

IInv ==
    /\ TypeOK /\ LineDue /\ AnswersOK /\ ModeOK
    /\ run = "mouse_read" => out # None

LEMMA AppendToOne ==
  ASSUME NEW S, NEW a \in S, NEW b \in S
  PROVE  Append(<<a>>, b) = <<a, b>>
<1> DEFINE t == Append(<<a>>, b)
<1>1. <<a>> \in Seq(S) /\ Len(<<a>>) = 1 /\ <<a>>[1] = a
  OBVIOUS
<1>2. t \in Seq(S) /\ Len(t) = 2 /\ t[1] = a /\ t[2] = b
  BY <1>1
<1>3. <<a, b>> \in Seq(S) /\ Len(<<a, b>>) = 2 /\ <<a, b>>[1] = a /\ <<a, b>>[2] = b
  OBVIOUS
<1> HIDE DEF t
<1>4. t = <<a, b>>
  BY <1>2, <1>3
<1> QED
  BY <1>4 DEF t

USE DEF None, Byte, Scancode, Packet, PacketByte, FromMouse, KeyboardIrq, MouseIrq

LEMMA InitIInv == Init => IInv
<1> SUFFICES ASSUME Init PROVE IInv
  OBVIOUS
<1>1. TypeOK
  <2>1. {keyOn, mouseOn, keyOnAtBoot, reporting, waited, enabled} \subseteq BOOLEAN
    BY Zenon DEF Init
  <2>2. owes \in Seq({"mode", "ack"}) /\ Len(owes) <= 2
    BY DEF Init
  <2>3. raw \in [1 .. 3 -> Byte \cup {None}]
    BY DEF Init
  <2> QED
    BY <2>1, <2>2, <2>3 DEF Init, TypeOK
<1>2. LineDue
  BY DEF Init, LineDue, Raised
<1>3. AnswersOK
  BY DEF Init, AnswersOK, OwedNothing, NoAnswer
<1>4. ModeOK
  BY DEF Init, ModeOK
<1> QED
  BY <1>1, <1>2, <1>3, <1>4 DEF Init, IInv

LEMMA TypeNext == IInv /\ [Next]_vars => TypeOK'
<1> SUFFICES ASSUME IInv, [Next]_vars PROVE TypeOK'
  OBVIOUS
<1> USE DEF IInv, TypeOK, AnswersOK, OwedNothing, OwedMode, OwedAck, OwedBoth, NoAnswer, controller, mouse, boot, handlers
<1>1. ASSUME NEW k \in Scancode, TypeKey(k) PROVE TypeOK'
  BY <1>1 DEF TypeKey, Place, Raised, Line
<1>2. CASE Answer
  BY <1>2 DEF Answer, Place, Raised, Line
<1>3. CASE MoveMouse
  BY <1>3 DEF MoveMouse, Place, Raised, Line
<1>4. CASE AskStatus
  BY <1>4 DEF AskStatus, At
<1>5. CASE PollEmpty
  BY <1>5 DEF PollEmpty
<1>6. CASE ReadStatus
  BY <1>6 DEF ReadStatus, At, Ps2Read
<1>7. CASE WriteMode
  BY <1>7 DEF WriteMode, At, KeyBit, Raised, Line
<1>8. CASE SetDefaults
  BY <1>8 DEF SetDefaults, At
<1>9. CASE ReadDefaultsAck
  BY <1>9 DEF ReadDefaultsAck, At, Ps2Read
<1>10. CASE EnableReporting
  BY <1>10 DEF EnableReporting, At
<1>11. CASE ReadReportAck
  BY <1>11 DEF ReadReportAck, At, Ps2Read
<1>12. CASE Sti
  BY <1>12 DEF Sti, At
<1>13. CASE Deliver
  BY <1>13 DEF Deliver
<1>14. CASE KeyboardRead
  BY <1>14 DEF KeyboardRead
<1>15. CASE MouseTest
  BY <1>15 DEF MouseTest
<1>16. CASE MouseRead
  BY <1>16 DEF MouseRead, Count
<1>17. CASE UNCHANGED vars
  BY <1>17 DEF vars
<1> QED
  BY <1>1, <1>2, <1>3, <1>4, <1>5, <1>6, <1>7, <1>8, <1>9, <1>10, <1>11, <1>12, <1>13, <1>14, <1>15, <1>16, <1>17 DEF Next, Device, EnableMouse, Handler

LEMMA LineNext == IInv /\ [Next]_vars => LineDue'
<1> SUFFICES ASSUME IInv, [Next]_vars PROVE LineDue'
  OBVIOUS
<1> USE DEF IInv, TypeOK, LineDue, ModeOK, Raised, Line, controller, mouse, boot, handlers
<1>1. ASSUME NEW k \in Scancode, TypeKey(k) PROVE LineDue'
  BY <1>1 DEF TypeKey, Place, Raised, Line
<1>2. CASE Answer
  BY <1>2 DEF Answer, Place, Raised, Line
<1>3. CASE MoveMouse
  BY <1>3 DEF MoveMouse, Place, Raised, Line
<1>4. CASE AskStatus
  BY <1>4 DEF AskStatus, At
<1>5. CASE PollEmpty
  BY <1>5 DEF PollEmpty
<1>6. CASE ReadStatus
  BY <1>6 DEF ReadStatus, At, Ps2Read
<1>7. CASE WriteMode
  BY <1>7 DEF WriteMode, At, KeyBit, Raised, Line
<1>8. CASE SetDefaults
  BY <1>8 DEF SetDefaults, At
<1>9. CASE ReadDefaultsAck
  BY <1>9 DEF ReadDefaultsAck, At, Ps2Read
<1>10. CASE EnableReporting
  BY <1>10 DEF EnableReporting, At
<1>11. CASE ReadReportAck
  BY <1>11 DEF ReadReportAck, At, Ps2Read
<1>12. CASE Sti
  BY <1>12 DEF Sti, At
<1>13. CASE Deliver
  BY <1>13 DEF Deliver
<1>14. CASE KeyboardRead
  BY <1>14 DEF KeyboardRead
<1>15. CASE MouseTest
  BY <1>15 DEF MouseTest
<1>16. CASE MouseRead
  BY <1>16 DEF MouseRead, Count
<1>17. CASE UNCHANGED vars
  BY <1>17 DEF vars
<1> QED
  BY <1>1, <1>2, <1>3, <1>4, <1>5, <1>6, <1>7, <1>8, <1>9, <1>10, <1>11, <1>12, <1>13, <1>14, <1>15, <1>16, <1>17 DEF Next, Device, EnableMouse, Handler

LEMMA AnswersNext == IInv /\ [Next]_vars => AnswersOK'
<1> SUFFICES ASSUME IInv, [Next]_vars PROVE AnswersOK'
  OBVIOUS
<1>0. AnswersOK
  BY DEF IInv
<1> USE DEF IInv, TypeOK, AnswersOK, OwedNothing, OwedMode, OwedAck, OwedBoth, NoAnswer, controller, mouse, boot, handlers
<1>1. ASSUME NEW k \in Scancode, TypeKey(k) PROVE AnswersOK'
  BY <1>1 DEF TypeKey, Place
<1>2. CASE Answer
  <2>1. owes = <<"mode">> => Head(owes) = "mode" /\ Tail(owes) = <<>>
    OBVIOUS
  <2>2. owes = <<"ack">> => Head(owes) = "ack" /\ Tail(owes) = <<>>
    OBVIOUS
  <2>3. owes = <<"mode", "ack">> => Head(owes) = "mode" /\ Tail(owes) = <<"ack">>
    OBVIOUS
  <2>4. owes # <<>> /\ owes' = Tail(owes) /\ out = None /\ out' = Head(owes)
    BY <1>2 DEF Answer, Place
  <2>5. /\ OwedMode => OwedMode'
        /\ OwedAck => OwedAck'
        /\ OwedBoth => OwedBoth'
        /\ ~OwedNothing
    BY <2>1, <2>2, <2>3, <2>4
  <2>6. UNCHANGED <<pc, status, enabled, reporting>>
    BY <1>2 DEF Answer, Place
  <2> HIDE DEF OwedNothing, OwedMode, OwedAck, OwedBoth, IInv, TypeOK
  <2> QED
    BY <1>0, <2>5, <2>6
<1>3. CASE MoveMouse
  BY <1>3 DEF MoveMouse, Place
<1>4. CASE AskStatus
  BY <1>4 DEF AskStatus, At
<1>5. CASE PollEmpty
  BY <1>5 DEF PollEmpty
<1>6. CASE ReadStatus
  BY <1>6 DEF ReadStatus, At, Ps2Read
<1>7. CASE WriteMode
  BY <1>7 DEF WriteMode, At, KeyBit
<1>8. CASE SetDefaults
  <2>1. Append(<<>>, "ack") = <<"ack">>
    OBVIOUS
  <2>2. Append(<<"mode">>, "ack") = <<"mode", "ack">>
    BY AppendToOne
  <2>3. /\ OwedNothing => OwedAck'
        /\ OwedMode => OwedBoth'
    BY <1>8, <2>1, <2>2 DEF SetDefaults
  <2>4. /\ pc = "defaults" /\ pc' = "defaults_ack"
        /\ UNCHANGED <<status, enabled, reporting>>
    BY <1>8 DEF SetDefaults, At
  <2> HIDE DEF OwedNothing, OwedMode, OwedAck, OwedBoth, IInv, TypeOK
  <2> QED
    BY <1>0, <2>3, <2>4
<1>9. CASE ReadDefaultsAck
  BY <1>9 DEF ReadDefaultsAck, At, Ps2Read
<1>10. CASE EnableReporting
  BY <1>10 DEF EnableReporting, At
<1>11. CASE ReadReportAck
  BY <1>11 DEF ReadReportAck, At, Ps2Read
<1>12. CASE Sti
  BY <1>12 DEF Sti, At
<1>13. CASE Deliver
  BY <1>13 DEF Deliver
<1>14. CASE KeyboardRead
  <2>1. pc = "run" /\ out' = None /\ UNCHANGED <<owes, pc, status, enabled, reporting>>
    BY <1>14 DEF KeyboardRead, ModeOK
  <2> QED
    BY <2>1
<1>15. CASE MouseTest
  BY <1>15 DEF MouseTest
<1>16. CASE MouseRead
  <2>1. pc = "run" /\ out' = None /\ UNCHANGED <<owes, pc, status, enabled, reporting>>
    BY <1>16 DEF MouseRead, ModeOK
  <2> QED
    BY <2>1
<1>17. CASE UNCHANGED vars
  BY <1>17 DEF vars
<1> QED
  BY <1>1, <1>2, <1>3, <1>4, <1>5, <1>6, <1>7, <1>8, <1>9, <1>10, <1>11, <1>12, <1>13, <1>14, <1>15, <1>16, <1>17 DEF Next, Device, EnableMouse, Handler

LEMMA ModeNext == IInv /\ [Next]_vars => ModeOK'
<1> SUFFICES ASSUME IInv, [Next]_vars PROVE ModeOK'
  OBVIOUS
<1> USE DEF IInv, TypeOK, ModeOK, AnswersOK, OwedNothing, OwedMode, OwedAck, OwedBoth, NoAnswer, controller, mouse, boot, handlers
<1>1. ASSUME NEW k \in Scancode, TypeKey(k) PROVE ModeOK'
  BY <1>1 DEF TypeKey, Place
<1>2. CASE Answer
  BY <1>2 DEF Answer, Place
<1>3. CASE MoveMouse
  BY <1>3 DEF MoveMouse, Place
<1>4. CASE AskStatus
  BY <1>4 DEF AskStatus, At
<1>5. CASE PollEmpty
  BY <1>5 DEF PollEmpty
<1>6. CASE ReadStatus
  BY <1>6 DEF ReadStatus, At, Ps2Read
<1>7. CASE WriteMode
  BY <1>7 DEF WriteMode, At, KeyBit
<1>8. CASE SetDefaults
  BY <1>8 DEF SetDefaults, At
<1>9. CASE ReadDefaultsAck
  BY <1>9 DEF ReadDefaultsAck, At, Ps2Read
<1>10. CASE EnableReporting
  BY <1>10 DEF EnableReporting, At
<1>11. CASE ReadReportAck
  BY <1>11 DEF ReadReportAck, At, Ps2Read
<1>12. CASE Sti
  BY <1>12 DEF Sti, At
<1>13. CASE Deliver
  BY <1>13 DEF Deliver
<1>14. CASE KeyboardRead
  BY <1>14 DEF KeyboardRead
<1>15. CASE MouseTest
  BY <1>15 DEF MouseTest
<1>16. CASE MouseRead
  BY <1>16 DEF MouseRead, Count
<1>17. CASE UNCHANGED vars
  BY <1>17 DEF vars
<1> QED
  BY <1>1, <1>2, <1>3, <1>4, <1>5, <1>6, <1>7, <1>8, <1>9, <1>10, <1>11, <1>12, <1>13, <1>14, <1>15, <1>16, <1>17 DEF Next, Device, EnableMouse, Handler

LEMMA NextIInv == IInv /\ [Next]_vars => IInv'
<1> SUFFICES ASSUME IInv, [Next]_vars PROVE IInv'
  OBVIOUS
<1>1. TypeOK' /\ LineDue' /\ AnswersOK' /\ ModeOK'
  BY TypeNext, LineNext, AnswersNext, ModeNext
<1>2. (run = "mouse_read" => out # None)'
  <2>1. run = "mouse_read" => out # None /\ pc = "run"
    BY DEF IInv, ModeOK
  <2> QED
    BY <2>1 DEF Next, vars, controller, mouse, boot, handlers, Device, TypeKey, Answer, MoveMouse,
       Place, EnableMouse, At, AskStatus, PollEmpty, ReadStatus, WriteMode, SetDefaults,
       ReadDefaultsAck, EnableReporting, ReadReportAck, Sti, Deliver, Handler, KeyboardRead,
       MouseTest, MouseRead
<1> QED
  BY <1>1, <1>2 DEF IInv

THEOREM Ps2Invariant == Spec => []IInv
  BY InitIInv, NextIInv, PTL DEF Spec
-----------------------------------------------------------------------------
\* Every variable keeps to its type: mouse_count stays a packet position, and
\* never more than two answers are owed.
THEOREM Ps2TypeCorrect == Spec => []TypeOK
<1>1. IInv => TypeOK
  BY DEF IInv
<1> QED
  BY <1>1, Ps2Invariant, PTL

\* keyboard_handler's one read and mouse_handler's loop leave no byte in the
\* output buffer whose interrupt is on and has been spent: input never sticks.
THEOREM InputNeverSticks == Spec => []NothingStuck
<1>1. IInv => NothingStuck
  BY DEF IInv, LineDue, NothingStuck
<1> QED
  BY <1>1, Ps2Invariant, PTL

\* When enable_mouse gets to its end, the mouse reports, both devices interrupt
\* as they did or should, and no answer is left over.
THEOREM EnabledMeansEnabled == Spec => []EnabledIsTrue
<1>1. IInv => EnabledIsTrue
  BY DEF IInv, TypeOK, AnswersOK, ModeOK, OwedNothing, NoAnswer, EnabledIsTrue
<1> QED
  BY <1>1, Ps2Invariant, PTL
=============================================================================

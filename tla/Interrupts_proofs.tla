--------------------------- MODULE Interrupts_proofs ---------------------------
(***************************************************************************)
(* Proofs about Interrupts, for every set of lines and every sleep.        *)
(*                                                                         *)
(* All of them rest on one fact: the gates clear IF, so handlers do not    *)
(* nest.  Then the lines in service are the one of the running handler     *)
(* and, for a line of the slave, the cascade, for as long as the EOI that  *)
(* retires them is still to come (Service); and between two instructions   *)
(* of main() at most one tick falls (OneTick), which is why sleep() counts *)
(* one too many at most (Counted).                                         *)
(***************************************************************************)
EXTENDS Interrupts, SequenceTheorems, TLAPS

\* What is in service while a handler for line has todo to do.
ServiceOf(line, todo) ==
    /\ isr \cap Slave \subseteq {line}
    /\ isr \cap Master \subseteq {IF line \in Slave THEN Cascade ELSE line}
    /\ isr \cap Slave # {} => \E n \in 1 .. Len(todo) : todo[n] \in {"eoi2", "hang"}
    /\ isr \cap Master # {} => \E n \in 1 .. Len(todo) : todo[n] \in {"eoi1", "hang"}

\* Handlers do not nest, and interrupted main() with IF set.
OneHandler ==
    /\ Len(run) <= 1
    /\ if = TRUE <=> run = <<>>
    /\ run # <<>> => run[1].fl = TRUE

Service ==
    /\ run = <<>> => isr = {}
    /\ run # <<>> => ServiceOf(run[1].line, run[1].todo)

\* A tick is the first thing the timer's handler does.
TickFirst == \A n \in 2 .. Len(run[1].todo) : run[1].todo[n] # "tick"

TickDue == run # <<>> /\ run[1].todo # <<>> /\ run[1].todo[1] = "tick"

\* The timer interrupts once at most before main()'s next instruction.
OneTick ==
    /\ run # <<>> => TickFirst
    /\ Timer \in credit => Timer \notin irr /\ ~TickDue
    /\ Timer \in irr => ~TickDue

NoTick == Timer \notin credit /\ Timer \notin irr /\ ~TickDue

\* What is left to count and what has been counted.
Counted ==
    /\ pc = "test" => \/ elapsed + countdown = Ms
                      \/ countdown = 0 /\ elapsed = Ms + 1 /\ NoTick
    /\ pc = "hlt" => elapsed + countdown = Ms /\ (countdown = 0 => NoTick)
    /\ pc = "halted" => elapsed + countdown = Ms /\ run = <<>>
    /\ pc = "return" => elapsed \in {Ms, Ms + 1}

IInv == TypeOK /\ OneHandler /\ Service /\ OneTick /\ Counted
-----------------------------------------------------------------------------
LEMMA TimerThenEois ==
    ASSUME NEW s, s = <<"tick">> \o <<"eoi2", "eoi1">>
    PROVE  /\ s \in Seq(Op) /\ Len(s) = 3
           /\ s[1] = "tick" /\ s[2] = "eoi2" /\ s[3] = "eoi1"
<1>1. <<"tick">> \in Seq(Op) /\ <<"eoi2", "eoi1">> \in Seq(Op)
  BY DEF Op
<1> QED
  BY <1>1

LEMMA EoisTwice ==
    ASSUME NEW s, s = <<"eoi2", "eoi1">> \o <<"eoi2", "eoi1">>
    PROVE  /\ s \in Seq(Op) /\ Len(s) = 4
           /\ s[1] = "eoi2" /\ s[2] = "eoi1" /\ s[3] = "eoi2" /\ s[4] = "eoi1"
<1>1. <<"eoi2", "eoi1">> \in Seq(Op)
  BY DEF Op
<1> QED
  BY <1>1

\* Every handler sends an EOI to the controllers that hold its line, or stops
\* the machine; only the timer's ticks, and that first.
LEMMA CodeSendsEois ==
    ASSUME NEW l \in Lines, NEW ops \in Code(l)
    PROVE  /\ ops \in Seq(Op) /\ ops # <<>>
           /\ \E n \in 1 .. Len(ops) : ops[n] \in {"eoi1", "hang"}
           /\ \E n \in 1 .. Len(ops) : ops[n] \in {"eoi2", "hang"}
           /\ \A n \in 2 .. Len(ops) : ops[n] # "tick"
           /\ ops[1] = "tick" => l = Timer
<1>1. /\ SendEOI(32) = <<"eoi2", "eoi1">>
      /\ SendEOI(34) = <<"eoi2", "eoi1">>
      /\ SendEOI(44) = <<"eoi2", "eoi1">>
  BY DEF SendEOI
<1>2. l \in Ata => SendEOI(32 + l) = <<"eoi2", "eoi1">>
  BY DEF SendEOI, Ata
<1>3. CASE l = Timer
  <2>1. Code(l) = {<<"tick">> \o SendEOI(32)}
    BY <1>3 DEF Code, Timer, Keyboard, Mouse, Ata
  <2>2. ops = <<"tick">> \o <<"eoi2", "eoi1">>
    BY <1>1, <2>1, Zenon
  <2> QED
    BY <1>3, <2>2, TimerThenEois
<1>4. CASE l = Keyboard
  <2>1. Code(l) = {SendEOI(34), SendEOI(34) \o SendEOI(34)}
    BY <1>4 DEF Code, Timer, Keyboard, Mouse, Ata
  <2>2. CASE ops = <<"eoi2", "eoi1">>
    BY <2>2 DEF Op
  <2>3. CASE ops = <<"eoi2", "eoi1">> \o <<"eoi2", "eoi1">>
    <3> HIDE DEF Code
    <3>1. /\ ops \in Seq(Op) /\ Len(ops) = 4
          /\ ops[1] = "eoi2" /\ ops[2] = "eoi1" /\ ops[3] = "eoi2" /\ ops[4] = "eoi1"
      BY <2>3, EoisTwice
    <3> QED
      BY <3>1
  <2> QED
    BY <1>1, <2>1, <2>2, <2>3, Zenon
<1>5. CASE l = Mouse \/ l \in Ata
  <2>1. Code(l) = {SendEOI(44)} \/ (l \in Ata /\ Code(l) = {SendEOI(32 + l)})
    BY <1>5 DEF Code, Timer, Keyboard, Mouse, Ata
  <2>2. ops = <<"eoi2", "eoi1">>
    BY <1>1, <1>2, <2>1, Zenon
  <2> QED
    BY <2>2 DEF Op
<1>6. CASE l \notin Handled
  <2>1. ops = <<"hang">>
    BY <1>6 DEF Code, Handled
  <2> QED
    BY <2>1 DEF Op
<1> QED
  BY <1>3, <1>4, <1>5, <1>6 DEF Handled

LEMMA LeastOfFour ==
    ASSUME NEW S \in SUBSET Int, NEW a \in Int, NEW x \in S, x \in a .. a + 3,
           \A y \in S : y >= a
    PROVE  \E m \in S : \A y \in S : m <= y
  OBVIOUS

LEMMA FirstIsLeast ==
    ASSUME NEW S \in SUBSET (Master \cup Slave), S # {}
    PROVE  First(S) \in S /\ \A y \in S : First(S) <= y
<1>1. S \subseteq 0 .. 15 /\ S \in SUBSET Int
  BY DEF Master, Slave
<1>2. \E x \in S : \A y \in S : x <= y
  <2>1. CASE \E x \in S : x \in 0 .. 3
    BY <1>1, <2>1, LeastOfFour
  <2>2. CASE (\A x \in S : x >= 4) /\ \E x \in S : x \in 4 .. 7
    BY <1>1, <2>2, LeastOfFour
  <2>3. CASE (\A x \in S : x >= 8) /\ \E x \in S : x \in 8 .. 11
    BY <1>1, <2>3, LeastOfFour
  <2>4. CASE \A x \in S : x >= 12
    <3>1. PICK x \in S : TRUE
      OBVIOUS
    <3>2. x \in 12 .. 12 + 3
      BY <1>1, <2>4
    <3> QED
      BY <1>1, <2>4, <3>2, LeastOfFour
  <2> QED
    BY <1>1, <2>1, <2>2, <2>3, <2>4
<1> QED
  BY <1>2, Zenon DEF First
-----------------------------------------------------------------------------
Frame == [line : Lines, todo : Seq(Op), fl : BOOLEAN]

LEMMA InitIInv == Init => IInv
<1> SUFFICES ASSUME Init PROVE IInv
  OBVIOUS
<1>1. TypeOK
  BY InterruptsAssumption DEF Init, TypeOK
<1> QED
  BY <1>1 DEF Init, IInv, OneHandler, Service, OneTick, Counted, TickDue

\* The innermost handler is the only one.
LEMMA TheHandler ==
    ASSUME IInv, run # <<>>
    PROVE  /\ Len(run) = 1 /\ run[1] \in Frame /\ Running = run[1]
           /\ if = FALSE /\ run[1].fl = TRUE /\ pc # "halted"
<1>1. run \in Seq(Frame) /\ Len(run) <= 1
  BY DEF IInv, TypeOK, OneHandler, Frame
<1>2. Len(run) \in Nat /\ Len(run) # 0
  BY <1>1, LenProperties, EmptySeq
<1>3. Len(run) = 1
  <2>1. \A x \in Nat : x <= 1 /\ x # 0 => x = 1
    OBVIOUS
  <2> QED
    BY <1>1, <1>2, <2>1, Zenon
<1>4. run[1] \in Frame
  BY <1>1, <1>3
<1> QED
  <2>1. if = FALSE
    BY DEF IInv, OneHandler, TypeOK
  <2> QED
    BY <1>3, <1>4, <2>1 DEF IInv, OneHandler, Counted, Running

LEMMA ReplaceOnly ==
    ASSUME NEW S, NEW s \in Seq(S), Len(s) = 1, NEW e \in S,
           NEW t, t = [s EXCEPT ![1] = e]
    PROVE  t \in Seq(S) /\ Len(t) = 1 /\ t[1] = e
<1>1. 1 \in 1 .. Len(s)
  OBVIOUS
<1> QED
  BY <1>1, ExceptSeq

\* A step of a handler takes one thing off its list.
LEMMA Advanced ==
    ASSUME IInv, NEW op \in Op, Doing(op), Advance
    PROVE  /\ run # <<>> /\ run' # <<>> /\ Len(run') = 1 /\ run' \in Seq(Frame)
           /\ run'[1].line = run[1].line /\ run'[1].fl = run[1].fl
           /\ run[1].todo \in Seq(Op) /\ run[1].todo # <<>> /\ run[1].todo[1] = op
           /\ run'[1].todo = Tail(run[1].todo)
           /\ Len(run'[1].todo) = Len(run[1].todo) - 1
           /\ \A n \in 1 .. Len(run'[1].todo) : run'[1].todo[n] = run[1].todo[n + 1]
<1>1. run # <<>>
  BY DEF Doing
<1>2. Len(run) = 1 /\ run[1] \in Frame /\ Running = run[1] /\ run \in Seq(Frame)
  BY <1>1, TheHandler DEF IInv, TypeOK, Frame
<1>3. run[1].todo \in Seq(Op) /\ run[1].todo # <<>> /\ run[1].todo[1] = op
  BY <1>2 DEF Doing, Frame
<1>4. Tail(run[1].todo) \in Seq(Op)
  BY <1>3
<1> DEFINE r == [run[1] EXCEPT !.todo = Tail(run[1].todo)]
<1>5. run' = [run EXCEPT ![1] = r]
  BY <1>2 DEF Advance
<1>6. /\ r \in Frame
      /\ r.line = run[1].line /\ r.fl = run[1].fl /\ r.todo = Tail(run[1].todo)
  BY <1>2, <1>4 DEF Frame
<1> HIDE DEF r
<1>7. run' \in Seq(Frame) /\ Len(run') = 1 /\ run'[1] = r
  BY <1>2, <1>5, <1>6, ReplaceOnly
<1>8. run' # <<>>
  BY <1>7
<1>9. /\ Len(Tail(run[1].todo)) = Len(run[1].todo) - 1
      /\ \A n \in 1 .. Len(Tail(run[1].todo)) : Tail(run[1].todo)[n] = run[1].todo[n + 1]
  BY <1>3, HeadTailProperties
<1> QED
  BY <1>1, <1>3, <1>6, <1>7, <1>8, <1>9

LEMMA RaiseIInv ==
    ASSUME IInv, NEW l \in Lines, Raise(l)
    PROVE  IInv'
<1> USE DEF IInv, Raise
<1>1. TypeOK'
  BY DEF TypeOK
<1>2. OneHandler' /\ Service'
  BY DEF OneHandler, Service, ServiceOf
<1>3. OneTick'
  BY DEF OneTick, TickFirst, TickDue
<1>4. Counted'
  BY DEF Counted, OneTick, NoTick, TickDue
<1> QED
  BY <1>1, <1>2, <1>3, <1>4

LEMMA DeliverIInv ==
    ASSUME IInv, Deliver
    PROVE  IInv'
<1> DEFINE m == First(MasterPending)
           l == IF m = Cascade THEN First(SlavePending) ELSE m
<1>1. run = <<>> /\ isr = {}
  BY DEF IInv, OneHandler, Service, Deliver
<1>2. irr \subseteq Lines /\ Lines \subseteq (Master \cup Slave) \ {Cascade}
  BY InterruptsAssumption DEF IInv, TypeOK
<1>3. m \in MasterPending
  <2>1. MasterPending \in SUBSET (Master \cup Slave)
    BY DEF MasterPending, Master, Slave, Cascade
  <2> QED
    BY <2>1, FirstIsLeast DEF Deliver
<1>4. /\ m \in Master
      /\ m = Cascade => SlavePending # {}
      /\ m # Cascade => m \in irr
  BY <1>2, <1>3 DEF MasterPending, Master, Cascade
<1>5. l \in irr /\ (m = Cascade => l \in Slave) /\ (m # Cascade => l \in Master)
  <2>1. CASE m = Cascade
    <3>1. SlavePending \in SUBSET (Master \cup Slave)
      BY DEF SlavePending
    <3>2. First(SlavePending) \in SlavePending
      BY <1>4, <2>1, <3>1, FirstIsLeast
    <3> QED
      BY <2>1, <3>2 DEF SlavePending
  <2> QED
    BY <1>4, <2>1
<1>6. PICK ops \in Code(l) : run' = Append(run, [line |-> l, todo |-> ops, fl |-> if])
  BY DEF Deliver
<1>7. /\ irr' = irr \ {l} /\ isr' = {m, l}
      /\ if' = FALSE /\ pc' = (IF pc = "halted" THEN "test" ELSE pc)
      /\ UNCHANGED <<countdown, elapsed, credit>>
  BY <1>1 DEF Deliver, GateIf
<1> HIDE DEF m, l
<1>8. l \in Lines
  BY <1>2, <1>5
<1>9. /\ ops \in Seq(Op) /\ ops # <<>>
      /\ \E n \in 1 .. Len(ops) : ops[n] \in {"eoi1", "hang"}
      /\ \E n \in 1 .. Len(ops) : ops[n] \in {"eoi2", "hang"}
      /\ \A n \in 2 .. Len(ops) : ops[n] # "tick"
      /\ ops[1] = "tick" => l = Timer
  BY <1>8, CodeSendsEois
<1>10. if = TRUE
  BY DEF Deliver
<1>11. /\ run' \in Seq(Frame) /\ Len(run') = 1 /\ run' # <<>>
       /\ run'[1].line = l /\ run'[1].todo = ops /\ run'[1].fl = TRUE
  BY <1>1, <1>6, <1>8, <1>9, <1>10 DEF Frame
<1>12. TypeOK'
  BY <1>2, <1>4, <1>5, <1>7, <1>8, <1>11 DEF IInv, TypeOK, Frame, Master
<1>13. OneHandler'
  BY <1>7, <1>11 DEF OneHandler
<1>14. Service'
  <2>1. /\ isr' \cap Slave \subseteq {l}
        /\ isr' \cap Master \subseteq {IF l \in Slave THEN Cascade ELSE l}
    BY <1>4, <1>5, <1>7 DEF Master, Slave, Cascade
  <2> QED
    BY <1>9, <1>11, <2>1 DEF Service, ServiceOf
<1>15. TickDue' => l = Timer
  BY <1>9, <1>11 DEF TickDue
<1>16. OneTick'
  BY <1>2, <1>5, <1>7, <1>9, <1>11, <1>15 DEF IInv, OneTick, TickFirst
<1>17. Counted'
  <2>1. NoTick => NoTick'
    BY <1>5, <1>7, <1>15 DEF NoTick
  <2>2. pc \in {"set", "test", "hlt", "halted", "return"}
    BY DEF IInv, TypeOK
  <2> QED
    BY <1>7, <2>1, <2>2 DEF IInv, Counted
<1> QED
  BY <1>12, <1>13, <1>14, <1>16, <1>17 DEF IInv

\* What every step of a handler preserves.
LEMMA HandlerIInv ==
    ASSUME IInv, NEW op \in Op, Doing(op), Advance, UNCHANGED if
    PROVE  /\ run' \in Seq(Frame) /\ OneHandler' /\ TickFirst' /\ ~TickDue'
           /\ \A o \in Op \ {op} :
                (\E n \in 1 .. Len(run[1].todo) : run[1].todo[n] \in {o, "hang"}) /\ op # "hang"
                    => \E n \in 1 .. Len(run'[1].todo) : run'[1].todo[n] \in {o, "hang"}
<1>1. /\ run # <<>> /\ run' # <<>> /\ Len(run') = 1 /\ run' \in Seq(Frame)
      /\ run'[1].line = run[1].line /\ run'[1].fl = run[1].fl
      /\ run[1].todo \in Seq(Op) /\ run[1].todo # <<>> /\ run[1].todo[1] = op
      /\ run'[1].todo = Tail(run[1].todo)
      /\ Len(run'[1].todo) = Len(run[1].todo) - 1
      /\ \A n \in 1 .. Len(run'[1].todo) : run'[1].todo[n] = run[1].todo[n + 1]
  BY Advanced
<1>2. if = FALSE /\ run[1].fl = TRUE
  BY <1>1, TheHandler
<1>3. OneHandler'
  BY <1>1, <1>2 DEF OneHandler
<1> DEFINE s == run[1].todo
           t == run'[1].todo
<1>4. /\ Len(s) \in Nat /\ Len(t) = Len(s) - 1 /\ s[1] = op
      /\ \A n \in 1 .. Len(t) : t[n] = s[n + 1]
  BY <1>1, LenProperties
<1>5. \A n \in 2 .. Len(s) : s[n] # "tick"
  BY <1>1 DEF IInv, OneTick, TickFirst
<1>6. t \in Seq(Op)
  BY <1>1, HeadTailProperties
<1>7. \A n \in 1 .. Len(t) : t[n] # "tick"
  <2> HIDE DEF s, t
  <2> QED
    BY <1>4, <1>5
<1>8. TickFirst'
  BY <1>4, <1>7 DEF TickFirst
<1>9. ~TickDue'
  <2>1. t # <<>> => 1 \in 1 .. Len(t)
    BY <1>6, EmptySeq
  <2> QED
    BY <1>7, <2>1 DEF TickDue
<1>10. ASSUME NEW o \in Op \ {op}, op # "hang",
              \E n \in 1 .. Len(s) : s[n] \in {o, "hang"}
       PROVE  \E n \in 1 .. Len(t) : t[n] \in {o, "hang"}
  <2> HIDE DEF s, t
  <2>1. PICK n \in 1 .. Len(s) : s[n] \in {o, "hang"}
    BY <1>10
  <2>2. n # 1
    BY <1>4, <1>10, <2>1
  <2>3. n - 1 \in 1 .. Len(t) /\ t[n - 1] = s[n]
    BY <1>4, <2>2
  <2> QED
    BY <2>1, <2>3
<1> QED
  BY <1>1, <1>3, <1>8, <1>9, <1>10

LEMMA TickIInv == IInv /\ Tick => IInv'
<1> SUFFICES ASSUME IInv, Tick PROVE IInv'
  OBVIOUS
<1>1. /\ Doing("tick") /\ Advance /\ UNCHANGED <<irr, isr, if, pc, credit>>
      /\ countdown' = (IF countdown > 0 THEN countdown - 1 ELSE countdown)
      /\ elapsed' = (IF InSleep /\ elapsed <= Ms + 1 THEN elapsed + 1 ELSE elapsed)
  BY DEF Tick
<1>2. "tick" \in Op /\ {"eoi1", "eoi2"} \subseteq Op \ {"tick"}
  BY DEF Op
<1>3. /\ run' \in Seq(Frame) /\ OneHandler' /\ TickFirst' /\ ~TickDue'
      /\ \A o \in {"eoi1", "eoi2"} :
            (\E n \in 1 .. Len(run[1].todo) : run[1].todo[n] \in {o, "hang"})
                => \E n \in 1 .. Len(run'[1].todo) : run'[1].todo[n] \in {o, "hang"}
  BY <1>1, <1>2, HandlerIInv
<1>4. run # <<>> /\ run' # <<>> /\ run'[1].line = run[1].line /\ TickDue
  BY <1>1, <1>2, Advanced DEF TickDue
<1>5. Service'
  BY <1>1, <1>3, <1>4 DEF IInv, Service, ServiceOf
<1>6. Ms \in Nat /\ countdown \in 0 .. Ms /\ elapsed \in 0 .. Ms + 2
  BY InterruptsAssumption DEF IInv, TypeOK
<1>7. pc # "halted"
  BY <1>4, TheHandler
<1>8. Timer \notin credit /\ Timer \notin irr /\ ~NoTick /\ NoTick'
  BY <1>1, <1>3, <1>4 DEF IInv, OneTick, NoTick
<1>9. Counted'
  <2>1. CASE pc = "test"
    BY <1>1, <1>6, <1>8, <2>1 DEF IInv, Counted, InSleep
  <2>2. CASE pc = "hlt"
    BY <1>1, <1>6, <1>8, <2>2 DEF IInv, Counted, InSleep
  <2>3. CASE pc \notin {"test", "hlt"}
    BY <1>1, <1>6, <1>7, <2>3 DEF IInv, Counted, InSleep
  <2> QED
    BY <2>1, <2>2, <2>3
<1>10. TypeOK'
  BY <1>1, <1>3, <1>6 DEF IInv, TypeOK, Frame
<1>11. OneTick'
  BY <1>1, <1>3 DEF IInv, OneTick
<1> QED
  BY <1>3, <1>5, <1>9, <1>10, <1>11 DEF IInv

\* An EOI retires the only line its controller can have in service.
LEMMA RetireOnly ==
    ASSUME NEW pic, NEW x, isr \cap pic \subseteq {x}, Retire(pic)
    PROVE  isr' = isr \ pic
<1>1. CASE isr \cap pic = {}
  BY <1>1 DEF Retire
<1>2. CASE isr \cap pic = {x}
  <2>1. First({x}) \in {x}
    <3>1. x \in isr \cap pic
      BY <1>2
    <3> QED
      BY <1>2 DEF First
  <2> QED
    BY <1>2, <2>1 DEF Retire
<1> QED
  BY <1>1, <1>2

LEMMA EoiIInv ==
    ASSUME IInv, Eoi2 \/ Eoi1
    PROVE  IInv' /\ \A l \in isr \ isr' :
                        l = Running.line \/ (l = Cascade /\ Running.line \in Slave)
<1>1. PICK op \in {"eoi1", "eoi2"} :
         /\ Doing(op) /\ Advance /\ UNCHANGED <<irr, if, pc, countdown, elapsed, credit>>
         /\ Retire(IF op = "eoi1" THEN Master ELSE Slave)
  BY DEF Eoi1, Eoi2
<1>2. op \in Op /\ op # "hang" /\ {"eoi1", "eoi2"} \subseteq Op
  BY <1>1 DEF Op
<1>3. /\ run' \in Seq(Frame) /\ OneHandler' /\ TickFirst' /\ ~TickDue'
      /\ \A o \in {"eoi1", "eoi2"} \ {op} :
            (\E n \in 1 .. Len(run[1].todo) : run[1].todo[n] \in {o, "hang"})
                => \E n \in 1 .. Len(run'[1].todo) : run'[1].todo[n] \in {o, "hang"}
  BY <1>1, <1>2, HandlerIInv
<1>4. /\ run # <<>> /\ run' # <<>> /\ run'[1].line = run[1].line
      /\ Running = run[1] /\ run[1] \in Frame
  BY <1>1, <1>2, Advanced, TheHandler
<1> DEFINE pic == IF op = "eoi1" THEN Master ELSE Slave
           x == IF op = "eoi1" /\ run[1].line \in Slave THEN Cascade ELSE run[1].line
<1>5. ServiceOf(run[1].line, run[1].todo)
  BY <1>4 DEF IInv, Service
<1>6. isr \cap pic \subseteq {x}
  BY <1>1, <1>5 DEF ServiceOf
<1>7. isr' = isr \ pic
  BY <1>1, <1>6, RetireOnly
<1>8. TypeOK'
  BY <1>1, <1>3, <1>7 DEF IInv, TypeOK, Frame
<1>9. Service'
  <2>1. CASE op = "eoi1"
    BY <1>3, <1>4, <1>5, <1>7, <2>1 DEF Service, ServiceOf
  <2>2. CASE op = "eoi2"
    BY <1>3, <1>4, <1>5, <1>7, <2>2 DEF Service, ServiceOf
  <2> QED
    BY <1>1, <2>1, <2>2
<1>10. OneTick'
  BY <1>1, <1>3 DEF IInv, OneTick
<1>11. Counted'
  <2>1. pc # "halted"
    BY <1>4, TheHandler
  <2>2. NoTick => NoTick'
    BY <1>1, <1>3 DEF NoTick
  <2> QED
    BY <1>1, <2>1, <2>2 DEF IInv, Counted
<1>12. \A l \in isr \ isr' : l = run[1].line \/ (l = Cascade /\ run[1].line \in Slave)
  BY <1>6, <1>7
<1> QED
  BY <1>3, <1>4, <1>8, <1>9, <1>10, <1>11, <1>12 DEF IInv

LEMMA IretIInv == IInv /\ Iret => IInv'
<1> SUFFICES ASSUME IInv, Iret PROVE IInv'
  OBVIOUS
<1>1. /\ run # <<>> /\ Running.todo = <<>> /\ run' = SubSeq(run, 1, Len(run) - 1)
      /\ if' = Running.fl /\ UNCHANGED <<irr, isr, pc, countdown, elapsed, credit>>
  BY DEF Iret
<1>2. /\ Len(run) = 1 /\ Running = run[1] /\ run[1] \in Frame /\ run[1].fl = TRUE
      /\ pc # "halted" /\ run \in Seq(Frame)
  BY <1>1, TheHandler DEF IInv, TypeOK, Frame
<1>3. run' = <<>> /\ if' = TRUE
  <2>1. SubSeq(run, 1, 0) = <<>>
    BY <1>2
  <2> QED
    BY <1>1, <1>2, <2>1
<1>4. isr = {}
  <2>1. run[1].todo = <<>> /\ ServiceOf(run[1].line, run[1].todo)
    BY <1>1, <1>2 DEF IInv, Service
  <2>2. isr \cap Slave = {} /\ isr \cap Master = {}
    BY <2>1 DEF ServiceOf
  <2>3. isr \subseteq Master \cup Slave
    BY InterruptsAssumption DEF IInv, TypeOK, Master, Cascade
  <2> QED
    BY <2>2, <2>3
<1>5. TypeOK'
  <2>1. run' \in Seq(Frame)
    BY <1>3, EmptySeq
  <2> QED
    BY <1>1, <1>3, <2>1 DEF IInv, TypeOK, Frame
<1>6. OneHandler' /\ Service'
  BY <1>1, <1>3, <1>4 DEF OneHandler, Service
<1>7. OneTick'
  BY <1>1, <1>3 DEF IInv, OneTick, TickDue
<1>8. Counted'
  BY <1>1, <1>2, <1>3 DEF IInv, Counted, NoTick, TickDue
<1> QED
  BY <1>5, <1>6, <1>7, <1>8 DEF IInv

\* Before main() goes on, the tick that was due has been counted.
LEMMA MainWaits ==
    ASSUME IInv, NEW from, NEW to, Main(from, to)
    PROVE  Timer \notin irr /\ OneHandler' /\ Service' /\ OneTick'
<1>1. run = <<>> /\ isr = {} /\ MasterPending = {}
  BY DEF IInv, Service, Main
<1>2. Timer \notin irr
  BY <1>1 DEF MasterPending, Master, Timer
<1>3. run' = <<>> /\ credit' = Lines /\ UNCHANGED <<irr, isr, if, run>>
  BY <1>1 DEF Main
<1> QED
  BY <1>1, <1>2, <1>3 DEF TickDue, IInv, OneHandler, Service, OneTick

LEMMA MainIInv == IInv /\ MainStep => IInv'
<1> SUFFICES ASSUME IInv, MainStep PROVE IInv'
  OBVIOUS
<1>1. PICK from, to : Main(from, to)
  BY DEF MainStep, SleepSet, SleepTest, SleepHlt, SleepAgain
<1>2. Timer \notin irr /\ OneHandler' /\ Service' /\ OneTick'
  BY <1>1, MainWaits
<1>3. Ms \in Nat /\ countdown \in 0 .. Ms /\ elapsed \in 0 .. Ms + 2
  BY InterruptsAssumption DEF IInv, TypeOK
<1>4. run = <<>> /\ run' = <<>>
  BY <1>1 DEF Main
<1>5. CASE SleepSet
  <2>1. pc' = "test" /\ countdown' = Ms /\ elapsed' = 0 /\ credit' = Lines /\ UNCHANGED <<irr, isr, if, run>>
    BY <1>5 DEF SleepSet, Main
  <2>2. TypeOK'
    BY <1>3, <2>1 DEF IInv, TypeOK
  <2>3. Counted'
    BY <1>3, <2>1 DEF Counted
  <2> QED
    BY <1>2, <2>2, <2>3 DEF IInv
<1>6. CASE SleepTest
  <2>1. /\ credit' = Lines /\ UNCHANGED <<irr, isr, if, run, countdown, elapsed>> /\ pc = "test"
        /\ \/ pc' = "hlt" /\ countdown > 0
           \/ pc' = "return" /\ countdown = 0
    BY <1>6 DEF SleepTest, Main
  <2>2. TypeOK'
    BY <2>1 DEF IInv, TypeOK
  <2>3. Counted'
    BY <1>3, <2>1 DEF IInv, Counted
  <2> QED
    BY <1>2, <2>2, <2>3 DEF IInv
<1>7. CASE SleepHlt
  <2>1. /\ credit' = Lines /\ UNCHANGED <<irr, isr, if, run, countdown, elapsed>>
        /\ pc = "hlt" /\ pc' = "halted"
    BY <1>7 DEF SleepHlt, Main
  <2>2. TypeOK'
    BY <2>1 DEF IInv, TypeOK
  <2>3. Counted'
    BY <1>3, <1>4, <2>1 DEF IInv, Counted
  <2> QED
    BY <1>2, <2>2, <2>3 DEF IInv
<1>8. CASE SleepAgain
  <2>1. credit' = Lines /\ UNCHANGED <<irr, isr, if, run, countdown, elapsed>> /\ pc' = "set"
    BY <1>8 DEF SleepAgain, Main
  <2>2. TypeOK'
    BY <2>1 DEF IInv, TypeOK
  <2>3. Counted'
    BY <2>1 DEF Counted
  <2> QED
    BY <1>2, <2>2, <2>3 DEF IInv
<1> QED
  BY <1>5, <1>6, <1>7, <1>8 DEF MainStep

LEMMA NextIInv == IInv /\ [Next]_vars => IInv'
<1> SUFFICES ASSUME IInv, [Next]_vars PROVE IInv'
  OBVIOUS
<1>1. CASE \E l \in Lines : Raise(l)
  BY <1>1, RaiseIInv
<1>2. CASE Deliver
  BY <1>2, DeliverIInv
<1>3. CASE Handler
  BY <1>3, TickIInv, EoiIInv, IretIInv DEF Handler
<1>4. CASE MainStep
  BY <1>4, MainIInv
<1>5. CASE UNCHANGED vars
  BY <1>5 DEF vars, IInv, TypeOK, OneHandler, Service, ServiceOf, OneTick, TickFirst, TickDue,
              Counted, NoTick
<1> QED
  BY <1>1, <1>2, <1>3, <1>4, <1>5 DEF Next
-----------------------------------------------------------------------------
\* Handlers never nest, and what is in service belongs to the one that runs.
THEOREM InterruptsInvariant == Spec => []IInv
  BY InitIInv, NextIInv, PTL DEF Spec

\* Every variable keeps its type: the requests, the list of a handler, the count.
THEOREM InterruptsTypeCorrect == Spec => []TypeOK
<1>1. IInv => TypeOK
  BY DEF IInv
<1> QED
  BY <1>1, InterruptsInvariant, PTL

\* PIC_sendEOI: when no handler runs no line is left in service.
THEOREM NothingIsLeftInService == Spec => []NothingLeftInService
<1>1. IInv => NothingLeftInService
  BY DEF IInv, Service, NothingLeftInService
<1> QED
  BY <1>1, InterruptsInvariant, PTL

\* sleep(): Ms ticks, or one more.
THEOREM SleepIsExact == Spec => []SleepLength
<1>1. IInv => SleepLength
  <2>1. Ms \in Nat
    BY InterruptsAssumption
  <2> QED
    BY <2>1 DEF IInv, Counted, SleepLength
<1> QED
  BY <1>1, InterruptsInvariant, PTL

\* PIC_sendEOI retires the line whose handler calls it, and the cascade for a
\* line of the slave, although it is never told the line.
THEOREM EoisRetireOwn == Spec => EoiRetiresOwn
<1>1. IInv /\ [Next]_vars =>
        [\A l \in isr \ isr' : l = Running.line \/ (l = Cascade /\ Running.line \in Slave)]_vars
  <2> SUFFICES ASSUME IInv, Next
               PROVE  \A l \in isr \ isr' :
                         l = Running.line \/ (l = Cascade /\ Running.line \in Slave)
    OBVIOUS
  <2>1. CASE Eoi2 \/ Eoi1
    BY <2>1, EoiIInv
  <2>2. CASE ~(Eoi2 \/ Eoi1)
    <3>1. isr \subseteq isr'
      BY <2>2 DEF Next, Raise, Deliver, Handler, Tick, Iret, MainStep, SleepSet, SleepTest,
                  SleepHlt, SleepAgain, Main
    <3> QED
      BY <3>1
  <2> QED
    BY <2>1, <2>2
<1> QED
  BY <1>1, InterruptsInvariant, PTL DEF Spec, EoiRetiresOwn
=============================================================================

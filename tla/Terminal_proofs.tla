---------------------------- MODULE Terminal_proofs ----------------------------
(***************************************************************************)
(* Proofs about UserProgram and Terminal, for every set of characters, any *)
(* command, and every size of the line, of the key buffer, of the screen   *)
(* and of the heap.                                                        *)
(*                                                                         *)
(* The invariant says what the line holds at each place of the loop: what  *)
(* has been typed and nothing of an earlier line (Holds), and what strip   *)
(* has found to be blank so far.  The terminal takes the program's steps,  *)
(* or leaves it alone.                                                     *)
(*                                                                         *)
(* Last, the screen.  Line stands for the keys that have been typed since  *)
(* the last newline, whoever has them: a key grows it, a newline empties   *)
(* it (LineGrows), and what the program does in the meantime leaves it as  *)
(* it is (LineStays).  With that ScreenShowsLine is inductive.             *)
(***************************************************************************)
EXTENDS Terminal, SequenceTheorems, WellFoundedInduction, TLAPS

\* The line holds the n characters of s and then zeros.
Holds(s) ==
    \A m \in 0 .. Size - 1 : readl[m] = IF m < Len(s) THEN s[m + 1] ELSE Nul

\* The characters of s from position n on are blank.
BlankFrom(s, n) == \A m \in n .. Len(s) : s[m] \in Blank

\* What strip leaves: the line as typed, with blanks from the second character
\* on; or the n characters up to the last that is not blank.
Cut(n) ==
    /\ n \in 2 .. Len(typed) /\ typed[n] \notin Blank /\ BlankFrom(typed, n + 1)
    /\ readl[n] = Nul /\ \A m \in 0 .. n - 1 : readl[m] = typed[m + 1]

Uncut == Holds(typed) /\ BlankFrom(typed, 2)

PlaceOK ==
    /\ pc = "get" => i = Len(typed) /\ Holds(typed)
    /\ pc \in {"strip", "compare"} => Len(typed) < Size
    /\ pc = "strip" =>
         /\ Holds(typed) /\ kill = i + 1 /\ kill <= Len(typed)
         /\ BlankFrom(typed, kill + 1)
    /\ pc = "compare" => Uncut \/ \E n \in 2 .. Len(typed) : Cut(n)

IInv == TypeOK /\ PlaceOK

LEMMA Constants ==
    /\ Blank \subseteq Key /\ Nul \notin Key /\ Size \in Nat
    /\ Command \in Seq(Key \ Blank) /\ Len(Command) \in 2 .. Size - 1
  BY ProgramAssumption, LenProperties

\* strlen stops at the first zero.
LEMMA StrlenIs ==
    ASSUME NEW s, NEW n \in 0 .. Size - 1, s[n] = Nul, \A m \in 0 .. n - 1 : s[m] # Nul
    PROVE  Strlen(s) = n
<1>1. ASSUME NEW k \in 0 .. Size - 1, s[k] = Nul, \A m \in 0 .. k - 1 : s[m] # Nul
      PROVE  k = n
  <2>1. CASE k < n
    BY <1>1, <2>1
  <2>2. CASE n < k
    BY <1>1, <2>2
  <2> QED
    BY <2>1, <2>2
<1> QED
  BY <1>1 DEF Strlen

LEMMA StrlenOfLine ==
    ASSUME IInv, Holds(typed), Len(typed) < Size
    PROVE  Strlen(readl) = Len(typed)
<1>1. typed \in Seq(Key) /\ Len(typed) \in Nat
  BY LenProperties DEF IInv, TypeOK
<1>2. readl[Len(typed)] = Nul
  BY <1>1, Constants DEF Holds
<1>3. ASSUME NEW m \in 0 .. Len(typed) - 1 PROVE readl[m] # Nul
  <2>1. m \in 0 .. Size - 1 /\ m < Len(typed) /\ m + 1 \in 1 .. Len(typed)
    BY <1>1, <1>3, Constants
  <2>2. readl[m] = typed[m + 1]
    BY <2>1 DEF Holds
  <2>3. typed[m + 1] \in Key
    BY <1>1, <2>1, ElementOfSeq
  <2> QED
    BY <2>2, <2>3, Constants
<1> QED
  BY <1>1, <1>2, <1>3, StrlenIs, Constants

LEMMA InitIInv == Init => IInv
<1> SUFFICES ASSUME Init PROVE IInv
  OBVIOUS
<1>1. typed \in Seq(Key) /\ Len(typed) = 0
  BY DEF Init
<1> QED
  BY <1>1, Constants DEF Init, IInv, TypeOK, PlaceOK, Cleared

LEMMA GetchIInv ==
    ASSUME IInv, NEW c \in Key, Getch(c)
    PROVE  IInv'
<1>1. /\ pc = "get" /\ i < Size /\ i = Len(typed) /\ Holds(typed)
      /\ typed \in Seq(Key) /\ Len(typed) \in Nat
      /\ readl \in [0 .. Size - 1 -> {Nul} \cup Key]
  BY LenProperties DEF IInv, TypeOK, PlaceOK, Getch
<1>2. /\ readl' = [readl EXCEPT ![i] = c] /\ i' = i + 1 /\ typed' = Append(typed, c)
      /\ UNCHANGED <<kill, pc>>
  BY DEF Getch
<1>3. /\ typed' \in Seq(Key) /\ Len(typed') = Len(typed) + 1
      /\ typed'[Len(typed) + 1] = c
      /\ \A m \in 1 .. Len(typed) : typed'[m] = typed[m]
  BY <1>1, <1>2, AppendProperties
<1>4. Holds(typed)'
  <2> SUFFICES ASSUME NEW m \in 0 .. Size - 1
               PROVE  readl'[m] = IF m < Len(typed') THEN typed'[m + 1] ELSE Nul
    BY DEF Holds
  <2>1. CASE m = i
    BY <1>1, <1>2, <1>3, <2>1, Constants
  <2>2. CASE m < i
    <3>1. m + 1 \in 1 .. Len(typed)
      BY <1>1, <2>2
    <3> QED
      BY <1>1, <1>2, <1>3, <2>2, <3>1 DEF Holds
  <2>3. CASE m > i
    BY <1>1, <1>2, <1>3, <2>3 DEF Holds
  <2> QED
    BY <1>1, <2>1, <2>2, <2>3
<1>5. TypeOK'
  BY <1>1, <1>2, <1>3, Constants DEF IInv, TypeOK
<1> QED
  BY <1>1, <1>2, <1>3, <1>4, <1>5 DEF IInv, PlaceOK

LEMMA EnterIInv == IInv /\ Enter => IInv'
<1> SUFFICES ASSUME IInv, Enter PROVE IInv'
  OBVIOUS
<1>1. /\ pc = "get" /\ i < Size /\ i = Len(typed) /\ Holds(typed)
      /\ typed \in Seq(Key) /\ Len(typed) \in Nat
  BY LenProperties DEF IInv, TypeOK, PlaceOK, Enter
<1>2. Strlen(readl) = Len(typed)
  BY <1>1, StrlenOfLine
<1>3. /\ pc' = "strip" /\ kill' = Len(typed) /\ i' = Len(typed) - 1
      /\ UNCHANGED <<readl, typed>>
  BY <1>2 DEF Enter
<1>4. TypeOK'
  BY <1>1, <1>3, Constants DEF IInv, TypeOK
<1> QED
  BY <1>1, <1>3, <1>4 DEF IInv, PlaceOK, Holds, BlankFrom

\* A step of strip meets the character that typed has at that place.
LEMMA StripSees ==
    ASSUME IInv, pc = "strip", i > 0
    PROVE  /\ i \in 1 .. Len(typed) - 1 /\ kill = i + 1 /\ kill \in 2 .. Len(typed)
           /\ Len(typed) \in Nat /\ Len(typed) < Size
           /\ typed \in Seq(Key) /\ readl[i] = typed[kill] /\ typed[kill] \in Key
<1>1. /\ typed \in Seq(Key) /\ Len(typed) \in Nat /\ i \in Int /\ Len(typed) < Size
      /\ kill = i + 1 /\ kill <= Len(typed) /\ Holds(typed)
  BY LenProperties, Constants DEF IInv, TypeOK, PlaceOK
<1>2. i \in 1 .. Len(typed) - 1 /\ kill \in 2 .. Len(typed) /\ i \in 0 .. Size - 1 /\ i < Len(typed)
  BY <1>1, Constants
<1>3. readl[i] = typed[i + 1]
  BY <1>1, <1>2 DEF Holds
<1>4. typed[kill] \in Key
  <2>1. kill \in 1 .. Len(typed)
    BY <1>2
  <2> QED
    BY <1>1, <2>1, ElementOfSeq
<1> QED
  BY <1>1, <1>2, <1>3, <1>4

LEMMA StripIInv ==
    ASSUME IInv, StripBlank \/ StripInk \/ StripEnd
    PROVE  IInv'
<1>1. CASE StripBlank
  <2>1. /\ pc = "strip" /\ i > 0 /\ readl[i] \in Blank /\ kill' = i /\ i' = i - 1
        /\ UNCHANGED <<readl, pc, typed>>
    BY <1>1 DEF StripBlank
  <2>2. /\ i \in 1 .. Len(typed) - 1 /\ kill = i + 1 /\ kill \in 2 .. Len(typed)
        /\ Len(typed) \in Nat /\ Len(typed) < Size /\ readl[i] = typed[kill]
    BY <2>1, StripSees
  <2>3. BlankFrom(typed, kill + 1) /\ Holds(typed)
    BY <2>1 DEF IInv, PlaceOK
  <2>4. BlankFrom(typed, kill)
    <3> SUFFICES ASSUME NEW m \in kill .. Len(typed) PROVE typed[m] \in Blank
      BY DEF BlankFrom
    <3>1. CASE m = kill
      BY <2>1, <2>2, <3>1
    <3>2. CASE m # kill
      <4>1. m \in kill + 1 .. Len(typed)
        BY <2>2, <3>2
      <4> QED
        BY <2>3, <4>1 DEF BlankFrom
    <3> QED
      BY <3>1, <3>2
  <2>5. TypeOK'
    BY <2>1, <2>2, Constants DEF IInv, TypeOK
  <2>6. PlaceOK'
    <3>1. Holds(typed)' /\ BlankFrom(typed, kill + 1)'
      BY <2>1, <2>2, <2>3, <2>4 DEF Holds, BlankFrom
    <3> QED
      BY <2>1, <2>2, <3>1 DEF PlaceOK
  <2> QED
    BY <2>5, <2>6 DEF IInv
<1>2. CASE StripInk
  <2>1. /\ pc = "strip" /\ i > 0 /\ readl[i] \notin Blank /\ readl' = [readl EXCEPT ![kill] = Nul]
        /\ pc' = "compare" /\ UNCHANGED <<i, kill, typed>>
    BY <1>2 DEF StripInk
  <2>2. /\ i \in 1 .. Len(typed) - 1 /\ kill = i + 1 /\ kill \in 2 .. Len(typed)
        /\ Len(typed) \in Nat /\ Len(typed) < Size /\ readl[i] = typed[kill]
    BY <2>1, StripSees
  <2>3. BlankFrom(typed, kill + 1) /\ Holds(typed) /\ readl \in [0 .. Size - 1 -> {Nul} \cup Key]
    BY <2>1 DEF IInv, PlaceOK, TypeOK
  <2>4. kill \in 0 .. Size - 1
    BY <2>2, Constants
  <2>5. readl'[kill] = Nul /\ \A m \in 0 .. kill - 1 : readl'[m] = readl[m]
    BY <2>1, <2>2, <2>3, <2>4
  <2>6. \A m \in 0 .. kill - 1 : readl[m] = typed[m + 1]
    <3> SUFFICES ASSUME NEW m \in 0 .. kill - 1 PROVE readl[m] = typed[m + 1]
      OBVIOUS
    <3>1. m \in 0 .. Size - 1 /\ m < Len(typed)
      BY <2>2, Constants
    <3> QED
      BY <2>3, <3>1 DEF Holds
  <2>7. Cut(kill)'
    BY <2>1, <2>2, <2>3, <2>5, <2>6 DEF Cut, BlankFrom
  <2>8. TypeOK'
    BY <2>1, <2>3 DEF IInv, TypeOK
  <2>9. \E n \in 2 .. Len(typed') : Cut(n)'
    BY <2>1, <2>2, <2>7
  <2> QED
    BY <2>1, <2>2, <2>8, <2>9 DEF IInv, PlaceOK
<1>3. CASE StripEnd
  <2>1. pc = "strip" /\ i <= 0 /\ pc' = "compare" /\ UNCHANGED <<readl, i, kill, typed>>
    BY <1>3 DEF StripEnd
  <2>2. BlankFrom(typed, kill + 1) /\ Holds(typed) /\ kill = i + 1 /\ i \in Int /\ Len(typed) < Size
    BY <2>1, Constants DEF IInv, TypeOK, PlaceOK
  <2>3. Len(typed) \in Nat
    BY LenProperties DEF IInv, TypeOK
  <2>4. BlankFrom(typed, 2)
    <3>1. \A m \in 2 .. Len(typed) : m \in kill + 1 .. Len(typed)
      BY <2>1, <2>2, <2>3
    <3> QED
      BY <2>2, <3>1 DEF BlankFrom
  <2>5. Uncut'
    BY <2>1, <2>2, <2>4 DEF Uncut, Holds, BlankFrom
  <2>6. TypeOK'
    BY <2>1 DEF IInv, TypeOK
  <2> QED
    BY <2>1, <2>2, <2>5, <2>6 DEF IInv, PlaceOK
<1> QED
  BY <1>1, <1>2, <1>3

LEMMA NextIInv == IInv /\ [Next]_vars => IInv'
<1> SUFFICES ASSUME IInv, [Next]_vars PROVE IInv'
  OBVIOUS
<1>1. CASE Clear
  <2>1. typed' \in Seq(Key) /\ Len(typed') = 0
    BY <1>1 DEF Clear
  <2> QED
    BY <1>1, <2>1, Constants DEF Clear, IInv, TypeOK, PlaceOK, Cleared, Holds
<1>2. CASE \E c \in Key : Getch(c)
  BY <1>2, GetchIInv
<1>3. CASE GetchOverrun
  BY <1>3 DEF GetchOverrun, IInv, TypeOK, PlaceOK
<1>4. CASE Enter
  BY <1>4, EnterIInv
<1>5. CASE StripBlank \/ StripInk \/ StripEnd
  BY <1>5, StripIInv
<1>6. CASE Compare
  BY <1>6 DEF Compare, IInv, TypeOK, PlaceOK
<1>7. CASE SysPrint
  BY <1>7 DEF SysPrint, IInv, TypeOK, PlaceOK
<1>8. CASE UNCHANGED vars
  BY <1>8 DEF vars, IInv, TypeOK, PlaceOK, Holds, Uncut, Cut, BlankFrom
<1> QED
  BY <1>1, <1>2, <1>3, <1>4, <1>5, <1>6, <1>7, <1>8 DEF Next
-----------------------------------------------------------------------------
LEMMA MaxIs ==
    ASSUME NEW S \in SUBSET Nat, NEW m \in S, \A y \in S : y <= m
    PROVE  Max(S) = m
<1>1. \A x \in S : (\A y \in S : x >= y) => x = m
  OBVIOUS
<1>2. \A y \in S : m >= y
  OBVIOUS
<1> QED
  BY <1>1, <1>2 DEF Max

\* The places of a line that are not blank, and 0.
Ink(s) == {0} \cup {n \in 1 .. Len(s) : s[n] \notin Blank}

LEMMA CompareCut ==
    ASSUME IInv, pc = "compare", NEW n \in 2 .. Len(typed), Cut(n)
    PROVE  Strcmp(readl, Command) <=> Trimmed(typed) = Command
<1>1. /\ typed \in Seq(Key) /\ Len(typed) \in Nat /\ Len(typed) < Size
      /\ n \in 1 .. Len(typed) /\ n \in 0 .. Size - 1
  BY LenProperties, Constants DEF IInv, TypeOK, PlaceOK
<1>2. \A m \in 0 .. n - 1 : readl[m] = typed[m + 1] /\ readl[m] # Nul
  <2> SUFFICES ASSUME NEW m \in 0 .. n - 1
               PROVE  readl[m] = typed[m + 1] /\ readl[m] # Nul
    OBVIOUS
  <2>1. m + 1 \in 1 .. Len(typed)
    BY <1>1
  <2>2. typed[m + 1] \in Key
    BY <1>1, <2>1, ElementOfSeq
  <2> QED
    BY <2>2, Constants DEF Cut
<1>3. Strlen(readl) = n
  BY <1>1, <1>2, StrlenIs DEF Cut
<1>4. Max(Ink(typed)) = n
  <2>1. Ink(typed) \in SUBSET Nat /\ n \in Ink(typed)
    BY <1>1 DEF Ink, Cut
  <2>2. \A y \in Ink(typed) : y <= n
    BY <1>1 DEF Ink, Cut, BlankFrom
  <2> QED
    BY <2>1, <2>2, MaxIs
<1>5. Trimmed(typed) = SubSeq(typed, 1, n)
  BY <1>4 DEF Trimmed, Ink
<1>6. /\ SubSeq(typed, 1, n) \in Seq(Key) /\ Len(SubSeq(typed, 1, n)) = n
      /\ \A k \in 1 .. n : SubSeq(typed, 1, n)[k] = typed[k]
  BY <1>1
<1>7. Command \in Seq(Key)
  BY Constants
<1>8. Trimmed(typed) = Command
        <=> n = Len(Command) /\ \A k \in 1 .. n : typed[k] = Command[k]
  BY <1>5, <1>6, <1>7, SeqEqual
<1>9. (\A k \in 1 .. n : typed[k] = Command[k])
        <=> (\A m \in 0 .. n - 1 : readl[m] = Command[m + 1])
  <2>1. ASSUME \A k \in 1 .. n : typed[k] = Command[k], NEW m \in 0 .. n - 1
        PROVE  readl[m] = Command[m + 1]
    BY <1>1, <1>2, <2>1
  <2>2. ASSUME \A m \in 0 .. n - 1 : readl[m] = Command[m + 1], NEW k \in 1 .. n
        PROVE  typed[k] = Command[k]
    <3>1. k - 1 \in 0 .. n - 1 /\ (k - 1) + 1 = k
      BY <1>1
    <3> QED
      BY <1>2, <2>2, <3>1
  <2> QED
    BY <2>1, <2>2
<1> QED
  BY <1>3, <1>8, <1>9 DEF Strcmp

LEMMA CompareUncut ==
    ASSUME IInv, pc = "compare", Uncut
    PROVE  ~Strcmp(readl, Command) /\ Trimmed(typed) # Command
<1>1. /\ typed \in Seq(Key) /\ Len(typed) \in Nat /\ Len(typed) < Size
      /\ Holds(typed) /\ BlankFrom(typed, 2)
  BY LenProperties DEF IInv, TypeOK, PlaceOK, Uncut
<1>2. Strlen(readl) = Len(typed)
  BY <1>1, StrlenOfLine
<1>3. ~Strcmp(readl, Command)
  <2> SUFFICES ASSUME Strcmp(readl, Command) PROVE FALSE
    OBVIOUS
  <2>1. Len(typed) = Len(Command) /\ Len(typed) >= 2 /\ readl[1] = Command[2]
    BY <1>1, <1>2, Constants DEF Strcmp
  <2>2. readl[1] = typed[2]
    BY <1>1, <2>1, Constants DEF Holds
  <2>3. typed[2] \in Blank
    BY <1>1, <2>1 DEF BlankFrom
  <2>4. Command[2] \in Key \ Blank
    BY Constants, ElementOfSeq
  <2> QED
    BY <2>1, <2>2, <2>3, <2>4
<1>4. Max(Ink(typed)) \in {0, 1}
  <2>1. Ink(typed) \subseteq {0, 1} /\ 0 \in Ink(typed)
    BY <1>1 DEF Ink, BlankFrom
  <2>2. PICK m \in {0, 1} : m \in Ink(typed) /\ \A y \in Ink(typed) : y <= m
    BY <2>1
  <2>3. Ink(typed) \in SUBSET Nat
    BY <2>1
  <2>4. Max(Ink(typed)) = m
    BY <2>2, <2>3, MaxIs
  <2> QED
    BY <2>4
<1>5. Trimmed(typed) = SubSeq(typed, 1, Max(Ink(typed)))
  BY DEF Trimmed, Ink
<1>6. Len(SubSeq(typed, 1, 0)) = 0 /\ Len(SubSeq(typed, 1, 1)) = 1
  BY <1>1
<1> QED
  BY <1>3, <1>4, <1>5, <1>6, Constants

LEMMA CompareIsExact ==
    ASSUME IInv, pc = "compare"
    PROVE  Strcmp(readl, Command) <=> Trimmed(typed) = Command
<1>1. Uncut \/ \E n \in 2 .. Len(typed) : Cut(n)
  BY DEF IInv, PlaceOK
<1> QED
  BY <1>1, CompareCut, CompareUncut

LEMMA AnswerStep ==
    ASSUME IInv, [Next]_vars
    PROVE  [pc = "compare" => (pc' = "print" <=> Trimmed(typed) = Command)]_vars
<1> SUFFICES ASSUME Next, pc = "compare" PROVE pc' = "print" <=> Trimmed(typed) = Command
  BY DEF vars
<1>1. Compare
  BY DEF Next, Clear, Getch, GetchOverrun, Enter, StripBlank, StripInk, StripEnd, SysPrint
<1>2. pc' = IF Strcmp(readl, Command) THEN "print" ELSE "clear"
  BY <1>1 DEF Compare
<1> QED
  BY <1>2, CompareIsExact
-----------------------------------------------------------------------------
\* The line never holds anything but what was typed.
THEOREM ProgramInvariant == Spec => []IInv
  BY InitIInv, NextIInv, PTL DEF Spec

\* elf_userland answers the command followed by blanks and nothing else.
THEOREM ProgramAnswersExactly == Spec => AnswersExactly
  BY ProgramInvariant, AnswerStep, PTL DEF Spec, AnswersExactly
-----------------------------------------------------------------------------
QueueOK == queue \in Seq(Key \cup {Newline}) /\ Len(queue) <= Capacity
CaretOK == col \in Nat /\ row \in Nat
DrawnOK ==
    /\ shown \in [0 .. Columns - 1 -> Printable]
    /\ stopped \in {"no", "page fault", "divide error"} /\ faithful \in BOOLEAN
FreeOK == free \in 0 .. HeapSize

ConsoleOK == QueueOK /\ CaretOK /\ DrawnOK /\ FreeOK

LEMMA ConsoleConstants ==
    /\ Newline \notin Key /\ Backspace \in Key /\ Printable \subseteq Key /\ Space \in Printable
    /\ Capacity \in Nat \ {0} /\ Columns \in Nat \ {0} /\ FirstRow \in Nat
    /\ MappedRows \in Nat /\ HeapSize \in Nat /\ BufferSize \in Nat \ {0} /\ AnswerSize \in Nat
  BY TerminalAssumption

LEMMA QueueHead ==
    ASSUME QueueOK, queue # <<>>
    PROVE  /\ Head(queue) \in Key \cup {Newline}
           /\ Tail(queue) \in Seq(Key \cup {Newline}) /\ Len(Tail(queue)) <= Capacity
<1>1. queue \in Seq(Key \cup {Newline})
  BY DEF QueueOK
<1>2. /\ Head(queue) \in Key \cup {Newline} /\ Tail(queue) \in Seq(Key \cup {Newline})
      /\ Len(Tail(queue)) = Len(queue) - 1 /\ Len(queue) \in Nat
  BY <1>1, HeadTailProperties, LenProperties
<1>3. Len(queue) <= Capacity /\ Capacity \in Nat
  BY ConsoleConstants DEF QueueOK
<1> DEFINE n == Len(queue)
<1>4. Len(Tail(queue)) <= Capacity
  <2> HIDE DEF n
  <2>1. n - 1 <= Capacity
    BY <1>2, <1>3 DEF n
  <2> QED
    BY <1>2, <2>1 DEF n
<1> QED
  BY <1>2, <1>4

\* Every step of the terminal is one of the program's, or leaves it alone.
LEMMA TerminalTakesProgramSteps == ConsoleOK /\ [TerminalNext]_allVars => [Next]_vars
<1> SUFFICES ASSUME ConsoleOK, [TerminalNext]_allVars PROVE Next \/ UNCHANGED vars
  OBVIOUS
<1>1. CASE KeyboardHandler \/ MouseHandler
  BY <1>1 DEF KeyboardHandler, MouseHandler
<1>2. CASE GetLine
  <2>1. Head(queue) # Newline => Head(queue) \in Key
    BY <1>2, QueueHead DEF GetLine, ConsoleOK
  <2> QED
    BY <1>2, <2>1 DEF GetLine, Next
<1>3. CASE Compute \/ Answer \/ AnswerDivides
  BY <1>3 DEF Compute, Answer, AnswerDivides, Next
<1>4. CASE UNCHANGED allVars
  BY <1>4 DEF allVars
<1> QED
  BY <1>1, <1>2, <1>3, <1>4 DEF TerminalNext, Program

LEMMA PushOK ==
    ASSUME QueueOK, NEW c \in Key \cup {Newline}, Push(c)
    PROVE  QueueOK'
<1> DEFINE S == Key \cup {Newline}
<1>1. queue \in Seq(S) /\ Len(queue) \in Nat /\ Len(queue) <= Capacity /\ Capacity \in Nat
  BY LenProperties, ConsoleConstants DEF QueueOK
<1>2. Append(queue, c) \in Seq(S) /\ Len(Append(queue, c)) = Len(queue) + 1
  BY <1>1, AppendProperties
<1>3. CASE Len(queue) < Capacity
  <2>1. queue' = Append(queue, c)
    BY <1>3 DEF Push
  <2>2. Len(queue) + 1 <= Capacity
    BY <1>1, <1>3
  <2> QED
    BY <1>2, <2>1, <2>2 DEF QueueOK
<1>4. CASE ~(Len(queue) < Capacity)
  BY <1>1, <1>4 DEF Push, QueueOK
<1> QED
  BY <1>3, <1>4

LEMMA KprintfOK ==
    ASSUME DrawnOK, FreeOK, NEW c \in Printable, NEW x \in Nat, Kprintf(c, x)
    PROVE  DrawnOK' /\ FreeOK'
<1>1. x % Columns \in 0 .. Columns - 1
  BY ConsoleConstants
<1>2. shown' \in [0 .. Columns - 1 -> Printable]
  BY <1>1 DEF DrawnOK, Kprintf, Draw
<1>3. FreeOK'
  <2>1. free \in Int /\ 0 <= free /\ free <= HeapSize /\ HeapSize \in Int
    BY ConsoleConstants DEF FreeOK
  <2>2. CASE BufferSize < free
    <3>1. free' = free - BufferSize
      BY <2>2, Zenon DEF Kprintf, HeapFits
    <3>2. BufferSize \in Int /\ 0 <= BufferSize
      BY ConsoleConstants
    <3> QED
      BY <2>1, <2>2, <3>1, <3>2 DEF FreeOK
  <2>3. CASE ~(BufferSize < free)
    <3>1. free' = free
      BY <2>3, Zenon DEF Kprintf, HeapFits
    <3> QED
      BY <3>1 DEF FreeOK
  <2> QED
    BY <2>2, <2>3
<1>4. stopped' \in {"no", "page fault", "divide error"}
  BY DEF DrawnOK, Kprintf, Draw
<1>5. faithful' \in BOOLEAN
  BY Zenon DEF Kprintf
<1> QED
  BY <1>2, <1>3, <1>4, <1>5 DEF DrawnOK

LEMMA KeyboardConsole == ConsoleOK /\ KeyboardHandler => ConsoleOK'
<1> SUFFICES ASSUME ConsoleOK, KeyboardHandler PROVE ConsoleOK'
  OBVIOUS
<1> USE DEF ConsoleOK
<1>1. ASSUME NEW c \in Key, EchoGlyph(c) PROVE ConsoleOK'
  <2>1. c \in Printable /\ Push(c) /\ Kprintf(c, col) /\ col' = col + 1 /\ row' = row
    BY <1>1 DEF EchoGlyph
  <2>2. col \in Nat /\ CaretOK'
    BY <2>1 DEF CaretOK
  <2>3. QueueOK'
    BY <2>1, PushOK
  <2>4. DrawnOK' /\ FreeOK'
    BY <2>1, <2>2, KprintfOK
  <2> QED
    BY <2>2, <2>3, <2>4
<1>2. CASE EchoBackspace
  <2>1. QueueOK'
    BY <1>2, PushOK, ConsoleConstants DEF EchoBackspace
  <2>2. CASE col > 0
    <3>1. col' = col - 1 /\ row' = row /\ Kprintf(Space, col - 1)
      BY <1>2, <2>2, Zenon DEF EchoBackspace
    <3>2. col - 1 \in Nat /\ CaretOK'
      BY <2>2, <3>1 DEF CaretOK
    <3>3. DrawnOK' /\ FreeOK'
      BY <3>1, <3>2, KprintfOK, ConsoleConstants
    <3> QED
      BY <2>1, <3>2, <3>3
  <2>3. CASE ~(col > 0)
    <3>1. UNCHANGED <<col, row, free, stopped, shown>> /\ faithful' \in BOOLEAN
      BY <1>2, <2>3, Zenon DEF EchoBackspace
    <3> QED
      BY <2>1, <3>1 DEF CaretOK, DrawnOK, FreeOK
  <2> QED
    BY <2>2, <2>3
<1>3. CASE EchoNewline
  <2>1. QueueOK'
    BY <1>3, PushOK DEF EchoNewline
  <2>2. faithful' \in BOOLEAN
    BY <1>3, Zenon DEF EchoNewline
  <2>3. CaretOK' /\ FreeOK'
    BY <1>3 DEF EchoNewline, CaretOK, FreeOK
  <2>4. DrawnOK'
    BY <1>3, <2>2, ConsoleConstants DEF EchoNewline, DrawnOK, Empty
  <2> QED
    BY <2>1, <2>3, <2>4
<1>4. ASSUME NEW c \in Key, EchoNothing(c) PROVE ConsoleOK'
  <2>1. QueueOK'
    BY <1>4, PushOK DEF EchoNothing
  <2>2. faithful' \in BOOLEAN
    BY <1>4, Zenon DEF EchoNothing
  <2> QED
    BY <1>4, <2>1, <2>2 DEF EchoNothing, CaretOK, DrawnOK, FreeOK
<1>5. CASE UnknownKey
  <2>1. free \in Int /\ 0 <= free /\ free <= HeapSize /\ BufferSize \in Int /\ 0 <= BufferSize
    BY ConsoleConstants DEF FreeOK
  <2>2. FreeOK'
    BY <1>5, <2>1, ConsoleConstants DEF UnknownKey, HeapFits, FreeOK
  <2>3. DrawnOK'
    BY <1>5, Zenon DEF UnknownKey, DrawnOK
  <2> QED
    BY <1>5, <2>2, <2>3 DEF UnknownKey, QueueOK, CaretOK
<1> QED
  BY <1>1, <1>2, <1>3, <1>4, <1>5 DEF KeyboardHandler

LEMMA ConsoleNext == ConsoleOK /\ [TerminalNext]_allVars => ConsoleOK'
<1> SUFFICES ASSUME ConsoleOK, [TerminalNext]_allVars PROVE ConsoleOK'
  OBVIOUS
<1>a. free \in Int /\ 0 <= free /\ free <= HeapSize /\ HeapSize \in Int
  BY ConsoleConstants DEF ConsoleOK, FreeOK
<1>b. BufferSize \in Int /\ 0 <= BufferSize /\ AnswerSize \in Int /\ 0 <= AnswerSize
  BY ConsoleConstants
<1>1. CASE KeyboardHandler
  BY <1>1, KeyboardConsole
<1>2. CASE MouseHandler
  <2>1. PICK n \in 0 .. 3 : free' = free - n * BufferSize /\ (n > 0 => BufferSize * n < free)
    BY <1>2 DEF MouseHandler
  <2>2. FreeOK'
    <3>1. CASE n = 0
      BY <1>a, <1>b, <2>1, <3>1 DEF FreeOK
    <3>2. CASE n = 1
      BY <1>a, <1>b, <2>1, <3>2 DEF FreeOK
    <3>3. CASE n = 2
      BY <1>a, <1>b, <2>1, <3>3 DEF FreeOK
    <3>4. CASE n = 3
      BY <1>a, <1>b, <2>1, <3>4 DEF FreeOK
    <3> QED
      BY <3>1, <3>2, <3>3, <3>4
  <2>3. faithful' \in BOOLEAN
    BY <1>2 DEF MouseHandler, ConsoleOK, DrawnOK
  <2> QED
    BY <1>2, <2>2, <2>3 DEF MouseHandler, ConsoleOK, QueueOK, CaretOK, DrawnOK
<1>3. CASE GetLine
  <2>1. QueueOK'
    <3>1. queue # <<>> /\ (queue' = Tail(queue) \/ queue' = queue)
      BY <1>3 DEF GetLine
    <3> QED
      BY <3>1, QueueHead DEF ConsoleOK, QueueOK
  <2> QED
    BY <1>3, <2>1 DEF GetLine, screen, ConsoleOK, CaretOK, DrawnOK, FreeOK
<1>4. CASE Answer
  <2>1. FreeOK'
    <3>1. AnswerSize < free /\ free' = free - AnswerSize
      BY <1>4 DEF Answer, HeapFits
    <3> QED
      BY <1>a, <1>b, <3>1 DEF FreeOK
  <2> QED
    BY <1>4, <2>1 DEF Answer, screen, ConsoleOK, QueueOK, CaretOK, DrawnOK
<1>5. CASE Compute \/ AnswerDivides \/ UNCHANGED allVars
  BY <1>5 DEF Compute, AnswerDivides, allVars, console, screen, ConsoleOK, QueueOK, CaretOK,
              DrawnOK, FreeOK
<1> QED
  BY <1>1, <1>2, <1>3, <1>4, <1>5 DEF TerminalNext, Program

\* Under the key buffer, whatever is typed, moved or dropped meanwhile, the
\* program keeps its invariant.
THEOREM TerminalInvariant == TerminalSpec => [](IInv /\ ConsoleOK)
<1>1. TerminalInit => IInv /\ ConsoleOK
  <2>1. ASSUME TerminalInit PROVE ConsoleOK
    <3>1. queue \in Seq(Key \cup {Newline}) /\ Len(queue) = 0
      BY <2>1 DEF TerminalInit
    <3> QED
      BY <2>1, <3>1, ConsoleConstants
      DEF TerminalInit, ConsoleOK, QueueOK, CaretOK, DrawnOK, FreeOK, Empty
  <2> QED
    BY <2>1, InitIInv DEF TerminalInit
<1>2. IInv /\ ConsoleOK /\ [TerminalNext]_allVars => (IInv /\ ConsoleOK)'
  BY NextIInv, TerminalTakesProgramSteps, ConsoleNext
<1> QED
  BY <1>1, <1>2, PTL DEF TerminalSpec

\* The queue keeps to its capacity, the caret does not leave the row to the left,
\* the heap is not taken beyond its end, and strip cuts inside the line.
THEOREM TerminalTypeCorrect == TerminalSpec => []TerminalOK
<1>1. IInv /\ ConsoleOK => TerminalOK
  BY DEF IInv, ConsoleOK, QueueOK, CaretOK, DrawnOK, FreeOK, TerminalOK
<1> QED
  BY <1>1, TerminalInvariant, PTL

\* The keys that come through the key buffer are answered as if they were typed
\* into the program.
THEOREM TerminalAnswersExactly == TerminalSpec => AnswersExactly
<1>1. IInv /\ ConsoleOK /\ [TerminalNext]_allVars =>
        [pc = "compare" => (pc' = "print" <=> Trimmed(typed) = Command)]_vars
  BY AnswerStep, TerminalTakesProgramSteps
<1> QED
  BY <1>1, TerminalInvariant, PTL DEF TerminalSpec, AnswersExactly
-----------------------------------------------------------------------------
\* A set of naturals has a least element.  The lemmas about Seen take the least
\* length for which they might fail.
LEMMA LeastOf ==
    ASSUME NEW T, T \subseteq Nat, T # {}
    PROVE  \E x \in T : \A y \in T : x <= y
<1> DEFINE R == OpToRel(<, Nat)
<1>1. IsWellFoundedOn(R, Nat)
  BY NatLessThanWellFounded
<1>2. \A x, y \in Nat : y < x => <<y, x>> \in R
  BY DEF OpToRel
<1> HIDE DEF R
<1>3. PICK x \in T : \A y \in T : ~(<<y, x>> \in R)
  BY <1>1, WFMin
<1>4. ASSUME NEW y \in T PROVE x <= y
  <2>1. x \in Nat /\ y \in Nat /\ ~(<<y, x>> \in R)
    BY <1>3, <1>4
  <2>2. ~(y < x)
    BY <1>2, <2>1
  <2> QED
    BY <2>1, <2>2
<1> QED
  BY <1>4

\* Sequences of at most n keys, and Seen on them.
UpTo(n) == {s \in Seq(Key) : Len(s) <= n}
SeenBy(f, s) == IF s = <<>> THEN <<>> ELSE Rubout(f[Front(s)], Last(s))
IsSeen(f, n) == f = [s \in UpTo(n) |-> SeenBy(f, s)]

LEMMA FrontOf ==
    ASSUME NEW S, NEW s \in Seq(S), s # <<>>
    PROVE  /\ Front(s) \in Seq(S) /\ Len(Front(s)) = Len(s) - 1 /\ Len(s) \in Nat \ {0}
           /\ \A k \in 1 .. Len(s) - 1 : Front(s)[k] = s[k]
<1>1. Len(s) \in Nat \ {0}
  BY EmptySeq
<1>2. \A k \in 1 .. Len(s) - 1 : s[k] \in S
  BY <1>1, ElementOfSeq
<1> DEFINE n == Len(s) - 1
<1>3. n \in Nat /\ n \in Int /\ 1 \in Int /\ \A k \in 1 .. n : s[k] \in S
  BY <1>1, <1>2
<1> HIDE DEF n
<1>4. /\ SubSeq(s, 1, n) \in Seq(S) /\ Len(SubSeq(s, 1, n)) = IF 1 <= n THEN n - 1 + 1 ELSE 0
      /\ \A k \in 1 .. n - 1 + 1 : SubSeq(s, 1, n)[k] = s[1 + k - 1]
  BY <1>3, SubSeqProperties
<1>5. Len(SubSeq(s, 1, n)) = n /\ \A k \in 1 .. n : SubSeq(s, 1, n)[k] = s[k]
  BY <1>3, <1>4
<1> QED
  BY <1>1, <1>4, <1>5 DEF Front, n

LEMMA FrontIs ==
    ASSUME NEW s \in Seq(Key), s # <<>>
    PROVE  Front(s) \in Seq(Key) /\ Len(Front(s)) = Len(s) - 1 /\ Len(s) \in Nat \ {0}
  BY FrontOf

LEMMA SeenAgree ==
    ASSUME NEW n \in Nat, NEW m \in Nat, n <= m, NEW f, NEW g, IsSeen(f, n), IsSeen(g, m),
           NEW s \in UpTo(n)
    PROVE  f[s] = g[s]
<1> DEFINE T == {k \in Nat : \E t \in UpTo(n) : Len(t) = k /\ f[t] # g[t]}
<1> SUFFICES ASSUME f[s] # g[s] PROVE FALSE
  OBVIOUS
<1>1. Len(s) \in T
  BY LenProperties DEF UpTo
<1>2. T \subseteq Nat /\ T # {}
  BY <1>1
<1> HIDE DEF T
<1>3. PICK k \in T : \A l \in T : k <= l
  BY <1>2, LeastOf
<1>4. PICK t \in UpTo(n) : Len(t) = k /\ f[t] # g[t]
  BY <1>3 DEF T
<1>5. t \in UpTo(m) /\ t \in Seq(Key) /\ Len(t) \in Nat /\ Len(t) <= n
  BY <1>4, LenProperties DEF UpTo
<1>6. f[t] = SeenBy(f, t) /\ g[t] = SeenBy(g, t)
  <2>1. f = [u \in UpTo(n) |-> SeenBy(f, u)] /\ g = [u \in UpTo(m) |-> SeenBy(g, u)]
    BY DEF IsSeen
  <2> QED
    BY <1>4, <1>5, <2>1
<1>7. t # <<>>
  BY <1>4, <1>6 DEF SeenBy
<1>8. Front(t) \in UpTo(n) /\ Len(Front(t)) = k - 1 /\ Len(Front(t)) \in Nat /\ k \in Nat
  BY <1>4, <1>5, <1>7, FrontIs DEF UpTo
<1>9. f[Front(t)] = g[Front(t)]
  <2> SUFFICES ASSUME f[Front(t)] # g[Front(t)] PROVE FALSE
    OBVIOUS
  <2>1. k - 1 \in T
    BY <1>8 DEF T
  <2> QED
    BY <1>3, <1>8, <2>1
<1> QED
  BY <1>4, <1>6, <1>9 DEF SeenBy

LEMMA SeenUpTo == \A n \in Nat : \E f : IsSeen(f, n)
<1> DEFINE T == {n \in Nat : ~\E f : IsSeen(f, n)}
<1> SUFFICES ASSUME T # {} PROVE FALSE
  OBVIOUS
<1>1. PICK n \in T : \A l \in T : n <= l
  <2>1. T \subseteq Nat
    OBVIOUS
  <2> HIDE DEF T
  <2> QED
    BY <2>1, LeastOf
<1>2. CASE n = 0
  <2> DEFINE f == [s \in UpTo(0) |-> <<>>]
  <2>1. \A s \in UpTo(0) : s = <<>>
    <3> SUFFICES ASSUME NEW s \in UpTo(0), s # <<>> PROVE FALSE
      OBVIOUS
    <3> QED
      BY EmptySeq DEF UpTo
  <2>2. \A s \in UpTo(0) : SeenBy(f, s) = <<>>
    BY <2>1 DEF SeenBy
  <2>3. f = [s \in UpTo(0) |-> SeenBy(f, s)]
    BY <2>2
  <2>4. IsSeen(f, 0)
    BY <2>3 DEF IsSeen
  <2> QED
    BY <1>1, <1>2, <2>4
<1>3. CASE n # 0
  <2>1. n \in Nat /\ n - 1 \in Nat /\ n - 1 \notin T
    BY <1>1, <1>3
  <2>2. PICK f : IsSeen(f, n - 1)
    BY <2>1
  <2> DEFINE g == [s \in UpTo(n) |-> SeenBy(f, s)]
  <2>3. \A s \in UpTo(n) : s # <<>> => Front(s) \in UpTo(n - 1) /\ Front(s) \in UpTo(n)
    <3> SUFFICES ASSUME NEW s \in UpTo(n), s # <<>>
                 PROVE  Front(s) \in UpTo(n - 1) /\ Front(s) \in UpTo(n)
      OBVIOUS
    <3>1. Front(s) \in Seq(Key) /\ Len(Front(s)) = Len(s) - 1 /\ Len(s) \in Nat \ {0} /\ Len(s) <= n
      BY FrontIs DEF UpTo
    <3> QED
      BY <2>1, <3>1 DEF UpTo
  <2>4. \A s \in UpTo(n - 1) : f[s] = SeenBy(f, s)
    <3>1. f = [s \in UpTo(n - 1) |-> SeenBy(f, s)]
      BY <2>2 DEF IsSeen
    <3> QED
      BY <3>1
  <2>5. \A s \in UpTo(n) : SeenBy(g, s) = SeenBy(f, s)
    <3> SUFFICES ASSUME NEW s \in UpTo(n) PROVE SeenBy(g, s) = SeenBy(f, s)
      OBVIOUS
    <3>1. s # <<>> => g[Front(s)] = f[Front(s)]
      BY <2>3, <2>4
    <3> QED
      BY <3>1 DEF SeenBy
  <2>6. g = [s \in UpTo(n) |-> SeenBy(g, s)]
    BY <2>5
  <2>7. IsSeen(g, n)
    BY <2>6 DEF IsSeen
  <2> QED
    BY <1>1, <2>7
<1> QED
  BY <1>2, <1>3

LEMMA SeenExists == \E f : f = [s \in Seq(Key) |-> SeenBy(f, s)]
<1> DEFINE part(n) == CHOOSE f : IsSeen(f, n)
           f == [s \in Seq(Key) |-> part(Len(s))[s]]
<1>1. \A n \in Nat : IsSeen(part(n), n)
  BY SeenUpTo
<1>2. ASSUME NEW s \in Seq(Key) PROVE f[s] = SeenBy(f, s)
  <2>1. Len(s) \in Nat /\ s \in UpTo(Len(s)) /\ IsSeen(part(Len(s)), Len(s))
    BY <1>1, LenProperties DEF UpTo
  <2>2. f[s] = part(Len(s))[s]
    OBVIOUS
  <2>3. part(Len(s))[s] = SeenBy(part(Len(s)), s)
    <3> HIDE DEF part
    <3>1. part(Len(s)) = [t \in UpTo(Len(s)) |-> SeenBy(part(Len(s)), t)]
      BY <2>1 DEF IsSeen
    <3> QED
      BY <2>1, <3>1
  <2>4. s # <<>> => part(Len(s))[Front(s)] = f[Front(s)]
    <3> SUFFICES ASSUME s # <<>> PROVE part(Len(s))[Front(s)] = f[Front(s)]
      OBVIOUS
    <3> DEFINE t == Front(s)
    <3>1. t \in Seq(Key) /\ Len(t) \in Nat /\ Len(t) <= Len(s) /\ t \in UpTo(Len(t))
      BY <2>1, FrontIs DEF UpTo
    <3>2. f[t] = part(Len(t))[t]
      BY <3>1
    <3> HIDE DEF part, f, t
    <3>3. part(Len(t))[t] = part(Len(s))[t]
      BY <1>1, <2>1, <3>1, SeenAgree
    <3> QED
      BY <3>2, <3>3 DEF t
  <2> HIDE DEF part, f
  <2> QED
    BY <2>2, <2>3, <2>4 DEF SeenBy
<1>3. f = [s \in Seq(Key) |-> f[s]]
  OBVIOUS
<1> HIDE DEF f
<1> QED
  BY <1>2, <1>3

LEMMA SeenIs ==
    ASSUME NEW s \in Seq(Key)
    PROVE  Seen[s] = IF s = <<>> THEN <<>> ELSE Rubout(Seen[Front(s)], Last(s))
<1>1. Seen = CHOOSE f : f = [t \in Seq(Key) |-> IF t = <<>> THEN <<>> ELSE Rubout(f[Front(t)], Last(t))]
  BY Zenon DEF Seen
<1>2. \E f : f = [t \in Seq(Key) |-> IF t = <<>> THEN <<>> ELSE Rubout(f[Front(t)], Last(t))]
  BY SeenExists, Zenon DEF SeenBy
<1>3. Seen = [t \in Seq(Key) |-> IF t = <<>> THEN <<>> ELSE Rubout(Seen[Front(t)], Last(t))]
  BY <1>1, <1>2, Zenon
<1> QED
  BY <1>3
-----------------------------------------------------------------------------
Char == Key \cup {Newline}

\* The last newline of s is at m, or there is none and m is 0.
LastNewline(s, m) ==
    /\ m \in 0 .. Len(s) /\ (m > 0 => s[m] = Newline)
    /\ \A k \in m + 1 .. Len(s) : s[k] # Newline

LEMMA LastNewlineExists == \A s \in Seq(Char) : \E m : LastNewline(s, m)
<1> SUFFICES ASSUME NEW s \in Seq(Char) PROVE \E m : LastNewline(s, m)
  OBVIOUS
<1>1. Len(s) \in Nat
  BY LenProperties
<1> DEFINE n == Len(s)
           T == {d \in 0 .. n : n - d = 0 \/ s[n - d] = Newline}
<1> HIDE DEF n
<1>2. n \in Nat
  BY <1>1 DEF n
<1>3. T \subseteq Nat /\ n \in T
  BY <1>2
<1>4. PICK d \in T : \A e \in T : d <= e
  <2> HIDE DEF T
  <2>1. T # {}
    BY <1>3
  <2> QED
    BY <1>3, <2>1, LeastOf
<1>5. d \in 0 .. n /\ n - d \in 0 .. n /\ (n - d > 0 => s[n - d] = Newline)
  BY <1>2, <1>4
<1>6. ASSUME NEW k \in (n - d) + 1 .. n, s[k] = Newline PROVE FALSE
  <2>1. n - k \in 0 .. n /\ n - (n - k) = k /\ n - k < d
    BY <1>2, <1>5, <1>6
  <2>2. n - k \in T
    BY <1>6, <2>1
  <2> QED
    BY <1>4, <1>5, <2>1, <2>2
<1>7. LastNewline(s, n - d)
  BY <1>5, <1>6 DEF LastNewline, n
<1> QED
  BY <1>7

LEMMA AfterIs ==
    ASSUME NEW s \in Seq(Char), NEW m, LastNewline(s, m)
    PROVE  /\ AfterNewline(s) \in Seq(Key) /\ Len(AfterNewline(s)) = Len(s) - m
           /\ \A k \in 1 .. Len(s) - m : AfterNewline(s)[k] = s[m + k]
<1>1. Len(s) \in Nat /\ m \in 0 .. Len(s) /\ DOMAIN s = 1 .. Len(s)
  BY LenProperties DEF LastNewline
<1> DEFINE N == {0} \cup {n \in DOMAIN s : s[n] = Newline}
<1>2. N \in SUBSET Nat /\ m \in N /\ \A y \in N : y <= m
  BY <1>1 DEF LastNewline
<1>3. Max(N) = m
  <2> HIDE DEF N
  <2> QED
    BY <1>2, MaxIs
<1> DEFINE n == Len(s)
           l == m + 1
<1>4. n \in Int /\ l \in Int /\ \A k \in l .. n : s[k] \in Key
  <2>1. ASSUME NEW k \in l .. n PROVE s[k] \in Key
    <3>1. k \in 1 .. Len(s) /\ s[k] # Newline
      BY <1>1, <2>1 DEF LastNewline
    <3>2. s[k] \in Char
      BY <3>1, ElementOfSeq
    <3> QED
      BY <3>1, <3>2 DEF Char
  <2> QED
    BY <1>1, <2>1
<1>5. AfterNewline(s) = SubSeq(s, l, n)
  BY <1>3 DEF AfterNewline
<1>a. n = Len(s) /\ l = m + 1
  OBVIOUS
<1> HIDE DEF n, l
<1>6. /\ SubSeq(s, l, n) \in Seq(Key) /\ Len(SubSeq(s, l, n)) = IF l <= n THEN n - l + 1 ELSE 0
      /\ \A k \in 1 .. n - l + 1 : SubSeq(s, l, n)[k] = s[l + k - 1]
  BY <1>4, SubSeqProperties
<1> DEFINE t == SubSeq(s, l, n)
<1> HIDE DEF t
<1>7. t \in Seq(Key) /\ Len(t) = n - m /\ \A k \in 1 .. n - m : t[k] = s[m + k]
  BY <1>a, <1>1, <1>6 DEF t
<1> QED
  BY <1>5, <1>7 DEF n, t

\* What stands for the line behind the last newline.
LEMMA AfterKey ==
    ASSUME NEW s \in Seq(Char), NEW c \in Key
    PROVE  AfterNewline(Append(s, c)) = Append(AfterNewline(s), c)
<1>0. Newline \notin Key /\ c \in Char
  BY ConsoleConstants DEF Char
<1>1. PICK m : LastNewline(s, m)
  BY LastNewlineExists
<1> DEFINE t == Append(s, c)
<1>2. Len(s) \in Nat /\ m \in 0 .. Len(s)
  BY <1>1, LenProperties DEF LastNewline
<1>3. t \in Seq(Char) /\ Len(t) = Len(s) + 1 /\ t[Len(s) + 1] = c /\ \A k \in 1 .. Len(s) : t[k] = s[k]
  BY <1>0, AppendProperties
<1> HIDE DEF t
<1>4. LastNewline(t, m)
  BY <1>0, <1>1, <1>2, <1>3 DEF LastNewline
<1> DEFINE a == AfterNewline(s)
           b == AfterNewline(t)
<1>5. a \in Seq(Key) /\ Len(a) = Len(s) - m /\ \A k \in 1 .. Len(s) - m : a[k] = s[m + k]
  BY <1>1, AfterIs
<1>6. b \in Seq(Key) /\ Len(b) = Len(t) - m /\ \A k \in 1 .. Len(t) - m : b[k] = t[m + k]
  BY <1>3, <1>4, AfterIs
<1> HIDE DEF a, b
<1>7. /\ Append(a, c) \in Seq(Key) /\ Len(Append(a, c)) = Len(a) + 1
      /\ \A k \in 1 .. Len(a) : Append(a, c)[k] = a[k]
      /\ Append(a, c)[Len(a) + 1] = c
  BY <1>5, AppendProperties
<1>9. Len(b) = Len(Append(a, c)) /\ Len(b) = Len(a) + 1 /\ Len(a) \in Nat
  BY <1>2, <1>3, <1>5, <1>6, <1>7
<1>8. ASSUME NEW k \in 1 .. Len(b) PROVE b[k] = Append(a, c)[k]
  <2>1. m + k \in 1 .. Len(t) /\ k \in 1 .. Len(t) - m /\ b[k] = t[m + k]
    BY <1>2, <1>3, <1>6, <1>8
  <2>2. CASE k = Len(a) + 1
    <3>1. m + k = Len(s) + 1
      BY <1>2, <1>5, <2>2
    <3> QED
      BY <1>3, <1>7, <2>1, <2>2, <3>1
  <2>3. CASE k # Len(a) + 1
    <3>1. k \in 1 .. Len(a) /\ k \in 1 .. Len(s) - m /\ m + k \in 1 .. Len(s)
      <4>1. k \in 1 .. Len(a)
        BY <1>8, <1>9, <2>3
      <4>2. Len(a) = Len(s) - m
        BY <1>5
      <4> QED
        BY <1>2, <4>1, <4>2
    <3>2. t[m + k] = s[m + k] /\ a[k] = s[m + k]
      BY <1>3, <1>5, <3>1
    <3> QED
      BY <1>7, <2>1, <3>1, <3>2
  <2> QED
    BY <2>2, <2>3
<1>10. b = Append(a, c)
  BY <1>6, <1>7, <1>8, <1>9, SeqEqual
<1> QED
  BY <1>10 DEF a, b, t

LEMMA AfterAppendNewline ==
    ASSUME NEW s \in Seq(Char)
    PROVE  AfterNewline(Append(s, Newline)) = <<>>
<1> DEFINE t == Append(s, Newline)
<1>1. Len(s) \in Nat /\ t \in Seq(Char) /\ Len(t) = Len(s) + 1 /\ t[Len(s) + 1] = Newline
  BY LenProperties, AppendProperties DEF Char
<1> HIDE DEF t
<1>2. LastNewline(t, Len(t))
  BY <1>1 DEF LastNewline
<1>3. AfterNewline(t) \in Seq(Key) /\ Len(AfterNewline(t)) = 0
  BY <1>1, <1>2, AfterIs
<1> QED
  BY <1>3, EmptySeq DEF t

LEMMA AfterBehind ==
    ASSUME NEW p \in Seq(Char), NEW q \in Seq(Char), q # <<>>, Head(q) = Newline
    PROVE  AfterNewline(p \o q) = AfterNewline(Tail(q))
<1> DEFINE s == p \o q
           t == Tail(q)
<1>1. /\ Len(p) \in Nat /\ Len(q) \in Nat \ {0} /\ s \in Seq(Char) /\ Len(s) = Len(p) + Len(q)
      /\ \A k \in 1 .. Len(s) : s[k] = IF k <= Len(p) THEN p[k] ELSE q[k - Len(p)]
  BY LenProperties, EmptySeq, ConcatProperties
<1>2. t \in Seq(Char) /\ Len(t) = Len(q) - 1 /\ \A k \in 1 .. Len(t) : t[k] = q[k + 1]
  BY HeadTailProperties
<1>3. q[1] = Newline
  BY <1>1
<1> HIDE DEF s, t
<1> DEFINE n == Len(p) + 1
<1>4. n \in Nat \ {0} /\ Len(s) = n + Len(t) /\ Len(t) \in Nat
  BY <1>1, <1>2
<1>5. s[n] = Newline /\ \A k \in 1 .. Len(t) : s[n + k] = t[k]
  <2>1. s[n] = Newline
    <3>1. n \in 1 .. Len(s) /\ ~(n <= Len(p)) /\ n - Len(p) = 1
      BY <1>1, <1>4
    <3>2. s[n] = q[1]
      BY <1>1, <3>1
    <3> QED
      BY <1>3, <3>2
  <2>2. ASSUME NEW k \in 1 .. Len(t) PROVE s[n + k] = t[k]
    <3>1. n + k \in 1 .. Len(s) /\ ~(n + k <= Len(p)) /\ (n + k) - Len(p) = k + 1
      BY <1>1, <1>4, <2>2
    <3> DEFINE j == n + k
    <3> HIDE DEF j
    <3>2. s[j] = q[k + 1]
      BY <1>1, <3>1 DEF j
    <3> QED
      BY <1>2, <2>2, <3>2 DEF j
  <2> QED
    BY <2>1, <2>2
<1> HIDE DEF n
<1>6. PICK m : LastNewline(t, m)
  BY <1>2, LastNewlineExists
<1>7. m \in 0 .. Len(t)
  BY <1>6 DEF LastNewline
<1>8. LastNewline(s, n + m)
  <2>1. n + m \in 0 .. Len(s) /\ n + m > 0
    BY <1>4, <1>7
  <2>2. s[n + m] = Newline
    <3>1. CASE m = 0
      BY <1>4, <1>5, <3>1
    <3>2. CASE m > 0
      BY <1>5, <1>6, <1>7, <3>2 DEF LastNewline
    <3> QED
      BY <1>7, <3>1, <3>2
  <2>3. ASSUME NEW k \in (n + m) + 1 .. Len(s) PROVE s[k] # Newline
    <3>1. k - n \in m + 1 .. Len(t) /\ k - n \in 1 .. Len(t) /\ n + (k - n) = k
      BY <1>4, <1>7, <2>3
    <3>2. t[k - n] # Newline
      BY <1>6, <3>1 DEF LastNewline
    <3>3. s[n + (k - n)] = t[k - n]
      BY <1>5, <3>1
    <3> QED
      BY <3>1, <3>2, <3>3
  <2> QED
    BY <2>1, <2>2, <2>3 DEF LastNewline
<1> DEFINE a == AfterNewline(s)
           b == AfterNewline(t)
<1>9. /\ a \in Seq(Key) /\ Len(a) = Len(s) - (n + m)
      /\ \A k \in 1 .. Len(s) - (n + m) : a[k] = s[(n + m) + k]
  BY <1>1, <1>8, AfterIs
<1>10. b \in Seq(Key) /\ Len(b) = Len(t) - m /\ \A k \in 1 .. Len(t) - m : b[k] = t[m + k]
  BY <1>2, <1>6, AfterIs
<1> HIDE DEF a, b
<1>11. Len(a) = Len(b)
  BY <1>4, <1>7, <1>9, <1>10
<1>12. ASSUME NEW k \in 1 .. Len(a) PROVE a[k] = b[k]
  <2>1. k \in 1 .. Len(t) - m /\ k \in 1 .. Len(s) - (n + m) /\ m + k \in 1 .. Len(t) /\ (n + m) + k = n + (m + k)
    BY <1>4, <1>7, <1>9, <1>10, <1>12
  <2>2. a[k] = s[(n + m) + k] /\ b[k] = t[m + k]
    BY <1>9, <1>10, <2>1
  <2>3. s[n + (m + k)] = t[m + k]
    BY <1>5, <2>1
  <2> QED
    BY <2>1, <2>2, <2>3
<1>13. a = b
  BY <1>9, <1>10, <1>11, <1>12, SeqEqual
<1> QED
  BY <1>13 DEF a, b, s, t
-----------------------------------------------------------------------------
\* A line of keys shows printable characters, no more than it has keys.
LEMMA RuboutOK ==
    ASSUME NEW line \in Seq(Printable), NEW c \in Key
    PROVE  Rubout(line, c) \in Seq(Printable) /\ Len(Rubout(line, c)) <= Len(line) + 1
<1>1. Len(line) \in Nat
  BY LenProperties
<1>2. CASE c \in Printable
  BY <1>1, <1>2, AppendProperties DEF Rubout
<1>3. CASE c \notin Printable /\ c = Backspace /\ line # <<>>
  <2>1. Front(line) \in Seq(Printable) /\ Len(Front(line)) = Len(line) - 1
    BY <1>3, FrontOf
  <2> QED
    BY <1>1, <1>3, <2>1 DEF Rubout
<1>4. CASE c \notin Printable /\ ~(c = Backspace /\ line # <<>>)
  BY <1>1, <1>4 DEF Rubout
<1> QED
  BY <1>2, <1>3, <1>4

LEMMA SeenType ==
    \A s \in Seq(Key) : Seen[s] \in Seq(Printable) /\ Len(Seen[s]) <= Len(s)
<1> DEFINE Good(s) == Seen[s] \in Seq(Printable) /\ Len(Seen[s]) <= Len(s)
           T == {k \in Nat : \E s \in Seq(Key) : Len(s) = k /\ ~Good(s)}
<1> SUFFICES ASSUME NEW r \in Seq(Key), ~Good(r) PROVE FALSE
  OBVIOUS
<1>1. T \subseteq Nat /\ T # {}
  <2>1. Len(r) \in T
    BY LenProperties
  <2> QED
    BY <2>1
<1>2. PICK k \in T : \A l \in T : k <= l
  <2> HIDE DEF T
  <2> QED
    BY <1>1, LeastOf
<1>3. PICK s \in Seq(Key) : Len(s) = k /\ ~Good(s)
  BY <1>2
<1>4. CASE s = <<>>
  <2>1. Seen[s] = <<>>
    BY <1>4, SeenIs
  <2> QED
    BY <1>3, <1>4, <2>1
<1>5. CASE s # <<>>
  <2>1. Front(s) \in Seq(Key) /\ Len(Front(s)) = k - 1 /\ k \in Nat \ {0}
    BY <1>3, <1>5, FrontIs
  <2>2. Good(Front(s))
    <3> SUFFICES ASSUME ~Good(Front(s)) PROVE FALSE
      OBVIOUS
    <3> HIDE DEF Good
    <3>1. k - 1 \in T
      BY <2>1
    <3> QED
      BY <1>2, <2>1, <3>1
  <2>3. Last(s) \in Key
    <3>1. Len(s) \in 1 .. Len(s)
      BY <1>3, <2>1
    <3> QED
      BY <3>1, ElementOfSeq DEF Last
  <2>4. Seen[s] = Rubout(Seen[Front(s)], Last(s))
    BY <1>5, SeenIs
  <2> DEFINE t == Seen[Front(s)]
  <2>5. t \in Seq(Printable) /\ Len(t) <= k - 1 /\ Len(t) \in Nat
    BY <2>1, <2>2, LenProperties
  <2> HIDE DEF t
  <2>6. Rubout(t, Last(s)) \in Seq(Printable) /\ Len(Rubout(t, Last(s))) <= Len(t) + 1
        /\ Len(Rubout(t, Last(s))) \in Nat
    BY <2>3, <2>5, RuboutOK, LenProperties
  <2>7. Len(Rubout(t, Last(s))) <= k
    BY <2>1, <2>5, <2>6
  <2> QED
    BY <1>3, <2>4, <2>6, <2>7 DEF t
<1> QED
  BY <1>4, <1>5

LEMMA SeenAppend ==
    ASSUME NEW s \in Seq(Key), NEW c \in Key
    PROVE  Seen[Append(s, c)] = Rubout(Seen[s], c)
<1> DEFINE t == Append(s, c)
<1>1. /\ t \in Seq(Key) /\ Len(t) = Len(s) + 1 /\ Len(s) \in Nat /\ t[Len(s) + 1] = c
      /\ \A k \in 1 .. Len(s) : t[k] = s[k]
  BY AppendProperties, LenProperties
<1> HIDE DEF t
<1>2. t # <<>> /\ Last(t) = c
  BY <1>1, EmptySeq DEF Last
<1>3. Front(t) = s
  <2>1. /\ Front(t) \in Seq(Key) /\ Len(Front(t)) = Len(t) - 1
        /\ \A k \in 1 .. Len(t) - 1 : Front(t)[k] = t[k]
    BY <1>1, <1>2, FrontOf
  <2>2. Len(Front(t)) = Len(s) /\ \A k \in 1 .. Len(Front(t)) : Front(t)[k] = s[k]
    BY <1>1, <2>1
  <2> QED
    BY <1>1, <2>1, <2>2, SeqEqual
<1> QED
  BY <1>1, <1>2, <1>3, SeenIs DEF t
-----------------------------------------------------------------------------
\* The characters the program has of its line.
Got == IF pc \in {"get", "overrun"} THEN typed ELSE <<>>

LEMMA TypingIs ==
    ASSUME IInv, QueueOK
    PROVE  /\ Got \in Seq(Char) /\ queue \in Seq(Char) /\ Typing = Got \o queue
           /\ Typing \in Seq(Char) /\ Line \in Seq(Key)
<1>1. typed \in Seq(Key) /\ queue \in Seq(Char)
  BY DEF IInv, TypeOK, QueueOK, Char
<1>2. typed \in Seq(Char)
  BY <1>1, SeqMonotonic DEF Char
<1>3. Got \in Seq(Char)
  BY <1>2 DEF Got
<1>4. Typing = Got \o queue
  BY DEF Typing, Got
<1>5. Typing \in Seq(Char)
  BY <1>1, <1>3, <1>4, ConcatProperties
<1>6. PICK m : LastNewline(Typing, m)
  BY <1>5, LastNewlineExists
<1> QED
  BY <1>1, <1>3, <1>4, <1>5, <1>6, AfterIs DEF Line

LEMMA ConcatAppend ==
    ASSUME NEW S, NEW s \in Seq(S), NEW t \in Seq(S), NEW c \in S
    PROVE  s \o Append(t, c) = Append(s \o t, c)
<1>1. <<c>> \in Seq(S) /\ Append(t, c) = t \o <<c>> /\ s \o t \in Seq(S)
  BY AppendIsConcat, ConcatProperties
<1>2. Append(s \o t, c) = (s \o t) \o <<c>>
  BY <1>1, AppendIsConcat
<1> QED
  BY <1>1, <1>2, ConcatAssociative

\* A key that finds room is the line's next, and a newline ends the line.
LEMMA LineGrows ==
    ASSUME IInv, QueueOK, NEW c \in Char, Push(c), ~Dropped, UNCHANGED vars
    PROVE  Line' = IF c = Newline THEN <<>> ELSE Append(Line, c)
<1>1. Got \in Seq(Char) /\ queue \in Seq(Char) /\ Typing = Got \o queue /\ Typing \in Seq(Char)
  BY TypingIs
<1>2. queue' = Append(queue, c)
  <2>1. Len(queue) < Capacity
    BY <1>1, LenProperties, ConsoleConstants DEF QueueOK, Dropped
  <2> QED
    BY <2>1 DEF Push
<1>3. Typing' = Got \o Append(queue, c)
  BY <1>2 DEF Typing, Got, vars
<1>4. Typing' = Append(Typing, c)
  BY <1>1, <1>3, ConcatAppend
<1>5. Line' = AfterNewline(Append(Typing, c))
  BY <1>4 DEF Line
<1>6. CASE c = Newline
  BY <1>1, <1>5, <1>6, AfterAppendNewline
<1>7. CASE c # Newline
  <2>1. c \in Key
    BY <1>7 DEF Char
  <2> QED
    BY <1>1, <1>5, <1>7, <2>1, AfterKey DEF Line
<1> QED
  BY <1>6, <1>7

\* However the program gets on, its line stays the line.
LEMMA LineStays ==
    ASSUME IInv, QueueOK, GetLine \/ Compute \/ Answer \/ AnswerDivides
    PROVE  Line' = Line
<1>1. /\ Got \in Seq(Char) /\ queue \in Seq(Char) /\ Typing = Got \o queue
      /\ Typing \in Seq(Char) /\ <<>> \o queue = queue
  BY TypingIs, ConcatEmptySeq
<1>2. CASE Typing' = Typing
  BY <1>2 DEF Line
<1>3. ASSUME queue # <<>>, Head(queue) = Newline, Enter, queue' = Tail(queue) PROVE Line' = Line
  <2>1. Tail(queue) \in Seq(Char)
    BY <1>1, <1>3, HeadTailProperties
  <2>2. Typing' = Tail(queue)
    <3>1. Typing' = <<>> \o Tail(queue)
      BY <1>3 DEF Typing, Enter
    <3> QED
      BY <2>1, <3>1, ConcatEmptySeq
  <2> QED
    BY <1>1, <1>3, <2>2, AfterBehind DEF Line
<1>4. ASSUME queue # <<>>, Head(queue) # Newline, Getch(Head(queue)), queue' = Tail(queue)
      PROVE  Line' = Line
  <2> DEFINE h == Head(queue)
             r == Tail(queue)
  <2>1. h \in Char /\ r \in Seq(Char) /\ <<h>> \in Seq(Char)
    BY <1>1, <1>4, HeadTailProperties
  <2>2. <<h>> \o r = queue
    BY <1>1, <1>4
  <2>3. Got = typed /\ Typing' = Append(typed, h) \o r
    BY <1>4 DEF Got, Typing, Getch
  <2> HIDE DEF h, r
  <2>4. Append(typed, h) = Got \o <<h>>
    BY <1>1, <2>1, <2>3, AppendIsConcat
  <2>5. (Got \o <<h>>) \o r = Got \o (<<h>> \o r)
    BY <1>1, <2>1, ConcatAssociative
  <2>6. Typing' = Typing
    BY <1>1, <2>2, <2>3, <2>4, <2>5
  <2> QED
    BY <1>2, <2>6
<1>5. CASE GetLine /\ GetchOverrun /\ UNCHANGED queue
  <2>1. Typing' = Typing
    BY <1>5 DEF GetchOverrun, Typing
  <2> QED
    BY <1>2, <2>1
<1>6. CASE Compute
  <2>1. queue' = queue
    BY <1>6 DEF Compute, console
  <2>2. Typing' = Typing
    <3>1. CASE Clear
      BY <2>1, <3>1 DEF Clear, Typing
    <3>2. CASE StripBlank
      BY <2>1, <3>2 DEF StripBlank, Typing
    <3>3. CASE StripInk
      BY <2>1, <3>3 DEF StripInk, Typing
    <3>4. CASE StripEnd
      BY <2>1, <3>4 DEF StripEnd, Typing
    <3>5. CASE Compare
      BY <2>1, <3>5 DEF Compare, Typing
    <3> QED
      BY <1>6, <3>1, <3>2, <3>3, <3>4, <3>5 DEF Compute
  <2> QED
    BY <1>2, <2>2
<1>7. CASE Answer
  <2>1. Typing' = Typing
    BY <1>7 DEF Answer, SysPrint, Typing
  <2> QED
    BY <1>2, <2>1
<1>8. CASE AnswerDivides
  <2>1. Typing' = Typing
    BY <1>8 DEF AnswerDivides, vars, Typing
  <2> QED
    BY <1>2, <2>1
<1> QED
  BY <1>3, <1>4, <1>5, <1>6, <1>7, <1>8 DEF GetLine
-----------------------------------------------------------------------------
\* The row of a screen that shows s, and what ScreenShowsLine says of a line.
Row(s) == [n \in 0 .. Columns - 1 |-> IF n < Len(s) THEN s[n + 1] ELSE Space]
Shows(s) == col = Len(s) /\ (row < MappedRows => shown = Row(s))

LEMMA RowOfMore ==
    ASSUME NEW s \in Seq(Printable), NEW c \in Printable, Len(s) < Columns
    PROVE  [Row(s) EXCEPT ![Len(s) % Columns] = c] = Row(Append(s, c))
<1> DEFINE t == Append(s, c)
           k == Len(s)
<1>1. k \in Nat /\ Len(t) = k + 1 /\ t[k + 1] = c /\ \A n \in 1 .. k : t[n] = s[n]
  BY AppendProperties, LenProperties
<1> HIDE DEF t
<1>2. k % Columns = k /\ Columns \in Nat /\ k < Columns
  BY <1>1, ConsoleConstants
<1>a. k = Len(s)
  OBVIOUS
<1> HIDE DEF k
<1>3. ASSUME NEW n \in 0 .. Columns - 1
      PROVE  (IF n = k THEN c ELSE Row(s)[n]) = Row(t)[n]
  <2>1. Row(s)[n] = (IF n < k THEN s[n + 1] ELSE Space) /\ Row(t)[n] = IF n < k + 1 THEN t[n + 1] ELSE Space
    BY <1>a, <1>1, <1>3 DEF Row
  <2>2. CASE n = k
    BY <1>1, <2>1, <2>2
  <2>3. CASE n < k
    <3>1. n + 1 \in 1 .. k
      BY <1>1, <1>3, <2>3
    <3> QED
      BY <1>1, <2>1, <2>3, <3>1
  <2>4. CASE n > k
    BY <1>1, <2>1, <2>4
  <2> QED
    BY <1>1, <1>3, <2>2, <2>3, <2>4
<1>4. [Row(s) EXCEPT ![k] = c] = [n \in 0 .. Columns - 1 |-> IF n = k THEN c ELSE Row(s)[n]]
  BY <1>1, <1>2 DEF Row
<1>5. Row(t) = [n \in 0 .. Columns - 1 |-> Row(t)[n]]
  BY DEF Row
<1> QED
  BY <1>a, <1>2, <1>3, <1>4, <1>5 DEF t

LEMMA RowOfLess ==
    ASSUME NEW s \in Seq(Printable), s # <<>>, Len(s) <= Columns
    PROVE  [Row(s) EXCEPT ![(Len(s) - 1) % Columns] = Space] = Row(Front(s))
<1> DEFINE t == Front(s)
           k == Len(s) - 1
<1>1. k \in Nat /\ Len(s) = k + 1 /\ Len(t) = k /\ \A n \in 1 .. k : t[n] = s[n]
  BY FrontOf
<1> HIDE DEF t
<1>a. k = Len(s) - 1
  OBVIOUS
<1> HIDE DEF k
<1>b. Columns \in Nat \ {0} /\ k < Columns
  BY <1>1, ConsoleConstants
<1>2. k % Columns = k /\ Columns \in Nat /\ k < Columns
  BY <1>1, <1>b
<1>3. ASSUME NEW n \in 0 .. Columns - 1
      PROVE  (IF n = k THEN Space ELSE Row(s)[n]) = Row(t)[n]
  <2>1. Row(s)[n] = (IF n < k + 1 THEN s[n + 1] ELSE Space) /\ Row(t)[n] = IF n < k THEN t[n + 1] ELSE Space
    BY <1>a, <1>1, <1>3 DEF Row
  <2>2. CASE n = k
    BY <1>1, <2>1, <2>2
  <2>3. CASE n < k
    <3>1. n + 1 \in 1 .. k
      BY <1>1, <1>3, <2>3
    <3> QED
      BY <1>1, <2>1, <2>3, <3>1
  <2>4. CASE n > k
    BY <1>1, <2>1, <2>4
  <2> QED
    BY <1>1, <1>3, <2>2, <2>3, <2>4
<1>4. [Row(s) EXCEPT ![k] = Space] = [n \in 0 .. Columns - 1 |-> IF n = k THEN Space ELSE Row(s)[n]]
  BY <1>1, <1>2 DEF Row
<1>5. Row(t) = [n \in 0 .. Columns - 1 |-> Row(t)[n]]
  BY DEF Row
<1> QED
  BY <1>a, <1>2, <1>3, <1>4, <1>5 DEF t

LEMMA ShowsIs ==
    ScreenShowsLine <=> (faithful /\ stopped = "no" /\ Len(Line) <= Columns => Shows(Seen[Line]))
  BY DEF ScreenShowsLine, Shows, Row

\* A key that is not dropped, on a screen that shows the line.
LEMMA KeyTyped ==
    ASSUME IInv, ConsoleOK, ScreenShowsLine, NEW c \in Key, Push(c), ~Dropped, UNCHANGED vars,
           faithful, stopped = "no", Len(Line') <= Columns
    PROVE  /\ Seen[Line] \in Seq(Printable) /\ Len(Seen[Line]) \in Nat
           /\ Len(Seen[Line]) < Columns /\ Shows(Seen[Line])
           /\ Seen[Line'] = Rubout(Seen[Line], c)
<1>1. Line \in Seq(Key) /\ Line' = Append(Line, c)
  BY TypingIs, LineGrows, ConsoleConstants DEF ConsoleOK, Char
<1>2. /\ Len(Append(Line, c)) = Len(Line) + 1 /\ Len(Line) \in Nat
      /\ Seen[Append(Line, c)] = Rubout(Seen[Line], c)
  BY <1>1, AppendProperties, LenProperties, SeenAppend
<1>3. Len(Line) + 1 <= Columns /\ Columns \in Nat
  BY <1>1, <1>2, ConsoleConstants
<1>4. Shows(Seen[Line])
  BY <1>2, <1>3, ShowsIs
<1>5. Seen[Line] \in Seq(Printable) /\ Len(Seen[Line]) <= Len(Line)
  BY <1>1, SeenType
<1> DEFINE t == Seen[Line]
<1>6. Len(t) \in Nat
  BY <1>5, LenProperties
<1> HIDE DEF t
<1>7. Len(t) < Columns
  BY <1>2, <1>3, <1>5, <1>6 DEF t
<1> QED
  BY <1>1, <1>2, <1>4, <1>5, <1>6, <1>7 DEF t

LEMMA EchoShows ==
    ASSUME IInv, ConsoleOK, ScreenShowsLine, KeyboardHandler
    PROVE  ScreenShowsLine'
<1> SUFFICES ASSUME faithful', stopped' = "no", Len(Line') <= Columns PROVE Shows(Seen[Line])'
  BY DEF ScreenShowsLine, Shows, Row
<1>a. stopped = "no" /\ UNCHANGED vars
  BY DEF KeyboardHandler
<1> DEFINE s == Seen[Line]
<1>1. ASSUME NEW c \in Key, EchoGlyph(c) PROVE Shows(Seen[Line])'
  <2>1. c \in Printable /\ Push(c) /\ Kprintf(c, col) /\ col' = col + 1 /\ row' = row
    BY <1>1 DEF EchoGlyph
  <2>2. faithful /\ ~Dropped /\ HeapFits(BufferSize)
    BY <2>1, Zenon DEF Kprintf
  <2>3. row < MappedRows /\ shown' = [shown EXCEPT ![col % Columns] = c]
    <3>1. Draw(c, col)
      BY <2>1, <2>2 DEF Kprintf
    <3>2. ~(row >= MappedRows) /\ row \in Nat /\ MappedRows \in Nat
      BY <3>1, ConsoleConstants DEF Draw, ConsoleOK, CaretOK
    <3> QED
      BY <3>1, <3>2 DEF Draw
  <2>4. /\ s \in Seq(Printable) /\ Len(s) \in Nat /\ Len(s) < Columns /\ Shows(s)
        /\ Seen[Line'] = Rubout(s, c)
    BY <1>a, <2>1, <2>2, KeyTyped
  <2> HIDE DEF s
  <2>5. Seen[Line'] = Append(s, c) /\ Len(Append(s, c)) = Len(s) + 1
    BY <2>1, <2>4, AppendProperties DEF Rubout
  <2>6. col = Len(s) /\ shown = Row(s)
    BY <2>3, <2>4 DEF Shows
  <2>7. shown' = Row(Append(s, c)) /\ col' = Len(Append(s, c))
    BY <2>1, <2>3, <2>4, <2>5, <2>6, RowOfMore
  <2> QED
    BY <2>5, <2>7 DEF Shows, Row
<1>2. CASE EchoBackspace
  <2>1. Push(Backspace) /\ row' = row /\ Backspace \in Key /\ Backspace \notin Printable
    BY <1>2, TerminalAssumption DEF EchoBackspace
  <2>2. CASE col > 0
    <3>1. col' = col - 1 /\ Kprintf(Space, col - 1)
      BY <1>2, <2>2, Zenon DEF EchoBackspace
    <3>2. faithful /\ ~Dropped /\ HeapFits(BufferSize)
      BY <3>1, Zenon DEF Kprintf
    <3>3. row < MappedRows /\ shown' = [shown EXCEPT ![(col - 1) % Columns] = Space]
      <4>1. Draw(Space, col - 1)
        BY <3>1, <3>2 DEF Kprintf
      <4>2. ~(row >= MappedRows) /\ row \in Nat /\ MappedRows \in Nat
        BY <4>1, ConsoleConstants DEF Draw, ConsoleOK, CaretOK
      <4> QED
        BY <4>1, <4>2 DEF Draw
    <3>4. /\ s \in Seq(Printable) /\ Len(s) \in Nat /\ Len(s) < Columns /\ Shows(s)
          /\ Seen[Line'] = Rubout(s, Backspace)
      BY <1>a, <2>1, <3>2, KeyTyped
    <3> HIDE DEF s
    <3>5. col = Len(s) /\ shown = Row(s) /\ s # <<>>
      BY <2>2, <3>3, <3>4 DEF Shows
    <3>6. Seen[Line'] = Front(s) /\ Len(Front(s)) = Len(s) - 1
      BY <2>1, <3>4, <3>5, FrontOf DEF Rubout
    <3>7. Len(s) <= Columns
      BY <3>4, ConsoleConstants
    <3>8. shown' = Row(Front(s)) /\ col' = Len(Front(s))
      BY <3>1, <3>3, <3>4, <3>5, <3>6, <3>7, RowOfLess
    <3> QED
      BY <3>6, <3>8 DEF Shows, Row
  <2>3. CASE ~(col > 0)
    <3>1. UNCHANGED <<col, shown>> /\ faithful /\ ~Dropped
      BY <1>2, <2>3, Zenon DEF EchoBackspace
    <3>2. /\ s \in Seq(Printable) /\ Len(s) \in Nat /\ Shows(s) /\ Seen[Line'] = Rubout(s, Backspace)
      BY <1>a, <2>1, <3>1, KeyTyped
    <3> HIDE DEF s
    <3>3. col = Len(s) /\ col = 0
      BY <2>3, <3>2 DEF Shows
    <3>4. s = <<>>
      BY <3>2, <3>3, EmptySeq
    <3>5. Seen[Line'] = s
      BY <2>1, <3>2, <3>4 DEF Rubout
    <3> QED
      BY <2>1, <3>1, <3>2, <3>5 DEF Shows, Row
  <2> QED
    BY <2>2, <2>3
<1>3. CASE EchoNewline
  <2>1. Push(Newline) /\ col' = 0 /\ shown' = Empty
    BY <1>3 DEF EchoNewline
  <2>2. ~Dropped
    BY <1>3, Zenon DEF EchoNewline
  <2>3. Line' = <<>>
    BY <1>a, <2>1, <2>2, LineGrows DEF ConsoleOK, Char
  <2>4. <<>> \in Seq(Key) /\ Len(<<>>) = 0
    OBVIOUS
  <2>5. Seen[<<>>] = <<>>
    BY <2>4, SeenIs
  <2>6. Empty = Row(<<>>)
    BY <2>4 DEF Empty, Row
  <2> QED
    BY <2>1, <2>3, <2>4, <2>5, <2>6 DEF Shows, Row
<1>4. ASSUME NEW c \in Key, EchoNothing(c) PROVE Shows(Seen[Line])'
  <2>1. /\ c \notin Printable /\ c # Backspace /\ Push(c)
        /\ UNCHANGED <<col, row, shown>>
    BY <1>4 DEF EchoNothing
  <2>2. faithful /\ ~Dropped
    BY <1>4, Zenon DEF EchoNothing
  <2>3. Shows(s) /\ Seen[Line'] = Rubout(s, c)
    BY <1>a, <2>1, <2>2, KeyTyped
  <2> HIDE DEF s
  <2>4. Seen[Line'] = s
    BY <2>1, <2>3 DEF Rubout
  <2> QED
    BY <2>1, <2>3, <2>4 DEF Shows, Row
<1>5. CASE UnknownKey
  <2>1. faithful /\ UNCHANGED <<col, row, shown, queue>>
    BY <1>5 DEF UnknownKey
  <2>2. Line' = Line
    BY <1>a, <2>1 DEF vars, Line, Typing
  <2>3. Shows(s)
    BY <1>a, <2>1, <2>2, ShowsIs
  <2> QED
    BY <2>1, <2>2, <2>3 DEF Shows, Row
<1> QED
  BY <1>1, <1>2, <1>3, <1>4, <1>5 DEF KeyboardHandler

LEMMA TerminalShows == IInv /\ ConsoleOK /\ ScreenShowsLine /\ [TerminalNext]_allVars => ScreenShowsLine'
<1> SUFFICES ASSUME IInv, ConsoleOK, ScreenShowsLine, [TerminalNext]_allVars
             PROVE  ScreenShowsLine'
  OBVIOUS
<1>1. CASE KeyboardHandler
  BY <1>1, EchoShows
<1>2. ASSUME faithful' => faithful, stopped' = "no" => stopped = "no",
             UNCHANGED <<col, row, shown>>, Line' = Line
      PROVE  ScreenShowsLine'
  BY <1>2 DEF ScreenShowsLine
<1>3. CASE MouseHandler
  <2>a. faithful' \in {faithful, FALSE} /\ UNCHANGED <<vars, queue, col, row, shown, stopped>>
    BY <1>3 DEF MouseHandler
  <2>b. faithful' => faithful
    BY <2>a, Zenon
  <2>1. (faithful' => faithful) /\ UNCHANGED <<vars, queue, col, row, shown, stopped>>
    BY <2>a, <2>b
  <2>2. Line' = Line
    BY <2>1 DEF vars, Line, Typing
  <2> QED
    BY <1>2, <2>1, <2>2
<1>4. CASE Program
  <2>1. stopped = "no" /\ UNCHANGED screen
    BY <1>4 DEF Program, GetLine, Compute, console, Answer, AnswerDivides
  <2>2. Line' = Line
    BY <1>4, LineStays DEF Program, ConsoleOK
  <2> QED
    BY <1>2, <2>1, <2>2 DEF screen
<1>5. CASE UNCHANGED allVars
  BY <1>2, <1>5 DEF allVars, vars, console, screen, Line, Typing
<1> QED
  BY <1>1, <1>3, <1>4, <1>5 DEF TerminalNext

LEMMA TerminalInitShows == TerminalInit => ScreenShowsLine
<1> SUFFICES ASSUME TerminalInit PROVE Shows(Seen[Line])
  BY ShowsIs
<1>1. col = 0 /\ shown = Empty /\ queue = <<>> /\ pc = "clear"
  BY DEF TerminalInit, Init
<1>2. <<>> \in Seq(Char) /\ <<>> \in Seq(Key) /\ Len(<<>>) = 0
  OBVIOUS
<1>3. Typing = <<>>
  <2>1. Typing = <<>> \o <<>>
    BY <1>1 DEF Typing
  <2> QED
    BY <1>2, <2>1, ConcatEmptySeq
<1>4. LastNewline(<<>>, 0)
  BY <1>2 DEF LastNewline
<1>5. Line \in Seq(Key) /\ Len(Line) = 0
  <2>1. AfterNewline(<<>>) \in Seq(Key) /\ Len(AfterNewline(<<>>)) = Len(<<>>) - 0
    BY <1>2, <1>4, AfterIs
  <2>2. Line = AfterNewline(<<>>)
    BY <1>3 DEF Line
  <2> QED
    BY <1>2, <2>1, <2>2
<1>6. Line = <<>>
  BY <1>5, EmptySeq
<1>7. Seen[<<>>] = <<>>
  BY <1>2, SeenIs
<1>8. Empty = Row(<<>>)
  BY <1>2 DEF Empty, Row
<1> QED
  BY <1>1, <1>2, <1>6, <1>7, <1>8 DEF Shows

\* The caret's row is the line that the program will get, however the keys are
\* typed, wait and are taken, for every width of the screen.
THEOREM TerminalShowsLine == TerminalSpec => []ScreenShowsLine
  BY TerminalInvariant, TerminalInitShows, TerminalShows, PTL DEF TerminalSpec
-----------------------------------------------------------------------------
\* The steps that the program can still take with the keys it has, and how many a
\* key more can cause.
PerKey == Size + 6

StepsAt ==
    IF pc = "strip" THEN i + 6
    ELSE IF pc = "compare" THEN 4 ELSE IF pc = "print" THEN 3 ELSE IF pc = "clear" THEN 2
    ELSE IF pc = "get" THEN 1 ELSE 0

StepsLeft == (Len(queue) * PerKey) + StepsAt + (IF stopped = "no" THEN 1 ELSE 0)

LEMMA StepsAtBound == TypeOK => StepsAt \in 0 .. PerKey /\ (pc = "strip" => StepsAt >= 5)
<1> SUFFICES ASSUME TypeOK PROVE StepsAt \in 0 .. PerKey /\ (pc = "strip" => StepsAt >= 5)
  OBVIOUS
<1>1. Size \in Nat /\ i \in -1 .. Size
  BY ProgramAssumption DEF TypeOK
<1> QED
  BY <1>1 DEF StepsAt, PerKey

LEMMA QueueLen == QueueOK => Len(queue) \in Nat
  BY LenProperties DEF QueueOK

\* A product of one factor more or less.
LEMMA OneLess == \A n, k \in Nat : n * k \in Nat /\ (n # 0 => ((n - 1) * k) = (n * k) - k)
  OBVIOUS

LEMMA OneMore == \A n, k \in Nat : ((n + 1) * k) = (n * k) + k
  OBVIOUS

LEMMA StepsLeftNat ==
    ASSUME TypeOK, QueueOK
    PROVE  StepsLeft \in Nat
<1> DEFINE n == Len(queue)
           m == n * PerKey
<1>1. n \in Nat /\ PerKey \in Nat /\ StepsAt \in Nat
  BY QueueLen, StepsAtBound, ProgramAssumption DEF PerKey
<1> HIDE DEF n
<1>2. m \in Nat
  BY <1>1, OneLess
<1>3. StepsLeft = m + StepsAt + (IF stopped = "no" THEN 1 ELSE 0)
  BY DEF StepsLeft, n
<1> HIDE DEF m
<1> QED
  BY <1>1, <1>2, <1>3

LEMMA ProgramStepsLess ==
    ASSUME IInv, IInv', ConsoleOK, Program
    PROVE  StepsLeft' < StepsLeft
<1>1. /\ TypeOK /\ TypeOK' /\ QueueOK /\ PerKey \in Nat /\ Len(queue) \in Nat
      /\ StepsAt \in 0 .. PerKey /\ StepsAt' \in 0 .. PerKey /\ (pc = "strip" => StepsAt >= 5)
  <2>1. TypeOK' => (StepsAt \in 0 .. PerKey)'
    BY StepsAtBound, PTL
  <2>2. PerKey' = PerKey
    BY DEF PerKey
  <2> QED
    BY <2>1, <2>2, QueueLen, StepsAtBound, ProgramAssumption DEF IInv, ConsoleOK, PerKey
<1>2. stopped = "no"
  BY DEF Program
<1> DEFINE s == StepsAt
           t == StepsAt'
           n == Len(queue)
           m == n * PerKey
<1>3. m \in Nat /\ s \in Nat /\ t \in Nat /\ t <= PerKey
  BY <1>1, OneLess
<1>4. StepsLeft = m + s + 1
  BY <1>2 DEF StepsLeft
<1>5. CASE GetLine
  <2>1. stopped' = "no" /\ queue # <<>> /\ pc = "get" /\ s = 1
    BY <1>2, <1>5 DEF GetLine, Enter, Getch, GetchOverrun, StepsAt
  <2>2. CASE queue' = Tail(queue) /\ (pc' \in {"strip", "get"})
    <3>1. n # 0 /\ Len(queue') = n - 1
      <4>1. queue \in Seq(Key \cup {Newline})
        BY <1>1 DEF QueueOK
      <4> QED
        BY <2>1, <2>2, <4>1, HeadTailProperties, EmptySeq
    <3>2. StepsLeft' = (Len(queue') * PerKey) + t + 1
      BY <2>1 DEF StepsLeft, PerKey
    <3>3. ((n - 1) * PerKey) = m - PerKey
      BY <1>1, <3>1, OneLess
    <3>4. StepsLeft' = (m - PerKey) + t + 1
      BY <3>1, <3>2, <3>3
    <3> HIDE DEF m, n, s, t
    <3> QED
      BY <1>1, <1>3, <1>4, <2>1, <3>4
  <2>3. CASE GetchOverrun /\ UNCHANGED queue
    <3>1. t = 0
      BY <2>3 DEF GetchOverrun, StepsAt
    <3>2. StepsLeft' = m + t + 1
      BY <2>1, <2>3 DEF StepsLeft, PerKey
    <3> HIDE DEF m, n, s, t
    <3> QED
      BY <1>3, <1>4, <2>1, <3>1, <3>2
  <2> QED
    BY <1>5, <2>2, <2>3 DEF GetLine, Enter, Getch
<1>6. CASE Compute \/ Answer
  <2>1. stopped' = "no" /\ queue' = queue
    BY <1>2, <1>6 DEF Compute, Answer, console
  <2>2. StepsLeft' = m + t + 1
    BY <2>1 DEF StepsLeft, PerKey
  <2>3. t < s
    <3>1. CASE StripBlank
      <4>1. i \in Int /\ pc = "strip" /\ pc' = "strip" /\ i' = i - 1
        BY <1>1, <3>1 DEF StripBlank, TypeOK
      <4> QED
        BY <4>1 DEF StepsAt
    <3>2. CASE StripInk \/ StripEnd
      <4>1. pc = "strip" /\ t = 4
        BY <3>2 DEF StripInk, StripEnd, StepsAt
      <4> HIDE DEF t
      <4> QED
        BY <1>1, <4>1
    <3>3. CASE Clear \/ Compare \/ SysPrint
      BY <3>3 DEF Clear, Compare, SysPrint, StepsAt
    <3> QED
      BY <1>6, <3>1, <3>2, <3>3 DEF Compute, Answer
  <2> HIDE DEF m, n, s, t
  <2> QED
    BY <1>3, <1>4, <2>2, <2>3
<1>7. CASE AnswerDivides
  <2>1. stopped' # "no" /\ queue' = queue /\ t = s
    BY <1>7 DEF AnswerDivides, vars, StepsAt
  <2>2. StepsLeft' = m + t + 0
    BY <2>1 DEF StepsLeft, PerKey
  <2> HIDE DEF m, n, s, t
  <2> QED
    BY <1>3, <1>4, <2>1, <2>2
<1> QED
  BY <1>5, <1>6, <1>7 DEF Program

LEMMA HandlerSteps ==
    ASSUME IInv, ConsoleOK, KeyboardHandler \/ MouseHandler
    PROVE  StepsLeft' <= StepsLeft + PerKey /\ (MouseHandler => StepsLeft' <= StepsLeft)
<1>1. PerKey \in Nat /\ Len(queue) \in Nat /\ StepsAt \in Nat /\ StepsAt' = StepsAt /\ stopped = "no"
  <2>1. UNCHANGED vars /\ stopped = "no"
    BY DEF KeyboardHandler, MouseHandler
  <2>2. StepsAt' = StepsAt
    BY <2>1 DEF StepsAt, vars
  <2>3. PerKey \in Nat
    BY ProgramAssumption DEF PerKey
  <2>4. StepsAt \in Nat
    BY <2>3, StepsAtBound DEF IInv
  <2> QED
    BY <2>1, <2>2, <2>3, <2>4, QueueLen DEF ConsoleOK
<1> DEFINE n == Len(queue)
           m == n * PerKey
           s == StepsAt
           one == IF stopped' = "no" THEN 1 ELSE 0
<1>2. m \in Nat /\ one \in 0 .. 1
  BY <1>1, OneLess
<1>3. StepsLeft = m + s + 1 /\ StepsLeft' = (Len(queue') * PerKey) + s + one
  BY <1>1 DEF StepsLeft, PerKey
<1>4. CASE queue' = queue
  <2>1. StepsLeft' = m + s + one
    BY <1>3, <1>4
  <2> HIDE DEF m, n, s, one
  <2> QED
    BY <1>1, <1>2, <1>3, <2>1 DEF s
<1>5. CASE queue' # queue
  <2>1. KeyboardHandler /\ ~MouseHandler
    BY <1>5 DEF MouseHandler
  <2>2. PICK c \in Key \cup {Newline} : Push(c)
    BY <1>5, <2>1, ConsoleConstants
    DEF KeyboardHandler, EchoGlyph, EchoBackspace, EchoNewline, EchoNothing, UnknownKey
  <2>3. queue' = Append(queue, c)
    BY <1>5, <2>2 DEF Push
  <2>4. Len(queue') = n + 1
    BY <2>3, AppendProperties DEF ConsoleOK, QueueOK
  <2>5. ((n + 1) * PerKey) = m + PerKey
    BY <1>1, OneMore
  <2>6. StepsLeft' = (m + PerKey) + s + one
    BY <1>3, <2>4, <2>5
  <2> HIDE DEF m, n, s, one
  <2> QED
    BY <1>1, <1>2, <1>3, <2>1, <2>6 DEF s
<1> QED
  BY <1>4, <1>5

\* The program gets no farther behind than the keys explain: every step of it leaves
\* less to do, a key in the buffer adds what one key can take, and the mouse nothing.
ProgramKeepsUp ==
    [][/\ StepsLeft \in Nat /\ StepsLeft' \in Nat
       /\ Program => StepsLeft' < StepsLeft
       /\ KeyboardHandler => StepsLeft' <= StepsLeft + PerKey
       /\ MouseHandler => StepsLeft' <= StepsLeft]_allVars

\* get_line, strip and the command loop take a bounded number of steps for a key,
\* whatever is typed meanwhile: the program waits for keys before long, or has stopped.
THEOREM UserProgramKeepsUp == TerminalSpec => ProgramKeepsUp
<1> DEFINE I == IInv /\ ConsoleOK
<1>0. (I => StepsLeft \in Nat)'
  <2>1. I => StepsLeft \in Nat
    BY StepsLeftNat DEF IInv, ConsoleOK
  <2> QED
    BY <2>1, PTL
<1>1. I /\ I' /\ [TerminalNext]_allVars =>
        \/ UNCHANGED allVars
        \/ /\ StepsLeft \in Nat /\ StepsLeft' \in Nat
           /\ Program => StepsLeft' < StepsLeft
           /\ KeyboardHandler => StepsLeft' <= StepsLeft + PerKey
           /\ MouseHandler => StepsLeft' <= StepsLeft
  <2> SUFFICES ASSUME I, I'
               PROVE  /\ StepsLeft \in Nat /\ StepsLeft' \in Nat
                      /\ Program => StepsLeft' < StepsLeft
                      /\ KeyboardHandler => StepsLeft' <= StepsLeft + PerKey
                      /\ MouseHandler => StepsLeft' <= StepsLeft
    OBVIOUS
  <2>1. StepsLeft \in Nat
    BY StepsLeftNat DEF IInv, ConsoleOK
  <2>2. StepsLeft' \in Nat
    BY <1>0
  <2>3. KeyboardHandler => StepsLeft' <= StepsLeft + PerKey
    BY HandlerSteps
  <2>4. MouseHandler => StepsLeft' <= StepsLeft
    BY HandlerSteps
  <2> QED
    BY <2>1, <2>2, <2>3, <2>4, ProgramStepsLess
<1> QED
  BY <1>1, TerminalInvariant, PTL DEF TerminalSpec, ProgramKeepsUp
=============================================================================

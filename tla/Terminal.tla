------------------------------ MODULE Terminal ------------------------------
(***************************************************************************)
(* The terminal: keyboard_handler, which puts each key into the key buffer *)
(* and echoes it on the screen, and the user program, which takes the keys *)
(* out of the buffer with sys_getch and answers with sys_print.            *)
(*                                                                         *)
(* The two meet in memory as well.  kprintf, which draws the echo, takes a *)
(* buffer from the kernel heap and never gives it back, and sys_print      *)
(* takes one as long as the answer.  The caret has no bounds: below the    *)
(* frame buffer there is a guard page.                                     *)
(*                                                                         *)
(* The key buffer is the queue that KeyBuffer shows it to be.              *)
(***************************************************************************)
EXTENDS UserProgram, SequencesExt

CONSTANTS
    Newline, Backspace, Space,
    Printable,      \* the keys for which is_print holds
    Capacity,       \* of the key buffer: MAX_KEYS - 1
    Columns,        \* cells in a row of the screen
    FirstRow,       \* the caret's row at boot
    FrameRows,      \* rows of cells in the 1280 x 1024 pixels
    MappedRows,     \* rows of cells in front of the guard page
    RowCap, ColCap, \* bounds of the model: the caret goes no further
    HeapSize,       \* kernel heap left when the program starts
    BufferSize,     \* of kprintf: 256
    AnswerSize      \* bytes sys_print gets

ASSUME TerminalAssumption ==
    /\ Newline \notin Key /\ Backspace \in Key \ Printable
    /\ Printable \subseteq Key /\ Space \in Printable
    /\ {Capacity, Columns, FirstRow, FrameRows, MappedRows, RowCap, ColCap, HeapSize} \subseteq Nat
    /\ BufferSize \in Nat \ {0} /\ AnswerSize \in Nat
    /\ Capacity > 0 /\ Columns > 0

VARIABLES
    queue,      \* the keys that wait in cbuf
    col, row,   \* caret_x and caret_y, in cells
    shown,      \* the cells of the caret's row
    free,       \* bytes of the kernel heap
    stopped,    \* what has stopped the machine, or "no"
    faithful    \* history: no key was dropped, and none left its echo undrawn

screen == <<col, row, shown, faithful>>
console == <<queue, screen, free, stopped>>
allVars == <<vars, console>>

Empty == [n \in 0 .. Columns - 1 |-> Space]

TerminalInit ==
    /\ Init
    /\ queue = <<>>
    /\ col = 0 /\ row = FirstRow /\ shown = Empty
    /\ free = HeapSize /\ stopped = "no" /\ faithful = TRUE
-----------------------------------------------------------------------------
\* malloc finds the room.
HeapFits(size) == size < free

\* Mutant: the buffer makes room for a new key.
PushOver(c) == queue' = IF Len(queue) < Capacity THEN Append(queue, c) ELSE Append(Tail(queue), c)

\* circ_buf_push: a key that finds the buffer full is dropped.
Push(c) == queue' = IF Len(queue) < Capacity THEN Append(queue, c) ELSE queue

Dropped == Len(queue) = Capacity

\* draw_char in column x; in the guard page it faults.
Draw(c, x) ==
    /\ stopped' = IF row >= MappedRows THEN "page fault" ELSE stopped
    /\ shown' = IF row < MappedRows THEN [shown EXCEPT ![x % Columns] = c] ELSE shown

\* Without a buffer nothing is drawn.
Kprintf(c, x) ==
    /\ IF HeapFits(BufferSize) THEN free' = free - BufferSize /\ Draw(c, x)
                               ELSE UNCHANGED <<free, stopped, shown>>
    /\ faithful' = (faithful /\ ~Dropped /\ HeapFits(BufferSize))

EchoGlyph(c) ==
    /\ c \in Printable /\ col < ColCap /\ Push(c)
    /\ Kprintf(c, col)
    /\ col' = col + 1 /\ UNCHANGED row

\* Mutant: the caret goes back, the character stays.
EchoBackspaceStays ==
    /\ Push(Backspace)
    /\ IF col > 0 THEN col' = col - 1 /\ UNCHANGED <<free, stopped, shown>>
                  ELSE UNCHANGED <<free, stopped, shown, col>>
    /\ faithful' = (faithful /\ ~Dropped)
    /\ UNCHANGED row

EchoBackspace ==
    /\ Push(Backspace)
    /\ IF col > 0
          THEN col' = col - 1 /\ Kprintf(Space, col - 1)
          ELSE /\ faithful' = (faithful /\ ~Dropped)
               /\ UNCHANGED <<col, free, stopped, shown>>
    /\ UNCHANGED row

EchoNewline ==
    /\ row < RowCap /\ Push(Newline)
    /\ col' = 0 /\ row' = row + 1 /\ shown' = Empty
    /\ faithful' = (faithful /\ ~Dropped)
    /\ UNCHANGED <<free, stopped>>

\* Escape, say.
EchoNothing(c) ==
    /\ c \in Key \ (Printable \cup {Backspace}) /\ Push(c)
    /\ faithful' = (faithful /\ ~Dropped)
    /\ UNCHANGED <<col, row, shown, free, stopped>>

\* A key that gives no character is reported in a line of text, which may fall on
\* the caret's row.
UnknownKey ==
    /\ free' = IF HeapFits(BufferSize) THEN free - BufferSize ELSE free
    /\ faithful' \in {faithful, FALSE}
    /\ UNCHANGED <<queue, col, row, shown, stopped>>

\* (A released key does nothing.)
KeyboardHandler ==
    /\ stopped = "no"
    /\ \/ EchoNewline \/ EchoBackspace \/ UnknownKey
       \/ \E c \in Key : EchoGlyph(c) \/ EchoNothing(c)
    /\ UNCHANGED vars

\* A packet of the mouse draws three lines of text, each from a buffer, and the
\* cursor, which may fall on the caret's row.
MouseHandler ==
    /\ stopped = "no"
    /\ \E n \in 0 .. 3 :
        /\ free' = free - n * BufferSize
        /\ n > 0 => BufferSize * n < free
        /\ n < 3 => BufferSize * (n + 1) >= free
    /\ faithful' \in {faithful, FALSE}
    /\ UNCHANGED <<vars, queue, col, row, shown, stopped>>
-----------------------------------------------------------------------------
\* The steps of get_line, with sys_getch.
GetLine ==
    /\ queue # <<>>
    /\ \/ Head(queue) = Newline /\ Enter /\ queue' = Tail(queue)
       \/ Head(queue) # Newline /\ Getch(Head(queue)) /\ queue' = Tail(queue)
       \/ GetchOverrun /\ UNCHANGED queue
    /\ UNCHANGED <<screen, free, stopped>>

Compute ==
    /\ Clear \/ StripBlank \/ StripInk \/ StripEnd \/ Compare
    /\ UNCHANGED console

Answer ==
    /\ HeapFits(AnswerSize) /\ SysPrint
    /\ free' = free - AnswerSize
    /\ UNCHANGED <<queue, screen, stopped>>

\* sys_print does not test for NULL, but memcpy divides by zero rather than copy
\* to an address under 4096.
AnswerDivides ==
    /\ pc = "print" /\ ~HeapFits(AnswerSize)
    /\ stopped' = "divide error"
    /\ UNCHANGED <<vars, queue, screen, free>>

Program == stopped = "no" /\ (GetLine \/ Compute \/ Answer \/ AnswerDivides)

TerminalNext == KeyboardHandler \/ MouseHandler \/ Program

\* The program goes on between interrupts; nobody has to type.
TerminalSpec == TerminalInit /\ [][TerminalNext]_allVars /\ WF_allVars(Program)
-----------------------------------------------------------------------------
TerminalOK ==
    /\ TypeOK
    /\ queue \in Seq(Key \cup {Newline}) /\ Len(queue) <= Capacity
    /\ col \in Nat /\ row \in Nat
    /\ shown \in [0 .. Columns - 1 -> Printable]
    /\ free \in 0 .. HeapSize
    /\ stopped \in {"no", "page fault", "divide error"} /\ faithful \in BOOLEAN

\* The keys that the program has of its line, and those that wait for it.
Typing == (IF pc \in {"get", "overrun"} THEN typed ELSE <<>>) \o queue

AfterNewline(s) == SubSeq(s, Max({0} \cup {n \in DOMAIN s : s[n] = Newline}) + 1, Len(s))

\* The keys typed since the last newline, read or not.
Line == AfterNewline(Typing)

\* What a screen ought to show of them: a backspace takes back what is there.
Rubout(line, c) ==
    IF c \in Printable THEN Append(line, c)
    ELSE IF c = Backspace /\ line # <<>> THEN Front(line) ELSE line

Seen[s \in Seq(Key)] == IF s = <<>> THEN <<>> ELSE Rubout(Seen[Front(s)], Last(s))

\* The caret's row shows the line that the program will get, however far behind
\* the program is, unless a key found the buffer full, an echo found no heap or
\* a report or the mouse drew over it; and but for the backspaces, which the program gets as
\* characters.  (A line that is wider than the screen wraps onto itself.)
ScreenShowsLine ==
    faithful /\ stopped = "no" /\ Len(Line) <= Columns =>
        LET seen == Seen[Line]
        IN  /\ col = Len(seen)
            /\ row < MappedRows =>
                shown = [n \in 0 .. Columns - 1 |-> IF n < Len(seen) THEN seen[n + 1] ELSE Space]

\* The comment at the frame buffer's pages: "1280x1024 pixels".  What is drawn is
\* drawn in those pixels.
EchoInFrame == shown # Empty => row < FrameRows

\* A line that waits gets to the comparison, whatever is typed behind it, until
\* the rows or the heap are used up or a line is too long.
LineIsAnswered ==
    (\E n \in DOMAIN queue : queue[n] = Newline)
        ~> (pc \in {"compare", "overrun"} \/ row >= MappedRows \/ free <= AnswerSize)
=============================================================================

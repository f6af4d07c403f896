----------------------------- MODULE UserProgram -----------------------------
(***************************************************************************)
(* The user program's command loop (userland/userland.c): it clears its    *)
(* line, reads one, strips it and compares it with the one command it      *)
(* knows.  strip runs iteration by iteration.  The line is a buffer in     *)
(* memory, so that a character of an earlier line, or a missing end, would *)
(* show; typed is what the user typed, kept to compare with.               *)
(*                                                                         *)
(* get_line does not ask whether the line is full: what lies behind it is  *)
(* up to the compiler, and the model stops there ("overrun").              *)
(***************************************************************************)
EXTENDS Integers, Sequences, FiniteSetsExt

CONSTANTS
    Key,        \* the characters the keyboard gives, but for the newline
    Blank,      \* those of them that strip takes off (get_line stores no newline)
    Command,    \* "pwd"
    Size        \* of the line

Nul == "nul"

ASSUME ProgramAssumption ==
    /\ Blank \subseteq Key /\ Nul \notin Key
    /\ Size \in Nat /\ Command \in Seq(Key \ Blank)
    /\ 2 <= Len(Command) /\ Len(Command) < Size

VARIABLES readl, i, kill, pc, typed

vars == <<readl, i, kill, pc, typed>>

Strlen(s) == CHOOSE n \in 0 .. Size - 1 :
                s[n] = Nul /\ \A m \in 0 .. n - 1 : s[m] # Nul

\* sizeof(readl) is all Nul after memset.
Cleared == [n \in 0 .. Size - 1 |-> Nul]

Init ==
    /\ readl = Cleared
    /\ i = 0 /\ kill = 0 /\ pc = "clear" /\ typed = <<>>
-----------------------------------------------------------------------------
\* Mutant: the line is not cleared.
ClearNot == pc = "clear" /\ pc' = "get" /\ i' = 0 /\ typed' = <<>> /\ UNCHANGED <<readl, kill>>

\* memset, and get_line's i.
Clear ==
    /\ pc = "clear" /\ pc' = "get"
    /\ readl' = Cleared /\ i' = 0 /\ typed' = <<>>
    /\ UNCHANGED kill

Getch(c) ==
    /\ pc = "get" /\ i < Size
    /\ readl' = [readl EXCEPT ![i] = c]
    /\ i' = i + 1 /\ typed' = Append(typed, c)
    /\ UNCHANGED <<kill, pc>>

\* One more character is written behind the line, and at the newline strlen
\* looks there for the end of the string.
GetchOverrun ==
    /\ pc = "get" /\ i = Size /\ pc' = "overrun"
    /\ UNCHANGED <<readl, i, kill, typed>>

\* Mutant: one too far.
EnterPast ==
    /\ pc = "get" /\ i < Size /\ pc' = "strip"
    /\ kill' = Strlen(readl) + 1 /\ i' = Strlen(readl) - 1
    /\ UNCHANGED <<readl, typed>>

\* The newline, and the start of strip.
Enter ==
    /\ pc = "get" /\ i < Size /\ pc' = "strip"
    /\ kill' = Strlen(readl) /\ i' = Strlen(readl) - 1
    /\ UNCHANGED <<readl, typed>>

StripBlank ==
    /\ pc = "strip" /\ i > 0 /\ readl[i] \in Blank
    /\ kill' = i /\ i' = i - 1
    /\ UNCHANGED <<readl, pc, typed>>

\* Anything else ends the string behind it.
StripInk ==
    /\ pc = "strip" /\ i > 0 /\ readl[i] \notin Blank
    /\ readl' = [readl EXCEPT ![kill] = Nul]
    /\ pc' = "compare"
    /\ UNCHANGED <<i, kill, typed>>

\* The loop does not look at the first character; then it cuts nothing.
StripEnd ==
    /\ pc = "strip" /\ i <= 0 /\ pc' = "compare"
    /\ UNCHANGED <<readl, i, kill, typed>>

\* strcmp: the lengths, then the characters.
Strcmp(s, t) ==
    /\ Strlen(s) = Len(t)
    /\ \A n \in 0 .. Strlen(s) - 1 : s[n] = t[n + 1]

Compare ==
    /\ pc = "compare" /\ pc' = IF Strcmp(readl, Command) THEN "print" ELSE "clear"
    /\ UNCHANGED <<readl, i, kill, typed>>

\* sys_print of the answer.
SysPrint == pc = "print" /\ pc' = "clear" /\ UNCHANGED <<readl, i, kill, typed>>

Next == Clear \/ (\E c \in Key : Getch(c)) \/ GetchOverrun \/ Enter
          \/ StripBlank \/ StripInk \/ StripEnd \/ Compare \/ SysPrint

Spec == Init /\ [][Next]_vars
-----------------------------------------------------------------------------
TypeOK ==
    /\ readl \in [0 .. Size - 1 -> {Nul} \cup Key]
    /\ i \in -1 .. Size /\ kill \in 0 .. Size - 1
    /\ pc \in {"clear", "get", "strip", "compare", "print", "overrun"}
    /\ typed \in Seq(Key) /\ Len(typed) <= Size

\* Trailing whitespace removed, as a reader of the comment would do it.
Trimmed(s) == SubSeq(s, 1, Max({0} \cup {n \in 1 .. Len(s) : s[n] \notin Blank}))

\* Whatever was typed before, and although strip spares the first character, a
\* line is answered exactly when it is the command followed by blanks.
AnswersExactly ==
    [][pc = "compare" => (pc' = "print" <=> Trimmed(typed) = Command)]_vars
=============================================================================

------------------------------- MODULE Printf -------------------------------
(***************************************************************************)
(* One directive of tfp_format (kernel/tinyprintf.c, and the same file for *)
(* the user program), with the loops of ui2a that turn a number into       *)
(* digits, and vsnprintf, which cuts the text to the buffer.  ui2a, uli2a  *)
(* and ulli2a differ in the width of their integers only.                  *)
(*                                                                         *)
(* Characters are their codes.                                             *)
(***************************************************************************)
EXTENDS Integers, SequencesExt

CONSTANT Modulus    \* of an unsigned int: 2^32

ASSUME PrintfAssumption == Modulus \in Nat \ {0}

Blank == 32
Minus == 45
Zero == 48
Ex == 120

VARIABLES
    dir,        \* the directive: flags, width and conversion
    arg,        \* its argument: the characters of a string, or <<an integer>>
    num, d,     \* of ui2a
    sign,
    bf,         \* the characters of the number
    text,       \* what vsnprintf has put into the buffer
    ppc

printfVars == <<dir, arg, num, d, sign, bf, text, ppc>>

NoDirective == [left |-> FALSE, lz |-> FALSE, alt |-> FALSE, width |-> 0, conv |-> "none"]

NoPrintf ==
    /\ dir = NoDirective /\ arg = <<>> /\ num = 0 /\ d = 0 /\ sign = <<>> /\ bf = <<>> /\ text = <<>>
    /\ ppc = "idle"

Base == IF dir.conv = "x" THEN 16 ELSE 10

Format(directive, value) ==
    /\ ppc = "idle" /\ dir' = directive /\ arg' = value
    /\ ppc' = "convert"
    /\ UNCHANGED <<num, d, sign, bf, text>>

\* %d takes the sign off; negating the least integer changes nothing, and as an
\* unsigned it is the right number.
Number ==
    /\ ppc = "convert" /\ dir.conv \in {"d", "u", "x"} /\ ppc' = "scale"
    /\ LET negative == dir.conv = "d" /\ arg[1] < 0
       IN  /\ sign' = IF negative THEN <<Minus>> ELSE <<>>
           /\ num' = (IF negative THEN -arg[1] ELSE arg[1]) % Modulus
    /\ d' = 1
    /\ UNCHANGED <<dir, arg, bf, text>>

String ==
    /\ ppc = "convert" /\ dir.conv = "s" /\ ppc' = "put"
    /\ bf' = arg
    /\ UNCHANGED <<dir, arg, num, d, sign, text>>

\* Mutant: d passes num, and may wrap.
ScaleBeyond == num >= d

\* d has fewer digits than num.
Scales == num \div d >= Base

Scale ==
    /\ ppc = "scale"
    /\ IF Scales THEN d' = (d * Base) % Modulus /\ UNCHANGED ppc
                 ELSE ppc' = "digits" /\ UNCHANGED d
    /\ UNCHANGED <<dir, arg, num, sign, bf, text>>

Digit(n) == IF n < 10 THEN Zero + n ELSE 97 + n - 10

Digits ==
    /\ ppc = "digits"
    /\ IF d = 0
          THEN ppc' = "put" /\ UNCHANGED <<num, d, bf>>
          ELSE /\ bf' = IF bf # <<>> \/ num \div d > 0 \/ d \div Base = 0
                           THEN Append(bf, Digit(num \div d)) ELSE bf
               /\ num' = num % d /\ d' = d \div Base
               /\ UNCHANGED ppc
    /\ UNCHANGED <<dir, arg, sign, text>>

Fill(c, n) == [k \in 1 .. n |-> c]

\* putchw: blanks, sign, prefix, zeros, the characters, blanks.
Putchw ==
    LET prefix == sign \o (IF dir.alt /\ dir.conv = "x" THEN <<Zero, Ex>> ELSE <<>>)
        n == dir.width - Len(prefix) - Len(bf)
    IN  (IF dir.lz \/ dir.left THEN <<>> ELSE Fill(Blank, n)) \o prefix
            \o (IF dir.lz THEN Fill(Zero, n) ELSE <<>>) \o bf
            \o (IF dir.left /\ ~dir.lz THEN Fill(Blank, n) ELSE <<>>)

\* vsnprintf keeps a byte for the end of the string.
Cut(s, size) == SubSeq(s, 1, Min({Len(s), size - 1}))

Put(size) ==
    /\ ppc = "put" /\ ppc' = "done"
    /\ text' = Cut(Putchw, size)
    /\ UNCHANGED <<dir, arg, num, d, sign, bf>>

PrintfStep(size) == Number \/ String \/ Scale \/ Digits \/ Put(size)

\* itoa of string.c, which prints the line numbers: rest[k] is num after k digits,
\* and the digits are put out from the last one taken.
Itoa(n) ==
    LET rest[k \in 0 .. n] == IF k = 0 THEN n ELSE rest[k - 1] \div 10
        offset == CHOOSE k \in 0 .. n : rest[k] = 0 /\ \A j \in 0 .. k - 1 : rest[j] # 0
    IN  IF n = 0 THEN <<Zero>> ELSE [k \in 1 .. offset |-> Zero + (rest[offset - k] % 10)]
=============================================================================

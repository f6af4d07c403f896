------------------------------- MODULE Serial -------------------------------
(***************************************************************************)
(* What goes out through the serial ports (kernel/serial.c).  sys_print    *)
(* copies the user program's bytes into a block of the kernel heap, which  *)
(* begins wherever the last one ended, and debug_buffer sends them through *)
(* COM2.  debug and error print the line number with itoa and the rest     *)
(* with vsnprintf, and send both through COM1.                             *)
(*                                                                         *)
(* The port is external: it sends a byte when it can.                      *)
(***************************************************************************)
EXTENDS Memcpy, Printf

CONSTANTS
    KernelAddr,     \* where a block may begin; 0 if there is no memory
    UserAddr,       \* where the user program's bytes may lie
    PrintSize,      \* how many they may be
    Directive, Argument, Text,   \* of the debug lines
    Line,           \* their numbers: tmp of itoa has room for an unsigned int
    DebugSize,      \* of their buffer: 256
    Fifo            \* bytes the port keeps: 16

ASSUME SerialAssumption ==
    /\ KernelAddr \cup UserAddr \cup PrintSize \subseteq Nat /\ Line \subseteq 0 .. Modulus - 1
    /\ Directive \subseteq [left : BOOLEAN, lz : BOOLEAN, alt : BOOLEAN, width : Nat,
                             conv : {"d", "u", "x", "s"}]
    /\ Argument \subseteq 1 - Modulus .. Modulus - 1 /\ Text \subseteq Seq(Nat)
    /\ DebugSize \in Nat \ {0} /\ Fifo \in Nat \ {0}

VARIABLES
    line,       \* __LINE__
    out,        \* the bytes to write
    wire,       \* history: the bytes written to the port
    fifo,       \* bytes it has yet to send
    spc

port == <<line, out, wire, fifo, spc>>
serialVars == <<memcpyVars, printfVars, port>>

SerialInit ==
    /\ NoMemcpy /\ NoPrintf
    /\ line = 0 /\ out = <<>> /\ wire = <<>> /\ fifo = 0 /\ spc = "idle"
-----------------------------------------------------------------------------
SysPrint ==
    /\ spc = "idle" /\ spc' = "print"
    /\ \E k \in KernelAddr, u \in UserAddr, n \in PrintSize : Call(k, u, n)
    /\ UNCHANGED <<printfVars, line, out, wire, fifo>>

Memcpy ==
    /\ spc = "print" /\ MemcpyStep
    /\ UNCHANGED <<printfVars, port>>

\* debug_buffer of k_p, size bytes.
DebugBuffer ==
    /\ spc = "print" /\ Copied /\ spc' = "write"
    /\ out' = [n \in 1 .. size |-> stored[dest + n - 1]]
    /\ UNCHANGED <<memcpyVars, printfVars, line, wire, fifo>>

DebugContext ==
    /\ spc = "idle" /\ spc' = "debug"
    /\ line' \in Line
    /\ \E f \in Directive : \E a \in IF f.conv = "s" THEN Text ELSE {<<n>> : n \in Argument} : Format(f, a)
    /\ UNCHANGED <<memcpyVars, out, wire, fifo>>

Vsnprintf ==
    /\ spc = "debug" /\ PrintfStep(DebugSize)
    /\ UNCHANGED <<memcpyVars, port>>

WriteString ==
    /\ spc = "debug" /\ ppc = "done" /\ spc' = "write"
    /\ out' = Itoa(line) \o text
    /\ UNCHANGED <<memcpyVars, printfVars, line, wire, fifo>>

\* The flag of the line status that says so.
TransmitEmpty == IF fifo = 0 THEN 32 ELSE 0

\* Mutant: the flag is tested as it is meant to be.
IsTransmitEmptyMasked == TransmitEmpty # 0

\* The flag is compared with 1, and so never found.
IsTransmitEmpty == TransmitEmpty = 1

\* serial_write_byte loops while the port is empty.  A byte for a full one is lost.
WriteByte ==
    /\ spc = "write" /\ ~IsTransmitEmpty /\ Len(wire) < Len(out)
    /\ wire' = Append(wire, out[Len(wire) + 1])
    /\ fifo' = IF fifo < Fifo THEN fifo + 1 ELSE fifo
    /\ UNCHANGED <<memcpyVars, printfVars, line, out, spc>>

Written ==
    /\ spc = "write" /\ Len(wire) = Len(out) /\ spc' = "done"
    /\ UNCHANGED <<memcpyVars, printfVars, line, out, wire, fifo>>

\* The port sends a byte.
Send ==
    /\ fifo > 0 /\ fifo' = fifo - 1
    /\ UNCHANGED <<memcpyVars, printfVars, line, out, wire, spc>>

Cpu == SysPrint \/ Memcpy \/ DebugBuffer \/ DebugContext \/ Vsnprintf \/ WriteString
         \/ WriteByte \/ Written

SerialNext == Cpu \/ Send

\* The CPU goes on; the port may be stuck.
SerialSpec == SerialInit /\ [][SerialNext]_serialVars /\ WF_serialVars(Cpu)
-----------------------------------------------------------------------------
\* Digits as a reader takes them.
Numeral(c) == IF c >= 97 THEN c - 87 ELSE c - Zero

Reads(s, base) ==
    LET value[k \in 0 .. Len(s)] == IF k = 0 THEN 0 ELSE value[k - 1] * base + Numeral(s[k])
    IN  value[Len(s)]

IsNumber(s) == s # <<>> /\ \A k \in DOMAIN s : s[k] \in (48 .. 57) \cup (97 .. 102)

NoZeroInFront(s) == Len(s) = 1 \/ s[1] # Zero

\* The sign and prefix that a number should have, and its distance from 0.
Prefix == (IF dir.conv = "d" /\ arg[1] < 0 THEN <<Minus>> ELSE <<>>)
            \o (IF dir.conv = "x" /\ dir.alt THEN <<Zero, Ex>> ELSE <<>>)

Magnitude == IF dir.conv = "d" /\ arg[1] < 0 THEN -arg[1] ELSE arg[1] % Modulus

\* The characters s stand for the argument: with a fill in front or blanks behind, the
\* string, or a number with the sign, the prefix and no zero too many.
StandsForArgument(s) ==
    \E l, r \in 0 .. Len(s) :
        IF dir.conv = "s" THEN s = Fill(IF dir.lz THEN Zero ELSE Blank, l) \o arg \o Fill(Blank, r)
        ELSE LET digits == SubSeq(s, l + Len(Prefix) + 1, Len(s) - r)
             IN  /\ s = Fill(Blank, l) \o Prefix \o digits \o Fill(Blank, r)
                 /\ IsNumber(digits)
                 /\ Reads(digits, IF dir.conv = "x" THEN 16 ELSE 10) = Magnitude
                 /\ (dir.lz /\ Len(s) = dir.width) \/ NoZeroInFront(digits)

SendsBytes == wire = [n \in 1 .. size |-> src + n - 1]

SendsLine ==
    \E n \in DOMAIN wire :
        LET number == SubSeq(wire, 1, n)
            rest == SubSeq(wire, n + 1, Len(wire))
        IN  /\ IsNumber(number) /\ Reads(number, 10) = line /\ NoZeroInFront(number)
            /\ Len(rest) < DebugSize
            /\ \/ Len(rest) = DebugSize - 1
               \/ Len(rest) >= dir.width /\ StandsForArgument(rest)

\* What is sent is what was asked for.  sys_print sends the user program's bytes.
\* A debug line begins with its number; then comes the argument, at least as wide
\* as the directive says, or as much as the buffer holds.
SendsText == spc = "done" => IF dir = NoDirective THEN SendsBytes ELSE SendsLine

\* Debug output never stops the kernel, whatever the state of the port; and
\* sys_print returns unless memcpy finds an address near 0.
SerialReturns == (spc # "idle") ~> (spc = "done" \/ mpc = "divide")
=============================================================================

------------------------------- MODULE Memcpy -------------------------------
(***************************************************************************)
(* memcpy (kernel/memcpy.c) as this kernel builds it: little endian, 64    *)
(* bits, indexed.  It aligns the destination byte by byte, then stores     *)
(* whole words; where the source is not aligned like the destination each  *)
(* word is put together from two aligned ones.                             *)
(*                                                                         *)
(* The byte at address a of the source is called a.                        *)
(***************************************************************************)
EXTENDS Integers

CONSTANTS
    TypeWidth,  \* bytes of a word: 8
    Unroll,     \* words of the unrolled loop: 8
    Wrap,       \* of addresses: 2^64
    LowPage     \* 4096

ASSUME MemcpyAssumption ==
    /\ TypeWidth \in Nat \ {0, 1} /\ Unroll \in Nat \ {0} /\ Wrap \in Nat \ {0}
    /\ LowPage \in Nat

VARIABLES
    dest, src, size,    \* the arguments
    dst8, src8,         \* where it is; in words, dstN and srcN
    count, length,      \* bytes and words to go
    shift, srcWord,     \* the bytes of srcWord that are stored, and its address
    stored,             \* what is in memory behind dest
    fetched,            \* history: the words read
    mpc

args == <<dest, src, size>>
memcpyVars == <<args, dst8, src8, count, length, shift, srcWord, stored, fetched, mpc>>

NoMemcpy ==
    /\ dest = 0 /\ src = 0 /\ size = 0 /\ dst8 = 0 /\ src8 = 0 /\ count = 0
    /\ length = 0 /\ shift = 0 /\ srcWord = 0 /\ stored = <<>> /\ fetched = {}
    /\ mpc = "idle"

\* The test against NULL and wrapping, which divides by zero.
Divides(to, from, n) == (to + n) % Wrap < LowPage \/ (from + n) % Wrap < LowPage

Call(to, from, n) ==
    /\ mpc = "idle"
    /\ dest' = to /\ src' = from /\ size' = n
    /\ dst8' = to /\ src8' = from /\ count' = n
    /\ mpc' = IF Divides(to, from, n) THEN "divide" ELSE IF n < TypeWidth THEN "rest" ELSE "align"
    /\ UNCHANGED <<length, shift, srcWord, stored, fetched>>

\* Bytes are written over what is there.
Store(bytes) ==
    stored' = [a \in DOMAIN stored \cup DOMAIN bytes |-> IF a \in DOMAIN bytes THEN bytes[a] ELSE stored[a]]

CopyByte ==
    /\ Store([a \in {dst8} |-> src8])
    /\ dst8' = dst8 + 1 /\ src8' = src8 + 1 /\ count' = count - 1
    /\ UNCHANGED <<args, length, shift, srcWord, fetched, mpc>>

AlignByte == mpc = "align" /\ dst8 % TypeWidth # 0 /\ CopyByte

\* COPY_NO_SHIFT, or COPY_SHIFT with its first word.
FirstWord ==
    /\ mpc = "align" /\ dst8 % TypeWidth = 0 /\ mpc' = "words"
    /\ length' = count \div TypeWidth /\ shift' = src8 % TypeWidth
    /\ IF shift' = 0
          THEN UNCHANGED <<src8, srcWord, fetched>>
          ELSE /\ srcWord' = src8 - shift' /\ fetched' = fetched \cup {srcWord'}
               /\ src8' = srcWord' + TypeWidth
    /\ UNCHANGED <<args, dst8, count, stored>>

\* Byte k of the word stored m words on: with a shift, the upper bytes of one
\* word of the source and the lower ones of the next.
Merged(m, k) ==
    LET from == IF m = 0 THEN srcWord ELSE src8 + (m - 1) * TypeWidth
    IN  IF shift = 0 THEN src8 + m * TypeWidth + k
        ELSE IF k + shift < TypeWidth THEN from + k + shift
        ELSE src8 + m * TypeWidth + k + shift - TypeWidth

CopyWords(n) ==
    /\ Store([a \in dst8 .. dst8 + n * TypeWidth - 1 |->
                 Merged((a - dst8) \div TypeWidth, (a - dst8) % TypeWidth)])
    /\ fetched' = fetched \cup {src8 + m * TypeWidth : m \in 0 .. n - 1}
    /\ srcWord' = IF shift = 0 THEN srcWord ELSE src8 + (n - 1) * TypeWidth
    /\ dst8' = dst8 + n * TypeWidth /\ src8' = src8 + n * TypeWidth
    /\ length' = length - n
    /\ UNCHANGED <<args, count, shift, mpc>>

\* length & 7 words one by one, the others by eights.
CopyWord == mpc = "words" /\ length % Unroll # 0 /\ CopyWords(1)

CopyUnrolled == mpc = "words" /\ length # 0 /\ length % Unroll = 0 /\ CopyWords(Unroll)

\* Mutant: src8 is where the words end.
EndWordsAhead ==
    /\ mpc = "words" /\ length = 0 /\ mpc' = "rest"
    /\ count' = count % TypeWidth
    /\ UNCHANGED <<args, dst8, src8, length, shift, srcWord, stored, fetched>>

\* src8 goes back to the bytes of srcWord that are not stored yet.
EndWords ==
    /\ mpc = "words" /\ length = 0 /\ mpc' = "rest"
    /\ count' = count % TypeWidth
    /\ src8' = IF shift = 0 THEN src8 ELSE src8 + shift - TypeWidth
    /\ UNCHANGED <<args, dst8, length, shift, srcWord, stored, fetched>>

\* COPY_REMAINING.
RestByte == mpc = "rest" /\ count # 0 /\ CopyByte

Copied == mpc = "rest" /\ count = 0

MemcpyStep == AlignByte \/ FirstWord \/ CopyWord \/ CopyUnrolled \/ EndWords \/ RestByte
-----------------------------------------------------------------------------
\* Whatever the alignments and the size, memcpy copies each byte to its place and
\* writes nothing else.  It reads words beyond both ends of the source, but only
\* words that hold a byte of it: none lies in a page that the source does not reach.
CopiesExactly ==
    /\ Copied => stored = [a \in dest .. dest + size - 1 |-> src + a - dest]
    /\ \A a \in fetched : (a .. a + TypeWidth - 1) \cap (src .. src + size - 1) # {}
=============================================================================

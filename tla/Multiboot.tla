------------------------------ MODULE Multiboot ------------------------------
(***************************************************************************)
(* parse_multiboot_header (kernel/multiboot.c): the loop over the tags     *)
(* that the boot loader, which is external, has put behind each other,     *)
(* each at a multiple of 8 bytes.  Their content is anything: a tag may    *)
(* have size 0 or lead out of memory, the last one may be missing.  What   *)
(* the loop prints is left out, and the strings it prints are taken to be  *)
(* ended.                                                                  *)
(*                                                                         *)
(* Sizes have 32 bits and so has travel, but tag is a pointer.  They are   *)
(* the same number all the same: all that is mapped lies below 2^32, so    *)
(* that a tag where travel would wrap cannot be read.                      *)
(***************************************************************************)
EXTENDS Integers

CONSTANTS
    TagSizes,   \* the sizes of tags
    TotalSizes, \* and of the whole
    Wrap,       \* 2^32
    TagReach    \* bytes mapped for sure from the first tag on

ASSUME MultibootAssumption ==
    /\ Wrap \in Nat \ {0} /\ Wrap % 8 = 0
    /\ TagSizes \cup TotalSizes \subseteq 0 .. Wrap - 1
    /\ TagReach \in 0 .. Wrap

VARIABLES
    tag,        \* where the parser is, from the first tag
    placed,     \* where the boot loader put that tag
    end, tagSize,   \* the tag
    travel, total,
    parsing

multibootVars == <<tag, placed, end, tagSize, travel, total, parsing>>

NoTags ==
    /\ tag = 0 /\ placed = 0 /\ end = FALSE /\ tagSize = 0
    /\ travel = 0 /\ total = 0 /\ parsing = FALSE

ReadTag == end' \in BOOLEAN /\ tagSize' \in TagSizes

StartTags ==
    /\ ~parsing /\ parsing' = TRUE
    /\ total' \in TotalSizes
    /\ tag' = 0 /\ placed' = 0 /\ travel' = 0
    /\ ReadTag

\* Mutant: the size is not rounded.
TagUnitsDown(size) == size \div 8

\* next: the tag's size in units of 8 bytes, rounded up; the sum has 32 bits.
TagUnits(size) == IF size % 8 = 0 THEN size \div 8 ELSE ((size + 8) % Wrap) \div 8

\* Where it leads.
NextPlace == tag + 8 * TagUnits(tagSize)

\* The last tag, or too far.
LastTag == (end /\ tagSize = 8) \/ travel > total

\* The next tag, or the same one again.
NextTag ==
    /\ parsing /\ ~LastTag
    /\ NextPlace < Wrap
    /\ tag' = NextPlace /\ travel' = travel + 8 * TagUnits(tagSize)
    /\ IF tag' = tag
          THEN UNCHANGED <<placed, end, tagSize>>
          ELSE /\ placed' = CHOOSE n \in placed + tagSize .. placed + tagSize + 7 : n % 8 = 0
               /\ ReadTag
    /\ UNCHANGED <<total, parsing>>

\* The next tag is read before travel is tested: it may lie where nothing is
\* mapped.  The fields read of a tag take 29 bytes at most.
TagFault ==
    /\ parsing /\ ~LastTag
    /\ NextPlace # tag /\ NextPlace + 29 > TagReach
    /\ UNCHANGED multibootVars

EndTags ==
    /\ parsing /\ LastTag
    /\ tag' = 0 /\ placed' = 0 /\ end' = FALSE /\ tagSize' = 0
    /\ travel' = 0 /\ total' = 0 /\ parsing' = FALSE

\* The parser takes tags for tags: it never stands in the middle of one.
TagsInStep ==
    parsing => tag = placed
=============================================================================

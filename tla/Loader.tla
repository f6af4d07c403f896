------------------------------- MODULE Loader -------------------------------
(***************************************************************************)
(* run_userland (kernel/elf2.c): of an ELF file it takes the first segment *)
(* to load, copies its bytes in the file into a block of the kernel heap   *)
(* and from there to the start of the userland heap, and enters it at the  *)
(* entry point, wherever it was linked to.  p_memsz is not looked at, nor  *)
(* is the size of the file: what its headers point to is read wherever it  *)
(* is.                                                                     *)
(*                                                                         *)
(* The byte at offset n of the file is called n.  The linker is external.  *)
(***************************************************************************)
EXTENDS Integers, Sequences

CONSTANTS
    Elf,        \* the files: class64, entry, the end of their tables of headers, and
                \* segments with load, offset, paddr, filesz
    UserHeap,   \* bytes of the userland heap
    FileReach   \* bytes mapped for sure from the start of the file on

Segment == [load : BOOLEAN, offset : Nat, paddr : Nat, filesz : Nat]

ASSUME LoaderAssumption ==
    /\ Elf \subseteq [class64 : BOOLEAN, entry : Nat, tables : Nat, segments : Seq(Segment)]
    /\ UserHeap \in Nat /\ FileReach \in Nat

VARIABLES
    elf,        \* the file
    segment,    \* i of the loop over program headers
    code,       \* what is at the start of the userland heap
    entry,      \* where the program starts in it
    lpc

loaderVars == <<elf, segment, code, entry, lpc>>

NoElf == [class64 |-> FALSE, entry |-> 0, tables |-> 0, segments |-> <<>>]

NoLoader == elf = NoElf /\ segment = 0 /\ code = <<>> /\ entry = 0 /\ lpc = "idle"

\* parse_elf_header; the section headers are read and not used.
ParseHeader ==
    /\ lpc = "idle" /\ elf' \in Elf
    /\ segment' = 1 /\ lpc' = IF elf'.class64 THEN "segments" ELSE "returned"
    /\ UNCHANGED <<code, entry>>

SkipSegment ==
    /\ lpc = "segments" /\ segment <= Len(elf.segments) /\ ~elf.segments[segment].load
    /\ segment' = segment + 1
    /\ UNCHANGED <<elf, code, entry, lpc>>

NoSegment ==
    /\ lpc = "segments" /\ segment > Len(elf.segments) /\ lpc' = "returned"
    /\ UNCHANGED <<elf, segment, code, entry>>

\* Mutant: the entry point is taken from the start of the file.
EntryFromFile(s) == elf.entry - s.paddr + s.offset

EntryOffset(s) == elf.entry - s.paddr

\* A segment that finds no room is copied to address 0: the model stops there.
LoadSegment ==
    /\ lpc = "segments" /\ segment <= Len(elf.segments)
    /\ LET s == elf.segments[segment]
       IN  /\ s.load
           /\ IF s.filesz < UserHeap
                 THEN /\ code' = [n \in 0 .. s.filesz - 1 |-> s.offset + n]
                      /\ entry' = EntryOffset(s) /\ lpc' = "userland"
                 ELSE lpc' = "null" /\ UNCHANGED <<code, entry>>
    /\ UNCHANGED <<elf, segment>>

\* A table of headers, or the segment, may lie where nothing is mapped.
LoaderFault ==
    /\ lpc = "segments" /\ lpc' = "fault"
    /\ \/ elf.tables > FileReach
       \/ /\ segment <= Len(elf.segments) /\ elf.segments[segment].load
          /\ elf.segments[segment].offset + elf.segments[segment].filesz > FileReach
    /\ UNCHANGED <<elf, segment, code, entry>>

RunUserland == ParseHeader \/ SkipSegment \/ NoSegment \/ LoadSegment \/ LoaderFault

\* The program starts with the byte that the file has for its entry point, behind
\* it the others of the segment.
EntryIsEntry ==
    lpc = "userland" =>
        \E n \in DOMAIN elf.segments :
            LET s == elf.segments[n]
            IN  /\ s.load /\ elf.entry \in s.paddr .. s.paddr + s.filesz - 1
                /\ \A v \in elf.entry .. s.paddr + s.filesz - 1 :
                    code[entry + v - elf.entry] = s.offset + v - s.paddr
=============================================================================

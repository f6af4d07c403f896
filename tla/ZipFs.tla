-------------------------------- MODULE ZipFs --------------------------------
(***************************************************************************)
(* The zip file system of kernel/format/zip.c, as main() uses it: peek_zip *)
(* walks the archive in fsbuf to find its length, main() aborts if that is *)
(* 0 or does not fit, read_zip walks it again and copies every file to the *)
(* heap.                                                                   *)
(*                                                                         *)
(* The two walks are written twice, field by field, and nothing ties them  *)
(* together; read_zip tests neither the buffer's end nor the number of     *)
(* files, and leaves num_files unset when it gives up.  That the kernel    *)
(* may use what it returns rests on the walks taking the same steps.       *)
(*                                                                         *)
(* The bytes are abstracted to the section a walk finds at each offset: any *)
(* at all, so that a walk may take data for a header.  What memory holds is *)
(* decided when peek_zip first looks at it.  Offsets count from fsbuf.      *)
(***************************************************************************)
EXTENDS Integers, Sequences

CONSTANTS
    Section,     \* sections: kind and lengths of the variable fields
    Slots,       \* entries of the array of files: 16
    FsbufSize,   \* fsbuf_size of main(): 0x801000
    Reach,       \* bytes from fsbuf to the first page that is not mapped
    Free         \* bytes of heap that may be left when read_zip starts

Kind == {"local", "central", "end", "bad"}

ASSUME ZipAssumption ==
    /\ Section \subseteq
         [kind : Kind, name : Nat, extra : Nat, data : Nat, comment : Nat]
    /\ Slots \in Nat /\ FsbufSize \in Nat /\ Reach \in Nat
    /\ Free \subseteq Nat

VARIABLES
    found,    \* the section that peek_zip found, at each offset it looked at
    free,     \* bytes of heap left
    pc,       \* "peek", "size" (main's tests), "start" and "read" (read_zip),
              \* "use" (main uses zipfs), "abort", "failed", "fault"
    cur,      \* cur of peek_zip, then of read_zip
    len,      \* zipfs_size
    used,     \* bytes of heap taken by read_zip
    files,    \* entries stored: where the section was, and the bytes it got
    damaged   \* entries whose bytes a later entry overwrote

vars == <<found, free, pc, cur, len, used, files, damaged>>

FileSize == 24    \* sizeof(file_t)
PtrSize == 8      \* sizeof(file_t*)
Signature == 4    \* magic and section type
-----------------------------------------------------------------------------
\* The bytes each function passes, field by field in the order of the code.

\* Mutants: peek_local_file without the extra field; peek_central_directory
\* without the number of the disk.
PeekLocalNoExtra(s) == 5 * 2 + 4 + 4 + 4 + 2 + 2 + s.name + s.data
PeekCentralNoDisk(s) ==
    6 * 2 + 4 + 4 + 4 + 2 + 2 + 2 + 2 + 4 + 4 + s.name + s.extra + s.comment

\* peek_local_file: version to crc32 and the compressed size skipped.
PeekLocal(s) == 5 * 2 + 4 + 4 + 4 + 2 + 2 + s.name + s.extra + s.data

PeekCentral(s) ==
    6 * 2 + 4 + 4 + 4 + 2 + 2 + 2 + 2 + 2 + 4 + 4 + s.name + s.extra + s.comment

PeekEndOf(s) == 4 * 2 + 4 + 4 + 2 + s.comment

\* read_local_file: the uncompressed size is what it copies, too.
ReadLocal(s) == 5 * 2 + 4 + 2 * 4 + 2 * 2 + s.name + s.extra + s.data

ReadCentral(s) == 6 * 2 + 4 + 2 * 4 + 5 * 2 + 2 * 4 + s.name + s.extra + s.comment

ReadEndOf(s) == 4 * 2 + 2 * 4 + 2 + s.comment

PeekSize(s) ==
    Signature + CASE s.kind = "local"   -> PeekLocal(s)
                  [] s.kind = "central" -> PeekCentral(s)
                  [] OTHER              -> PeekEndOf(s)

ReadSize(s) ==
    Signature + CASE s.kind = "local"   -> ReadLocal(s)
                  [] s.kind = "central" -> ReadCentral(s)
                  [] OTHER              -> ReadEndOf(s)

\* What a section takes from the heap: a copy of each variable field, with a 0
\* after names, and the file_t.
Needs(s) ==
    CASE s.kind = "local"   -> FileSize + (s.name + 1) + s.extra + s.data
      [] s.kind = "central" -> (s.name + 1) + s.extra + s.comment
      [] OTHER              -> s.comment

\* malloc's test; the mallocs of a section all succeed if the sum fits.
Fits(n) == used + n < free

Init ==
    /\ found = <<>>
    /\ free \in Free
    /\ pc = "peek" /\ cur = 0 /\ len = 0
    /\ used = 0 /\ files = <<>> /\ damaged = {}
-----------------------------------------------------------------------------
\* peek_zip looks at the section at its cursor.
Look(s) == found' = [o \in DOMAIN found \cup {cur} |-> IF o = cur THEN s ELSE found[o]]

PeekSection(s) ==
    /\ pc = "peek" /\ cur < Reach /\ s.kind \in {"local", "central"}
    /\ Look(s)
    /\ cur' = cur + PeekSize(s)
    /\ UNCHANGED <<free, pc, len, used, files, damaged>>

\* The end of the central directory: peek_zip returns its cursor.
PeekEnd(s) ==
    /\ pc = "peek" /\ cur < Reach /\ s.kind = "end"
    /\ Look(s)
    /\ pc' = "size"
    /\ cur' = 0 /\ len' = cur + PeekSize(s)
    /\ UNCHANGED <<free, used, files, damaged>>

\* Unknown magic or section: peek_zip returns 0, and main() aborts.
PeekBad ==
    /\ pc = "peek" /\ cur < Reach
    /\ pc' = "abort"
    /\ UNCHANGED <<found, free, cur, len, used, files, damaged>>

\* A walk that gets past the heap reads its guard page, too, and faults behind
\* it; the fixed fields of a section are at most 46 bytes.
PeekFault ==
    /\ pc = "peek" /\ cur + 46 > Reach
    /\ pc' = "fault"
    /\ UNCHANGED <<found, free, cur, len, used, files, damaged>>

\* Mutant of main's test: an archive that fills fsbuf passes.
TooLargeLate == len > FsbufSize

\* `zipfs_size >= fsbuf_size`
TooLarge == len >= FsbufSize

TestSize ==
    /\ pc = "size"
    /\ pc' = IF TooLarge THEN "abort" ELSE "start"
    /\ UNCHANGED <<found, free, cur, len, used, files, damaged>>

\* The array of files; without it read_zip returns at once.
StartRead ==
    /\ pc = "start"
    /\ IF Fits(Slots * PtrSize)
         THEN pc' = "read" /\ used' = Slots * PtrSize
         ELSE pc' = "failed" /\ UNCHANGED used
    /\ UNCHANGED <<found, free, cur, len, files, damaged>>

\* What read_zip finds at its cursor: what peek_zip found there, else anything.
Finds(s) == pc = "read" /\ cur < len /\ (cur \in DOMAIN found => s = found[cur])

Advance(s) ==
    /\ Fits(Needs(s))
    /\ used' = used + Needs(s) /\ cur' = cur + ReadSize(s)

\* The bytes files[n] lies in, counted from the start of the array.
SlotBytes(n) == (PtrSize * n) .. (PtrSize * n + PtrSize - 1)

Bytes(f) == f.lo .. (f.hi - 1)

\* A file: its blocks, then the entry, which past the array's end falls on the
\* blocks allocated after it.
ReadFile(s) ==
    /\ Finds(s) /\ s.kind = "local" /\ Advance(s)
    /\ LET fs == Append(files, [off |-> cur, lo |-> used, hi |-> used + Needs(s)])
       IN  /\ files' = fs
           /\ damaged' = damaged \cup
                {i \in 1 .. Len(fs) : Bytes(fs[i]) \cap SlotBytes(Len(files)) # {}}
    /\ UNCHANGED <<found, free, pc, len>>

\* Mutant: an entry of the central directory is stored as a file, too.
ReadDirectoryStores(s) ==
    /\ Finds(s) /\ s.kind = "central" /\ Advance(s)
    /\ files' = Append(files, [off |-> cur, lo |-> used, hi |-> used + Needs(s)])
    /\ UNCHANGED <<found, free, pc, len, damaged>>

ReadDirectory(s) ==
    /\ Finds(s) /\ s.kind = "central" /\ Advance(s)
    /\ UNCHANGED <<found, free, pc, len, files, damaged>>

\* The end of the central directory, or of the loop: num_files is set.
ReadEnd(s) ==
    /\ IF pc = "read" /\ cur >= len
         THEN UNCHANGED <<used, cur>>
         ELSE Finds(s) /\ s.kind = "end" /\ Advance(s)
    /\ pc' = "use"
    /\ UNCHANGED <<found, free, len, files, damaged>>

\* The early returns: num_files keeps what main's stack held.
ReadFails(s) ==
    /\ Finds(s) /\ (s.kind = "bad" \/ ~Fits(Needs(s)))
    /\ pc' = "failed"
    /\ UNCHANGED <<found, free, cur, len, used, files, damaged>>

Peek == (\E s \in Section : PeekSection(s) \/ PeekEnd(s)) \/ PeekBad \/ PeekFault

Read == \E s \in Section : ReadFile(s) \/ ReadDirectory(s) \/ ReadEnd(s) \/ ReadFails(s)

Next == Peek \/ TestSize \/ StartRead \/ Read

Spec == Init /\ [][Next]_vars
-----------------------------------------------------------------------------
TypeOK ==
    /\ DOMAIN found \subseteq 0 .. (Reach - 1) /\ \A o \in DOMAIN found : found[o] \in Section
    /\ free \in Free
    /\ pc \in {"peek", "size", "start", "read", "use", "abort", "failed", "fault"}
    /\ cur \in Nat /\ len \in Nat /\ used \in Nat
    /\ pc \in {"start", "read", "use", "failed"} => len < FsbufSize
    /\ files \in Seq([off : Nat, lo : Nat, hi : Nat])
    /\ damaged \subseteq 1 .. Len(files)

\* read_zip, which tests no bound, starts every section where peek_zip found
\* one, and ends it inside the part of fsbuf that main() accepted.
ReadFollowsPeek ==
    pc = "read" => cur \in DOMAIN found /\ cur + ReadSize(found[cur]) <= len

\* Every archive that main() accepts is read to its end, so that num_files is
\* set when main() uses it: read_zip meets no unknown section, and runs out of
\* memory only if less is left than the array and fsbuf take.
ReadSucceeds ==
    pc = "failed" => free < Slots * PtrSize + FsbufSize

Locals == {o \in DOMAIN found : found[o].kind = "local"}

\* main() sees the files of the archive, each once, in their order; up to 16
\* of them are left intact by the entries stored after them.
FilesAreLocals ==
    pc = "use" =>
        /\ {files[i].off : i \in DOMAIN files} = Locals
        /\ \A i, j \in DOMAIN files : i < j => files[i].off < files[j].off
        /\ Len(files) <= Slots => damaged = {}
=============================================================================

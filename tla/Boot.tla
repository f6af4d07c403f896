-------------------------------- MODULE Boot --------------------------------
(***************************************************************************)
(* From the boot loader to the user program: init_long_mode                *)
(* (boot/long_mode.asm), which fills the page tables and the TSS, then     *)
(* main() (kernel/kernel.c), which brings up the mouse and the disk, reads *)
(* the boot information, reads the file system and starts the user         *)
(* program.  A page fault on the way is the end: it is the place "fault".  *)
(*                                                                         *)
(* main() is undisturbed here: what interrupts do to it is in Heap, Serial *)
(* and Interrupts.                                                         *)
(*                                                                         *)
(* The TSS is a local variable of init_tss_addr: after its return it lies  *)
(* in a dead frame of the boot stack, where the CPU goes on using it.      *)
(*                                                                         *)
(* How the file system is measured and read is ZipFs; here it faults, is   *)
(* refused, or holds files.                                                *)
(***************************************************************************)
EXTENDS Disk, Paging, Multiboot, Loader

CONSTANTS
    Archive,    \* the archives: sequences of "bg.raw", "userland.elf" and other names
    Formats,    \* the names that hold conversions: main() passes names to debug as formats
    Slots       \* entries of the array of files: 16

ASSUME BootAssumption ==
    /\ Archive \subseteq Seq(STRING) /\ Formats \subseteq STRING
    /\ Slots \in Nat

VARIABLES
    call,       \* of the calls of init_long_mode, the next one
    stack,      \* the stack in use: "temp" or "kernel"
    tss,        \* the Tss64: "none", "stored" or "overwritten"
    files, file,    \* of the archive, and the index of main()'s loops
    at          \* where main() is

tables == <<p2, call, stack, tss>>
boot == <<tables, files, file, at>>
bootVars == <<vars, multibootVars, loaderVars, boot>>

BootInit ==
    /\ Init /\ NoTags /\ NoLoader
    /\ p2 = <<>> /\ call = 1 /\ stack = "temp" /\ tss = "none"
    /\ files = <<>> /\ file = 0 /\ at = "init_long_mode"

HardwareStep == Finish /\ UNCHANGED <<multibootVars, loaderVars, boot>>
-----------------------------------------------------------------------------
\* Mutant: the TSS is set up before the page tables are in use.
CallsTssEarly == <<"set_up_page_tables", "bootstrap", "kernel_code", "kernel_data", "kernel_stack",
                   "userland", "frame_buffer", "init_tss_addr", "enable_paging">>

\* What init_long_mode calls.
Calls == <<"set_up_page_tables", "bootstrap", "kernel_code", "kernel_data", "kernel_stack",
           "userland", "frame_buffer", "enable_paging", "init_tss_addr">>

\* The frame of a call takes the place of the one before it.
Frame ==
    tss' = IF Calls[call] = "init_tss_addr" THEN "stored"
           ELSE IF tss = "stored" /\ stack = "temp" THEN "overwritten" ELSE tss

CallOf(name) ==
    /\ at = "init_long_mode" /\ call <= Len(Calls) /\ Calls[call] = name
    /\ call' = call + 1 /\ Frame
    /\ UNCHANGED <<vars, multibootVars, loaderVars, stack, files, file, at>>

SetUp == CallOf("set_up_page_tables") /\ SetUpPageTables
MapOne == \E r \in Region : CallOf(r) /\ MapRegion(r)
EnablePaging == CallOf("enable_paging") /\ UNCHANGED p2
InitTssAddr == CallOf("init_tss_addr") /\ UNCHANGED p2

Goto(from, to) == at = from /\ at' = to

\* long_mode_start, and main() up to idt_init, which starts with the mouse.
LongModeStart ==
    /\ Goto("init_long_mode", "enable_mouse") /\ call > Len(Calls)
    /\ stack' = "kernel"
    /\ UNCHANGED <<vars, multibootVars, loaderVars, p2, call, tss, files, file>>

\* enable_mouse waits three times for a byte of the controller (what the bytes are
\* is Ps2); ps2_wait_read's count of tries never gets below 0.
EnableMouse ==
    /\ Goto("enable_mouse", "idt_init")
    /\ UNCHANGED <<vars, multibootVars, loaderVars, tables, files, file>>

MouseSilent ==
    /\ Goto("enable_mouse", "ps2_wait")
    /\ UNCHANGED <<vars, multibootVars, loaderVars, tables, files, file>>

IdtInit ==
    /\ at = "idt_init" /\ IdeIdentify
    /\ UNCHANGED <<multibootVars, loaderVars, boot>>

ParseMultiboot ==
    /\ Goto("idt_init", "multiboot") /\ pc = "command" /\ StartTags
    /\ UNCHANGED <<vars, loaderVars, tables, files, file>>

ParseTag ==
    /\ at = "multiboot" /\ NextTag
    /\ UNCHANGED <<vars, loaderVars, boot>>

ParseFault ==
    /\ Goto("multiboot", "fault") /\ TagFault
    /\ UNCHANGED <<vars, loaderVars, tables, files, file>>

\* The FPU, SMEP, SMAP and fsbuf; main() returns if there is no memory for it.
EnableAndMalloc ==
    /\ Goto("multiboot", "ata_read") \/ Goto("multiboot", "returned")
    /\ EndTags
    /\ UNCHANGED <<vars, loaderVars, tables, files, file>>

ReadDisk ==
    /\ at = "ata_read" /\ AtaRead
    /\ UNCHANGED <<multibootVars, loaderVars, boot>>

\* peek_zip walks on to an end of the archive, past fsbuf, too, where nothing may be
\* mapped: ZipFs!PeekFault.
PeekFault ==
    /\ Goto("ata_read", "fault") /\ pc = "done"
    /\ UNCHANGED <<vars, multibootVars, loaderVars, tables, files, file>>

\* It returns, and main() refuses the length: 0, or more than fsbuf holds.
Refuse ==
    /\ Goto("ata_read", "returned") /\ pc = "done"
    /\ UNCHANGED <<vars, multibootVars, loaderVars, tables, files, file>>

\* It returns a length that fits, and read_zip reads the files: it meets no other
\* sections than peek_zip (ZipFs!ReadFollowsPeek), so it stays in fsbuf, and at boot the
\* heap of 61 MiB has room for the 8 MiB of fsbuf once more (ZipFs!ReadSucceeds).
ReadZip ==
    /\ Goto("ata_read", "set_frame") /\ pc = "done"
    /\ files' \in Archive /\ file' = 1
    /\ UNCHANGED <<vars, multibootVars, loaderVars, tables>>

\* read_zip tests no bound: a file past the array's end is written over the first
\* files' entries (ZipFs!damaged).
Damaged == Len(files) > Slots

\* What streq may say of a file's name, which may have been overwritten.
MayBe(name) == Damaged \/ files[file] = name
MayDiffer(name) == Damaged \/ files[file] # name

\* The name's printing follows pointers that nobody passed, or the entry's fields
\* are no longer pointers.
FileFault ==
    /\ Goto("set_frame", "fault") \/ Goto("search", "fault")
    /\ file <= Len(files) /\ (Damaged \/ files[file] \in Formats)
    /\ UNCHANGED <<vars, multibootVars, loaderVars, tables, files, file>>

\* The first loop; each bg.raw is copied to the frame buffer, whatever its size.
SetFrame ==
    /\ at = "set_frame"
    /\ IF file <= Len(files) THEN file' = file + 1 /\ UNCHANGED at
                             ELSE file' = 1 /\ at' = "search"
    /\ UNCHANGED <<vars, multibootVars, loaderVars, tables, files>>

\* The second one, to the first user program.
Search ==
    /\ at = "search"
    /\ \/ file > Len(files) /\ at' = "sleep" /\ UNCHANGED file
       \/ file <= Len(files) /\ MayBe("userland.elf") /\ at' = "run_userland" /\ UNCHANGED file
       \/ file <= Len(files) /\ MayDiffer("userland.elf") /\ file' = file + 1 /\ UNCHANGED at
    /\ UNCHANGED <<vars, multibootVars, loaderVars, tables, files>>

Run ==
    /\ at = "run_userland" /\ RunUserland
    /\ UNCHANGED <<vars, multibootVars, boot>>

EnterUserland ==
    /\ Goto("run_userland", "userland") /\ lpc = "userland"
    /\ UNCHANGED <<vars, multibootVars, loaderVars, tables, files, file>>

RunReturns ==
    /\ Goto("run_userland", "sleep") /\ lpc = "returned"
    /\ UNCHANGED <<vars, multibootVars, loaderVars, tables, files, file>>

Main == SetUp \/ MapOne \/ EnablePaging \/ InitTssAddr \/ LongModeStart
          \/ EnableMouse \/ MouseSilent \/ IdtInit
          \/ ParseMultiboot \/ ParseTag \/ ParseFault \/ EnableAndMalloc
          \/ ReadDisk \/ PeekFault \/ Refuse \/ ReadZip
          \/ FileFault \/ SetFrame \/ Search \/ Run \/ EnterUserland \/ RunReturns

BootNext == HardwareStep \/ Main

BootSpec == BootInit /\ [][BootNext]_bootVars /\ WF_bootVars(Main) /\ WF_bootVars(HardwareStep)
-----------------------------------------------------------------------------
BootOK ==
    /\ TypeOK
    /\ call \in 1 .. Len(Calls) + 1 /\ stack \in {"temp", "kernel"}
    /\ tss \in {"none", "stored", "overwritten"}
    /\ at \in {"init_long_mode", "enable_mouse", "ps2_wait", "idt_init", "multiboot", "ata_read",
               "set_frame", "search", "run_userland", "userland", "sleep", "returned", "fault"}
    /\ lpc # "idle" => at \in {"run_userland", "userland", "sleep"}
    /\ at \notin {"multiboot", "fault"} => ~parsing

\* When paging is on, every region is mapped with its rights and between guards.
RegionsGuarded == at # "init_long_mode" => RegionsAreGuarded

\* The TSS in its dead frame is still there whenever the CPU may need it: every
\* interrupt from userland and every system call takes its stack from there.
TssSurvives == at # "init_long_mode" => tss = "stored"

\* A tag that the parser does not leave.
TagStays == parsing /\ (tagSize = 0 \/ tagSize > Wrap - 8)

\* main(), undisturbed, ends with the user program, with its loop of sleep or with
\* its return, unless
\*   - a loop has no way out: the disk's bus floats or IDENTIFY ends with a device
\*     fault, the controller has no byte for enable_mouse, a tag's size is 0 or the
\*     parser's sum wraps to 0;
\*   - a read leaves what is mapped: of the tag that a size leads to, of an archive
\*     without an end, of a file's entry or name past the array or taken for a
\*     format, of what an ELF file's headers point to;
\*   - the user program finds no room.
BootEnds ==
    bus # "floating" =>
        <>(\/ at \in {"userland", "sleep", "returned"}
           \/ at = "ps2_wait" \/ (pc = "identify_data" /\ "DF" \in status) \/ TagStays
           \/ at = "fault" \/ lpc \in {"fault", "null"})
=============================================================================

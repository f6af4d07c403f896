# Lappis in TLA+

Lappis is a small x86-64 operating system in C, assembly and Zig: one CPU, one
address space, one user program, two system calls, five interrupt lines and no
process switch.  Almost everything that is hard to get right in it is where an
interrupt falls: the kernel has no locks, its heap and its key buffer are shared
with interrupt handlers, and system calls and interrupts share one stack.  The
modules here model that core step by step, the boot that leads to it and the
output that leaves it; TLC explores them on small instances,
and TLAPS proves the invariants for every value of the constants.

Paths below are relative to `src/src/`.

## 1. The system

### Components

| component | where | state | operations |
|---|---|---|---|
| kernel heap | `kernel/heap.c` | `heap_current` between `heap_start` and `heap_end`; no free list, no free | `init_heap`, `malloc` |
| userland heap | `kernel/heap.c` | `userland_heap_current` | `userland_malloc`, `userland_memcpy` |
| printing | `kernel/print.c`, `kernel/video.c` | the frame buffer, a `malloc`ed buffer per call | `kprintf`, `draw_char`, `set_frame` |
| keyboard | `kernel/drivers/keyboard.c` | `cbuf` (ring of 128), `caret_x`, `caret_y` | `keyboard_handler`, `circ_buf_push`, `circ_buf_pop`, `keyboard_to_ascii` |
| mouse | `kernel/drivers/mouse.c`, `kernel/ps2.c` | `mouse_count`, the bytes of a packet, the cursor | `mouse_handler`, `handle`, `enable_mouse`, `ps2_read`, `ps2_write` |
| disk | `kernel/drivers/ata.c` | the controller's registers | `ata_read`, `ide_read_sector`, `ide_poll`, `ide_identify`, two empty handlers |
| interrupt controllers | `kernel/pic.c` | lines requested and in service, masks | `PIC_remap`, `PIC_sendEOI` |
| IDT and stubs | `kernel/idt.c`, `kernel/idt.asm` | the gates, IF, the kernel stack | `idt_init`, `irq_*`, exception stubs, `pushaq`, `popaq` |
| timer | `kernel/idt.c` | `countdown` | `timer_handler`, `sleep` |
| system calls | `kernel/syscalls.c`, `kernel/userland.asm` | the MSRs, `tss64.rsp2`, the GS base, the kernel stack | `syscall_landing_pad`, `sys_print_new`, `sys_getch_new` |
| entering userland | `kernel/userland.asm` | the MSRs, GS base | `enter_userland` |
| zip file system | `kernel/format/zip.c` | a cursor in `fsbuf`, the array of files | `peek_zip`, `read_zip` |
| ELF loader | `kernel/elf2.c` | copies of the headers, the userland heap | `parse_elf_header`, `run_userland` |
| multiboot parser | `kernel/multiboot.c` | a cursor in the boot information | `parse_multiboot_header` |
| paging, long mode | `boot/paging.zig`, `boot/paging_32.zig`, `boot/long_mode.asm` | page tables, GDT, TSS | set-up, once |
| main | `kernel/kernel.c` | its locals | the boot sequence, then `sleep` for ever |
| user program | `userland/userland.c` | two lines of 128 bytes | `get_line`, `strip`, `strcmp`, the command loop |
| serial port, formatted output, memcpy | `kernel/serial.c`, `kernel/tinyprintf.c`, `kernel/memcpy.c` | a port's FIFO | `serial_write_byte`, `debug`, `debug_buffer`, `vsnprintf`, `memcpy` |
| string helpers, FPU, demo | `kernel/string.c`, `fpu.c`, `mandel.c` | none | |

### How they interact

* `main()` builds everything in order: heaps, serial, IDT (whose `idt_init` ends
  in `sti`, so that everything after it runs with interrupts on), multiboot,
  FPU, disk, zip file system; then it enters the user program through the ELF
  loader, and never comes back.  If there is no user program it loops in
  `sleep()`.
* The user program calls `syscall` with 0 (print) or 1 (getch).  The landing pad
  switches to the kernel stack (`tss64.rsp0`, always its top) with `swapgs`.
* The keyboard interrupt pushes a key to `cbuf`; `sys_getch_new` turns interrupts
  on, pops in a busy loop, copies the key to the user's variable between `stac`
  and `clac`, and turns interrupts off.
* Both the keyboard and the mouse handler may call `kprintf`, which calls
  `malloc`: the heap is shared by `main()` and its interrupt handlers.
* All handlers share `PIC_sendEOI`; the timer handler shares `countdown` with
  `sleep()`.
* The kernel's and the user program's stack, heap and code lie in regions with
  guard pages between them; a page fault is reported and stops the machine.

### What is hard in it

* **Interleaving.** `malloc` reads `heap_current` four times and writes it once,
  with interrupts on; `circ_buf_pop` shares `head`, `tail` and a slot with
  `circ_buf_push`; the timer may tick between `sleep()`'s test and its `hlt`.
* **Stacks and flags.** For a few instructions on each side of a system call
  ring 0 runs on the user's stack.  Only SFMASK keeps interrupts away from it.
* **Ordering and liveness.** An EOI names no line; handlers send one or two, to
  both controllers.  A busy loop with interrupts off would hang for ever.
* **Limits.** A ring that may hold 127 keys, an array of 16 files, sums that wrap,
  a buffer whose end only the second of two parsers is told, a heap from which every
  key echoed takes 256 bytes for good, a caret that leaves the screen.
* **Boundaries.** `memcpy` has eight ways to put a word together, `ui2a` looks for its
  first digit by a product that must not wrap, the page tables are indexed modulo 512.
* **Stale memory.** The TSS is a local variable of a function that has returned.
* **Partial failure.** `read_zip` gives up without setting `num_files`; several
  callers of `malloc` do not test its result.

Nothing is persisted and nothing is sent over a network, so there is no crash
recovery or message loss to model: a fault stops the machine for good.

## 2. Modules

| module | models | proofs |
|---|---|---|
| `Heap` | `heap.c` `malloc`, under `main()`, system calls, and handlers' `kprintf` | `Heap_proofs` |
| `KeyBuffer`, `Fifo` | `cbuf` under `keyboard_handler` and `sys_getch_new`; `Fifo` is what it promises | `KeyBuffer_proofs` |
| `KernelEntry` | `enter_userland`, `syscall_landing_pad`, both system calls, the interrupt stubs | `SystemCalls_proofs` |
| `Interrupts` | the two 8259s (external), `PIC_sendEOI`, the handlers' EOIs, `timer_handler`, `sleep` | `Interrupts_proofs` |
| `ZipFs` | `peek_zip`, `main()`'s tests, `read_zip` | `ZipFs_proofs` |
| `Ps2` | `enable_mouse`, `ps2_read`, `mouse_handler`, the port read of `keyboard_handler`, and the controller (external) | `Ps2_proofs` |
| `UserProgram` | the command loop of `userland.c` with `get_line`, `strip`, `strcmp` | `Terminal_proofs` |
| `Terminal` | `UserProgram` fed by `keyboard_handler`: key buffer, echo, caret, `kprintf` and its heap, `sys_print` | `Terminal_proofs` |
| `Disk` | `ide_identify`, `ide_poll`, `ide_read_sector`, `ata_read`, and the drive (external) | `Boot_proofs` |
| `Paging` | the page tables' regions and guards, `map`, `map_guard` | `Boot_proofs` |
| `Multiboot` | the loop of `parse_multiboot_header` | `Boot_proofs` |
| `Loader` | `run_userland`: program headers, the segment, the entry point | `Boot_proofs` |
| `Boot` | `init_long_mode` and `main()`, composed of the four above | `Boot_proofs` |
| `Memcpy` | `memcpy` word by word | `SystemCalls_proofs` |
| `Printf` | a directive of `tfp_format`, `ui2a`, `putchw`, `vsnprintf`, `itoa` | `SystemCalls_proofs` |
| `Serial` | `sys_print` and `debug` down to the port, composed of the two above | `SystemCalls_proofs` |

Three compositions share variables with their parts: `Boot` extends `Disk`, `Paging`,
`Multiboot` and `Loader` and says when each of them may move; `Terminal` extends
`UserProgram`; `Serial` extends `Memcpy` and `Printf`.  `KeyBuffer` is shown to implement
`Fifo`, and `Terminal`'s `queue` is that `Fifo`.  Every step of `Boot` is a step of `Disk` or
leaves it alone, and every step of `Terminal` one of `UserProgram`; that is proved, and
carries the properties over.

The others share none.  Each takes what it needs of another as an
action of its own (`Heap!IrqPrint` is the handler's whole `kprintf`;
`KernelEntry!KeyboardHandler` counts the keys of `KeyBuffer`), and what one shows
is what another assumes: `KernelEntry!InterruptsOnlyInGetch` is why `Heap` lets no
interrupt into the `malloc` of a system call, and `Interrupts!EoiRetiresOwn` rests on
handlers not nesting, which the cleared IF of `KernelEntry!IrqEnter` gives.

### Heap

`phase` says what may interrupt: nothing before `sti` ("boot"), anything in
`main()` ("kernel"), and, after `enter_userland`, only the program itself and not
its system calls ("user").  The build is not optimised, so the accesses of
`heap_current` in `malloc` are separate: `CheckPasses`/`ReturnNull` (line 54), `Take`
(59), `ZeroByte` (61-63, one byte a step), `LoadSum` and `StoreSum` (65), `Return`,
after which the caller fills its block.  `IrqPrint` is a handler's `malloc` and the
text it writes, in one step because handlers run with IF clear.  `mem` records for
each byte who wrote it last.  Addresses are modulo `AddrSpace`, so that
`heap_current + size` wraps as a pointer does.  The guard page after the heap turns
a loop that runs too far into `PageFault`, which halts.

### KeyBuffer and Fifo

`Push` is the handler for a key it knows (one step); a pop is four: `PopTest`,
`PopCopy`, `PopAdvance`, `Deliver`, one for each access of what the two share, with
any number of pushes between them.  `Fifo` is a queue of capacity `MAX_KEYS - 1`
and a hand that holds the key on its way to the program.  The mapping: the queue
is the waiting slots from `tail` on, and a key leaves it when `tail` advances, not
when the slot is copied.

### KernelEntry

A step is an instruction, or a run of instructions that touches nothing an
interrupt could see.  `ctx` is a history variable: the program's own view of its
instruction pointer, stack pointer and AC flag.  `kstack` holds the frames on the
kernel stack; entering from ring 3 starts again at its top, so a stack that was
not empty is overwritten, as `rsp0` does it.  `IrqEnter` is possible wherever IF is set;
in ring 0 with the program's stack pointer it goes to "crash", because SMAP makes
the push fault, and the push of that fault's frame too.

### Interrupts

The controllers are external: `irr`, `isr`, priorities, the cascade on line 2, and
EOI commands that retire the highest line in service.  `Code` gives what each
handler does, in order; `keyboard_handler` sends one EOI or two.  Line 7 has no
handler: the stub reports it and executes `hlt` with IF clear, which is modelled
(`Dead`) and excepted from the liveness properties.  `main()` is in `sleep()`, one
instruction a step.

### ZipFs

The bytes of memory are abstracted to the section a walk finds at each offset,
any at all, so the archive may be malformed, may lie about its lengths, and may
have data that looks like headers.  `found` remembers what `peek_zip` saw, and
`read_zip` sees the same where it looks at the same offset, and anything where it
does not.  `PeekLocal` and `ReadLocal` (and the two others) are written field by
field from the two functions, because that they agree is the point.  The blocks of
the heap are intervals from the array of files on, as `malloc` lays them out,
so that the 17th entry falls on the blocks of the first files (`damaged`).

### Ps2

The controller has one output buffer (`out`), which a key, an answer and a byte of a
packet share, and which takes no byte while it holds one.  A byte requests its line's
interrupt when it comes, and the request stays when the byte is gone, as in the
emulator the kernel is written for.  `enable_mouse` runs before `sti`, one access of
the port a step (`pc`), and devices may act between any two; then the two handlers.
`PollEmpty` stands for any number of polls in vain: `ps2_wait_read` turns until there is
a byte, and after them `Ps2Read` may fail, because 500 polls leave the timer at 0.  The interrupt's second EOI and the text `handle` draws change nothing here.
Keys are told apart only by bit 0, which is what the mode byte is made of if a key is
taken for it.

### Disk

The drive (`bus`, `status`, `command`, `left`) is external: a command makes it busy, and it
ends it with data, an error or a device fault; an empty bus reads 0, a floating one all
ones.  The kernel polls, so that its waits are guards.  `Poll` is all of `ide_poll`: its
three tests print and return, so they change nothing that `ide_read_sector` could see.
`failed` is a history variable: the sectors whose command the drive has refused.  A word
is a pair of the sector commanded and its place, so one that is out of place would show.

### UserProgram and Terminal

`readl` is memory, with `Nul` where `memset` put it; `typed` is the line as the user typed
it.  `strip` runs one iteration a step (`StripBlank`, `StripInk`, `StripEnd`), `strcmp` and
`strlen` are operators.  At the end of the line the model stops (`GetchOverrun`): what is
written behind it is up to the compiler.

`Terminal` puts `keyboard_handler` and the mouse's `handle` around it.  A handler is one step,
because handlers run with IF clear: the push, then the branch of the echo (`EchoGlyph`,
`EchoBackspace`, `EchoNewline`, `EchoNothing`, or `UnknownKey`).  A cell is 8 x 17
pixels; `shown` is the caret's row, `Draw` writes a cell of it, modulo the row as the
frame buffer does it, and faults in the guard page.  `free` counts the heap, from which every
`kprintf` and every `sys_print` takes.  `faithful` is a history variable: whether each key was
both stored and drawn, and nothing drawn over it.  Where exactly the mouse and the report of
an unknown key draw is left open (`faithful'` may become FALSE).  Without heap `sys_print`
copies to NULL, where `memcpy`'s own test divides by zero (`AnswerDivides`); the exception's
stub halts.

### Boot, Paging, Multiboot, Loader

`call` counts through the calls of `init_long_mode` (`Calls`), `at` says where `main()` is.
`Frame` is what every call does to the stack: the frame of a call lies where the one before
lay.  After `init_tss_addr` the TSS lies in such a dead frame.  `p2` maps a page number, through
all four tables, to its entry; `Slot` is the index that `map` computes, with the table of the
region's first page and the entry modulo 512.

`Multiboot` knows where the boot loader has `placed` each tag, behind the last and at the next
multiple of 8; the parser's own `tag` moves by the units it computes.  Their sizes are
anything of 32 bits (`Wrap`), the end tag may be missing, and a tag that the parser cannot leave
stays what it is.  The parser reads a tag before it looks at how far it has travelled, so that a
size may lead it out of memory: from `TagReach` on the next tag may fault (`TagFault`), from 2^32
on it must, since nothing is mapped there.  `Loader` names the bytes of the file by their offsets,
so that a wrong byte at the entry point would show; tables or a segment past `FileReach` may fault
(`LoaderFault`).  What `ZipFs` models is one step here: `peek_zip` walks out of memory
(`PeekFault`), the archive is refused, or it holds some files; read_zip's own failures need less
heap than the boot has (`ZipFs`'s `ReadSucceeds`).  More files than `Slots` damage the entries of the
first ones, as in `ZipFs`; what `main()` then finds there is left open: another name, or a pointer
that faults (`FileFault`).  So may a name with a conversion in it (`Formats`), because `main()` passes
names to `debug` as formats.  `RunUserland` ends where `KernelEntry` begins.

A page fault is the place `"fault"` of `at`, or of `lpc` in the loader, and no step follows it.
`enable_mouse`, with which `idt_init` starts, is one step, or the endless wait for a byte that does
not come (`MouseSilent`); what its bytes are is `Ps2`.  `main()` runs undisturbed in `Boot`: what a
handler may do to it from `sti` on is in `Heap`, `Serial` and `Interrupts`.

### Memcpy, Printf, Serial

`stored` maps the addresses written to the address of the source whose byte they got, and
`fetched` is the set of words read.  One word, or eight of the unrolled loop, is a step;
`Merged` is the shift and or of two source words.  `Printf` is one directive: `Scale` and
`Digits` are the iterations of `ui2a`'s two loops, modulo the width of an `unsigned int`, and
`Putchw` and `Cut` give the text.  `ulli2a` and `uli2a` are the same loops on wider integers.
`Serial` joins them: `sys_print` copies with `Memcpy` and sends through `debug_buffer`;
`debug` prints the line number with `itoa` and the text with `vsnprintf`.  The port (external)
keeps some bytes and sends them when it likes.  `IsTransmitEmpty` compares the masked flag with
1 and is never true, and `WriteByte` waits while it *is* true: both are modelled as
they are.  `wire` is what was written, in order.

## 3. What the runs check

| run | question | properties |
|---|---|---|
| `heap` | does `malloc` survive interrupts? | `OwnedDisjoint`, `DataIntact`: blocks of the main thread never overlap and keep their data, wherever a handler's `malloc` falls. `MaskedZeroed`: outside `main()` it zeroes what it returns. `FaultNeedsRace`: the loop reaches the guard page only after a race in `main()` or a sum that wrapped |
| `heap_zero` | "Zero out the memory." (`kernel/heap.c:60`) | violated: see below |
| `key_buffer` | is the ring a queue? | `PopOwnsSlot`, `ImplementsFifo` (refinement), `GetchReturns` (liveness) |
| `kernel_entry` | may an interrupt fall anywhere? | `NoIrqOnUserStack`, `UserResumes`, `SyscallReturns` (liveness) |
| `interrupts` | do the EOIs retire what they should? | `EoiRetiresOwn`, `NothingLeftInService`, `EveryRequestDelivered`, `SleepLength`, `SleepReturns` |
| `zip` | is what the second parser does safe? | `ReadFollowsPeek`, `ReadSucceeds`, `FilesAreLocals` |
| `ps2` | do keyboard and mouse survive sharing one buffer? | `NothingStuck`: no byte is left whose interrupt has been spent. `EnabledIsTrue`: when `enable_mouse` reports success, both devices interrupt, the mouse reports and no answer is left for `mouse_handler` |
| `ps2_packet` | "We have a complete packet." (`kernel/drivers/mouse.c:26`) | violated: see below |
| `terminal` | do the screen, the buffer and the program agree? | `ScreenShowsLine`: the caret's row is the line the program will get, however far behind it is. `AnswersExactly`: a line is answered exactly when it is the command followed by blanks, whatever was typed before. `LineIsAnswered` (liveness): a line that waits is compared, unless it is too long or the rows or the heap are used up |
| `terminal_screen` | "1280x1024 pixels" (`boot/paging.zig:53`) | violated: see below |
| `boot` | does the machine come up as it should? | `RegionsGuarded`: after paging is on, each region is mapped where it is, with its rights, between guards. `TssSurvives`: nothing overwrites the dead frame. `SectorOrReported`: a sector is the disk's, word for word, or the drive reported that very sector. `TagsInStep`: the parser stands at tags. `EntryIsEntry`: the program starts at its entry point. `BootEnds` (liveness): an undisturbed boot reaches the program, the sleep or the return, unless it waits for ever (a floating bus, a device fault in IDENTIFY, a controller without a byte for `enable_mouse`, a tag that the parser does not leave), faults (past the end of tags, archive, files' entries or ELF file) or has no room for the program |
| `serial` | does output arrive? | `CopiesExactly`: every byte in its place and no page touched that holds no byte of the source. `SendsText`: the number on the wire is the argument. `SerialReturns` (liveness): output returns whatever the port does |

Each passing run has a type invariant as well, but for `serial`.  Deadlock is checked in
`key_buffer` and `kernel_entry`; the others say CHECK_DEADLOCK FALSE because the
system stops there: at a page fault, a division by zero, a vector without a handler, the end
of a walk or of the boot, a loop without a way out, a line that is overrun, a byte
whose interrupt is off; and `serial` is one call.

The finding of `heap_zero`: between `malloc`'s read of `ptr` (line 59) and its update
of `heap_current` (line 65) a handler's `kprintf` (`kernel/print.c:4`) gets the same bytes and
leaves its text in them, and if the loop has already passed them, `malloc` returns
a block that is not zero.  The run `heap` shows the damage ends there.

The finding of `ps2_packet`: `mouse_handler` reads on while there is a byte and does
not ask whose.  A key typed while it loops becomes a byte of the packet, is lost as a
key, and leaves all packets after it out of step.

The finding of `terminal_screen`: `keyboard_handler` adds a row to `caret_y` for every Enter
(`kernel/drivers/keyboard.c:300`).  The caret starts in row 3; from row 60 on the echo is drawn
behind the 1024 lines of pixels, and a character in row 72, after 69 Enters, meets
the guard page behind the frame buffer, and the machine halts.

Three more places where code and comment part ways, seen while modelling and covered by
properties that hold all the same:

* `enable_mouse`, "Get status byte." (`kernel/drivers/mouse.c:86`): it takes the first byte for
  the mode byte, also a key typed in that moment or the 0xff of a failed read, and writes it
  back, which may turn off the keyboard's interrupt.  `EnabledIsTrue` shows that it never
  calls that a success: the mode byte is then taken for the mouse's answer, and is not 0xfa.
* "Remove trailing whitespace." (`userland/userland.c:109`): `strip`'s loop does not look at the
  first character, and cuts only when it meets one that is not blank, so `"a "` and `"  "` stay
  as they are.  `AnswersExactly` shows that this does not matter to a command of two letters
  or more.
* The map at the top of `boot/paging.zig` gives the bootstrap region one page and its guard page
  address 0x200000.  The code maps two pages (line 48), and the guard is at 0x400000.

### Bounds

* `heap`: six bytes, sizes 0, 1, 2, 5 (the largest that fits) and one that wraps;
  handlers ask for 1 or 2.  With six bytes the heap is exhausted, interrupted twice
  in one `malloc` and faulted, and every one of the five places an interrupt can
  fall is reached.  No counter is capped: the break itself is the bound.
* `key_buffer`: four slots, two keys.  The ring fills, wraps, and the order of keys
  shows.  The proof covers every size.
* `kernel_entry`: two places, two stack pointers, two keys waiting: enough to see a
  register restored from the wrong frame.  Proved for all sets.
* `interrupts`: lines 0, 1, 7, 12 and 14 (timer, keyboard, no handler, two of the
  slave), `sleep(2)`.  `elapsed` counts to `Ms + 2`, one more than the property allows;
  `credit` lets a line interrupt once between two instructions of `main()`.
* `zip`: an array of 2, seven sections (short and long of each kind), a buffer that
  holds six of the shortest, three amounts of free heap: one too small for the
  array and a section, one that runs out on the way, one that is exactly enough.
  Three files and more overflow the array.
* `boot`: four sectors of three words: a first, a middle and a last of each.  The page
  tables have their real sizes.  Tags of 0, 8, 9, 15 and 16 bytes: every case of the
  rounding; of 56, 120, 121 and 127 where sums wrap at 128 and 64 bytes are surely mapped: a tag
  that leads out of memory at once or with another, the largest that does not wrap, and two that
  do.  Totals of 8, 32 and 127, so that the walk ends by the end tag, by `travel`, by a fault.
  Archives with no, one and two programs, more files than the 2 slots of the array, and a name
  that is a format.  ELF files of both classes with no, one and two segments to load, a note before
  them, a segment that just fits the userland heap and one that does not, and tables and
  segments within and past the 12 bytes that are surely mapped.
* `terminal`: a line of four, a letter, the blank, backspace and escape, the command of two
  letters: blanks before, inside and after it, longer and shorter lines, and a full line.
  The buffer holds 2 keys, the screen 2 columns and 2 mapped rows of which one is in the
  frame, the heap 3 buffers.  `RowCap` and `ColCap` are the model's only caps: they are past
  the guard page and past the screen's width.
* `serial`: words of 4 bytes, unrolled by 2: all 16 alignments, sizes 0 to 19, so that every
  number of words around the unrolled loop occurs with every rest; addresses modulo 64.
  Integers of 8 bits: the least, the largest, and those with one, two and three digits,
  under every combination of flags and three widths, in a buffer of 6 that cuts the longest.
* `ps2`: no constants and no bound: at most two answers are ever owed, which the
  proof shows.

### Fairness

* `KeyBuffer`: weak fairness of `sys_getch_new`'s steps: the CPU goes on executing
  between interrupts.  No fairness of typing.
* `KernelEntry`: handlers run to their end (weak).  Kernel steps are strongly
  fair: interrupts arrive slower than instructions execute, so the interrupted
  code gets on.  Typing is strongly fair: `sys_getch_new` returns only if somebody
  types, and with interrupts off it would not, however much one typed.
* `Interrupts`: weak fairness of delivery, handlers, `main()` and the timer (which the
  hardware runs without being told).  That devices are slower than the CPU is in the
  guards (`credit`), not in the fairness.  `sleep()` counts timer interrupts: the
  kernel does not program the PIT, so "ms" is whatever the default rate makes it.
* `Boot` (and `Disk`): weak fairness of the kernel and of the drive, which ends every command.
* `Terminal`: weak fairness of the user program with its system calls; nobody has to type.
* `Serial`: weak fairness of the CPU, and none of the port.
* `Heap`, `ZipFs` and `Ps2` state safety only.

## 4. What is proved

All in `*_proofs` modules, for every value of the constants, from the named
assumptions of the modules.  Each component has an inductive invariant, the lemmas that `Init`
implies it and that every step keeps it, and one theorem per property.  Every safety property of
the passing runs is proved.

* **Heap** (`HeapAssumption`): `TypeOK`, `OwnedDisjoint`, `DataIntact`, `MaskedZeroed`,
  `FaultNeedsRace`, and an action property that no run checks,
  `BreakGrowsMasked`: outside `main()` the break never moves back.  Disjointness is not
  inductive: that blocks lie below the break is not enough, because `StoreSum` moves
  the break back over a handler's buffer.  The strengthening (`BlocksBelowBreak`,
  `LoopInHeap`) says that they lie below `ptr` too, once it is read, and that
  `ptr + size` is at most the break and the sum about to be stored.  `MaskedExact`
  adds that without interrupts `ptr` still is the break.
* **KeyBuffer** (`KeyBufferAssumption`: at least two slots): `TypeOK`, `PopOwnsSlot`,
  `WaitingAreKeys` (every waiting slot holds a key), and `ImplementsFifo`, the safety refinement to `Fifo`.  The two
  invariants with `TypeOK` are inductive; the refinement's lemmas say what a push and
  an advance do to the waiting slots.
* **KernelEntry** (`EntryAssumption`): the safety properties of the run, and three that they
  rest on: `CallerSaved`, `AcOnlyWhileCopying`, `InterruptsOnlyInGetch`.  The
  invariant tells for each place of the code which stack, flags, GS base and frames
  go with it (`CodeOK`), and for a handler that its frame is one that code could have
  pushed (`HandlerOK`).
* **ZipFs** (`ZipAssumption`, nothing about the contents of memory): all four
  properties.  The invariant says that the sections `peek_zip` walked form a chain
  without overlap from 0 to the length (`WalkOK`), that `read_zip`'s cursor is always on
  that chain and its heap use is at most the array and the bytes it has passed
  (`ReadOK`), and that the files lie behind the array (`BlocksOK`).
* **Ps2** (no assumptions): all three properties of the run.  The invariant says which
  answers are owed or waiting at each place of `enable_mouse` (`AnswersOK`: a wrong
  byte taken for the mode byte leaves them shifted by one until the end), what the
  mode byte then is (`ModeOK`), and that a byte in the buffer has its request
  latched until a handler runs (`LineDue`).
* **Interrupts** (the module's assumption): `TypeOK`, `NothingLeftInService`, `SleepLength` and
  the action property `EoiRetiresOwn`.  The gates clear IF, so handlers do not nest
  (`OneHandler`); what is in service is then the running handler's line and, for the slave,
  the cascade, for as long as the EOI that retires them is still to come (`Service`); at
  most one tick falls between two instructions of `main()` (`OneTick`), which bounds
  how far `sleep()` can miscount (`Counted`).
* **Boot**, **Disk** (`DiskAssumption`): `SectorOrReported` and `CommandWhenIdle` of the disk, and
  the first of the whole boot, because every step of `Boot` is one of `Disk`'s or leaves it
  alone (`BootTakesDiskSteps`).  The disk's invariant says how far the drive's transfer is at
  each place of the kernel's loops (`DriveOK`): in step with `word`, or over with the sector
  reported; and that the rows before `sector` are complete (`RowsOK`).  `TssSurvives`, because
  `init_tss_addr` is the last call on its stack.  `BootOK`: the types of all parts, and that no
  part has moved before its place in `main()`.
* **Paging**, in the boot: `RegionsGuarded`.  The memory map is the code's own, with its real page
  numbers; nothing is left to choose.  What has to be shown is that no call overwrites
  what an earlier one wrote, although `map` takes the entry modulo 512: each region's slots
  lie in its own table, and `p2` is what the calls so far have made of it, one call after the other.
* **Boot** again: an action property that no run checks, `BootAdvances` (with `BootAssumption`: an archive
  is a sequence of names).  `Stage` counts the places of `main()` down, and `StageLeft` what is left
  of a place: calls, words and sectors, bytes of the boot information, files, program headers.  Every step
  of `main()` leads to a lower stage or leaves less of this one, unless it stands at a tag of size 0
  or within 7 bytes of 2^32 (`TagStays`).
  So no loop of the boot turns for ever for any other reason; where it may wait is `BootEnds`.
* **Multiboot** (`MultibootAssumption`): `TagsInStep`, for every size: a multiple of 8 is where
  the boot loader puts the next tag, and there is only one (`NextMultiple`); where the parser's sum
  wraps it does not move at all (`UnitsRound`).
* **Loader** (`LoaderAssumption`): `EntryIsEntry`, for files whose first segment to load holds the
  entry point (`EntryLinked`, stated as the theorem's hypothesis: the code does not test it,
  `userland-linker.ld` gives it).
* **UserProgram** (`ProgramAssumption`), **Terminal** (`TerminalAssumption`): `AnswersExactly`, of the
  program alone and of the terminal, and `TerminalOK`.  The invariant says what `readl` is of
  `typed` at each place: the same while keys come (`Holds`), and after `strip` either cut
  behind its last character that is not blank (`Cut`) or as it was, with blanks from the second
  character on (`Uncut`).  A command of two characters without blanks equals such a line in
  neither form unless it should.
* **Terminal**, `ScreenShowsLine`: for any keys, columns, rows, buffer and heap.  The property reads
  the keys typed since the last Enter as an editor would, with a recursive function (`Seen`); while
  `faithful` holds that reading is the row of cells up to the caret.  A key appended changes it as the
  echo changes the row, and a key that moves from the buffer to the program leaves it as it is.
  And an action property that no run checks, `ProgramKeepsUp`: `StepsLeft` bounds what the program
  can do with the keys it has; each of its steps lowers it, a key adds at most `Size + 6`.
* **Memcpy**, **Printf**, **Serial** (their modules' assumptions; in `SystemCalls_proofs` too): `CopiesExactly` for
  every alignment, size and width of a word, `SendsText` for every number, width, flags and buffer,
  and an action property that no run checks, `LoopsEnd`.  The invariant is `SerialInv`.
  Of `memcpy` it says (`MemcpyOK`) that `stored` is what a bytewise copy would have stored so far, how
  `dst8`, `src8` and `size` hang together at each of its three places, and that every word fetched
  holds a byte of the source.  Of `ui2a` (`PrintfOK`) that `d` is a power of the base and, but for
  1, never above the number, so that the product in the first loop never wraps although it is taken
  modulo the width of the integer; then that the digits written, times `d` times the base, plus the
  rest make the number.  Of the port (`PortOK`) that `wire` is the beginning of `out`.
  `LoopsEnd` names what is left to do for each of the loops (`MemcpyLeft`, `PrintfLeft`, `PortLeft`)
  and says that every turn leaves less: no loop turns for ever, which is what `SerialReturns`
  needs besides fairness.

Two arguments need induction over data: what a sequence of keys shows, and what a sequence of
digits reads as.  The library's induction theorems cannot be instantiated by the provers
here; instead the proofs take the least number for which a statement would fail (`LeastOf`, from
the well-foundedness of `<` on the naturals) and derive a contradiction, and show in the same way that
the recursive functions exist (`UpToN`).  `itoa`'s buffer has ten digits, so the line number of a
debug line is assumed to fit an `unsigned int`, as `__LINE__` does.

Only model-checked: the liveness properties (`GetchReturns`, `SyscallReturns`,
`EveryRequestDelivered`, `SleepReturns`, `LineIsAnswered`, `BootEnds`, `SerialReturns`), which
the provers here cannot reach.

## 5. What is not modelled

`PROJECT.json` lists every component with its status.  Left out for good: the control
registers that the FPU, SMEP and SMAP set-up write (SMAP's effect is in `KernelEntry`), the
mandelbrot demo, the rust and zig stubs, and headers and data: `elf.h`, `multiboot2.h` and the
font, which are most of the repository's lines but hold no code.  The user program's copy of
`tinyprintf.c` is the kernel's file again.

In what is modelled: the unchecked system call number (the program uses 0 and 1), exceptions
other than the ones a component can raise, and `ps2_wait_write` running out of polls (the
controller is assumed to take each byte); of the terminal, pixels, scan codes and the text that
`kprintf` cuts to seven characters because it gives `vsnprintf` the size of a pointer; of the
parser of the boot information, what it prints (its strings are taken to be ended); of the boot,
the interrupts that disturb `main()` after `sti`, which have their own models;
of the loader, a segment that finds no room and `p_memsz` (the program has no `.bss`); of
`set_frame`, that it copies 5 MiB whatever the size of `bg.raw`; of formatted output, the parsing
of the format and the constant texts of a debug line; `init_serial`'s loop-back test.

`memcpy`'s comment calls its first test one for NULL or overflow.  It catches a copy to NULL
of fewer than 4096 bytes: a longer one passes.  No caller here copies so much to a
block it has not tested.

## 6. Plan

What is left, in order:

1. **PS/2 faults**: `ps2_wait_write` answers true after its timer has run out; a controller
   that does not take a byte, with `enable_mouse` writing on.
2. **One heap**: `Heap`'s byte-wise `malloc` under `Terminal`'s handlers instead of a counter.

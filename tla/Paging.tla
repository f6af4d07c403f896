------------------------------- MODULE Paging -------------------------------
(***************************************************************************)
(* The page tables (boot/paging.zig, boot/paging_32.zig): four tables of   *)
(* 512 pages of 2 MiB, filled region by region, each region between guard  *)
(* pages.  A page is numbered through all tables, and so is a frame.       *)
(***************************************************************************)
EXTENDS Integers, FiniteSets

MaxEntries == 512
Page == 0 .. 4 * MaxEntries - 1

Region == {"bootstrap", "kernel_code", "kernel_data", "kernel_stack", "userland", "frame_buffer"}

First == [bootstrap |-> 0, kernel_code |-> 128, kernel_data |-> 384, kernel_stack |-> 640,
          userland |-> 1280, frame_buffer |-> 2024]
Pages == [bootstrap |-> 2, kernel_code |-> 1, kernel_data |-> 31, kernel_stack |-> 4,
          userland |-> 128, frame_buffer |-> 3]

VARIABLE p2     \* what the tables say of the pages they map

Entry(frame, w, u, nx) == [frame |-> frame, writeable |-> w, user |-> u, no_execute |-> nx]

RegionEntry(r, frame) ==
    Entry(frame, TRUE, r = "userland", r \in {"kernel_data", "kernel_stack", "frame_buffer"})

GuardEntry(page) == Entry(page, FALSE, FALSE, TRUE)

\* Mutant: the table is the first one.
SlotFirstTable(first, page) == page % MaxEntries

\* The page whose entry is written: the table is that of the first page.
Slot(first, page) == (first \div MaxEntries) * MaxEntries + (page % MaxEntries)

\* map_guard.
Guard(page) == [s \in {Slot(page, page)} |-> GuardEntry(page)]

\* map; the frames begin at the first page's address.
Map(r) ==
    LET entry == [n \in 0 .. Pages[r] - 1 |-> RegionEntry(r, First[r] + n)]
        slots == {Slot(First[r], First[r] + n) : n \in DOMAIN entry}
    IN  [s \in slots |-> entry[(s - First[r]) % MaxEntries]]

\* The tables with the entries written.
Write(entries, table) ==
    [s \in DOMAIN entries \cup DOMAIN table |-> IF s \in DOMAIN entries THEN entries[s] ELSE table[s]]

\* One of map_bootstrap, map_kernel_code_segment, ..., map_frame_buffer: nothing
\* guards address 0.
MapRegion(r) ==
    LET before == IF r = "bootstrap" THEN p2 ELSE Write(Guard(First[r] - 1), p2)
    IN  p2' = Write(Guard(First[r] + Pages[r]), Write(Map(r), before))

SetUpPageTables == p2' = <<>>

InRegion(page) == {r \in Region : page \in First[r] .. First[r] + Pages[r] - 1}

\* The regions are where they are in memory, apart, the program's for the program
\* and the others for the kernel, and none can be left by a page without a fault.
\* (The comment at the top of paging.zig gives the bootstrap one page less.)
RegionsAreGuarded ==
    /\ \A r \in Region :
        /\ \A n \in First[r] .. First[r] + Pages[r] - 1 :
            n \in DOMAIN p2 /\ p2[n] = RegionEntry(r, n)
        /\ \A n \in {First[r] - 1, First[r] + Pages[r]} \cap Page :
            n \in DOMAIN p2 /\ ~p2[n].writeable /\ ~p2[n].user /\ p2[n].no_execute
    /\ \A n \in DOMAIN p2 : p2[n].writeable => Cardinality(InRegion(n)) = 1
=============================================================================

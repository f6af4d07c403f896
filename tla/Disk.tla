-------------------------------- MODULE Disk --------------------------------
(***************************************************************************)
(* The ATA disk (kernel/drivers/ata.c): ide_identify, which enable_ata     *)
(* calls at boot, then main()'s ata_read, which reads sectors one by one   *)
(* with ide_poll and ide_read_sector.  Each polls the status register and  *)
(* none of them gives up.                                                  *)
(*                                                                         *)
(* The drive is external.  A command makes it busy; it ends it when it     *)
(* likes, with data to transfer, an error or a device fault.  A word read  *)
(* when there is none is junk.  Without a drive the status reads 0, or all *)
(* ones if nothing drives the bus.                                         *)
(***************************************************************************)
EXTENDS Naturals

CONSTANTS
    Sectors,    \* main() reads fsbuf_size / 512
    Words       \* of a sector: 256

ASSUME DiskAssumption == Sectors \in Nat \ {0} /\ Words \in Nat \ {0}

Sector == 0 .. Sectors - 1
Identify == Sectors         \* the command that is no sector's

Flag == {"BSY", "DRQ", "ERR", "DF"}
Outcome == {"DRQ", "ERR", "DF"}

VARIABLES
    bus,        \* what is on it: "drive", "empty" or "floating"
    status,     \* its flags
    command,    \* the last command: Identify or a sector
    left,       \* words it has yet to transfer
    failed,     \* sectors whose command it has ended with an error or fault
    pc,
    word,       \* i of the loops over words
    sector,     \* i of ata_read
    buf         \* fsbuf by sector and word

drive == <<bus, status, command, left, failed>>
vars == <<drive, pc, word, sector, buf>>

Junk == <<Identify, Words>>
Data == (Sector \X (0 .. Words - 1)) \cup {Junk}

Init ==
    /\ bus \in {"drive", "empty", "floating"}
    /\ status = IF bus = "floating" THEN Flag ELSE {}
    /\ command = Identify /\ left = 0 /\ failed = {}
    /\ pc \in {"identify", "command"}   \* "command": no memory for ide_buf
    /\ word = 0 /\ sector = 0
    /\ buf = [s \in Sector |-> [w \in 0 .. Words - 1 |-> Junk]]
-----------------------------------------------------------------------------
\* The drive ends a command.
Finish ==
    /\ bus = "drive" /\ "BSY" \in status
    /\ \E o \in Outcome :
        /\ status' = {o}
        /\ left' = IF o = "DRQ" THEN Words ELSE 0
        /\ failed' = IF o = "DRQ" THEN failed ELSE failed \cup ({command} \ {Identify})
    /\ UNCHANGED <<bus, command, pc, word, sector, buf>>

\* The kernel writes the command register.
Send(c) ==
    /\ command' = c /\ left' = 0
    /\ status' = IF bus = "drive" THEN {"BSY"} ELSE status
    /\ UNCHANGED <<bus, failed>>

\* The kernel reads the data register: the word it gets.
Word == IF bus = "drive" /\ "DRQ" \in status THEN <<command, Words - left>> ELSE Junk

TakeWord ==
    /\ IF bus = "drive" /\ "DRQ" \in status
          THEN left' = left - 1 /\ status' = IF left = 1 THEN {} ELSE status
          ELSE UNCHANGED <<left, status>>
    /\ UNCHANGED <<bus, command, failed>>
-----------------------------------------------------------------------------
\* Mutant: a word too many.
LastWordLate == word = Words

\* The end of both loops over the words of a sector.
LastWord == word + 1 = Words

At(from, to) == pc = from /\ pc' = to

IdentifyCommand ==
    /\ At("identify", "identify_status") /\ Send(Identify)
    /\ UNCHANGED <<word, sector, buf>>

\* No status at all: no drive.  ide_identify fails, and main() reads all the same.
IdentifyStatus ==
    /\ At("identify_status", IF status # {} THEN "identify_busy" ELSE "command")
    /\ UNCHANGED <<drive, word, sector, buf>>

\* Waits while the drive is busy.
IdentifyBusy ==
    /\ At("identify_busy", "identify_data") /\ "BSY" \notin status
    /\ UNCHANGED <<drive, word, sector, buf>>

\* Waits for data or an error; a device fault is neither.
IdentifyWait ==
    /\ \/ "ERR" \in status /\ At("identify_data", "command")
       \/ "ERR" \notin status /\ "DRQ" \in status /\ At("identify_data", "identify_words")
    /\ UNCHANGED <<drive, word, sector, buf>>

\* One of the words for ide_buf.
IdentifyWord ==
    /\ pc = "identify_words" /\ TakeWord
    /\ IF LastWord THEN word' = 0 /\ pc' = "command"
                   ELSE word' = word + 1 /\ UNCHANGED pc
    /\ UNCHANGED <<sector, buf>>
-----------------------------------------------------------------------------
\* Mutant: every command names the first sector.
ReadFirst ==
    /\ At("command", "poll") /\ Send(0)
    /\ UNCHANGED <<word, sector, buf>>

\* ide_read_sector selects sector lba + i.
ReadCommand ==
    /\ At("command", "poll") /\ Send(sector)
    /\ UNCHANGED <<word, sector, buf>>

\* Mutant: the loop waits for data.
PollForData ==
    /\ At("poll", "words") /\ "DRQ" \in status
    /\ UNCHANGED <<drive, word, sector, buf>>

\* ide_poll waits while the drive is busy.  It looks at the outcome, and returns
\* from an error, a fault and missing data as from success.
Poll ==
    /\ At("poll", "words") /\ "BSY" \notin status
    /\ UNCHANGED <<drive, word, sector, buf>>

\* One of the words for the sector's place in buf.
ReadWord ==
    /\ pc = "words" /\ TakeWord
    /\ buf' = [buf EXCEPT ![sector][word] = Word]
    /\ IF LastWord
          THEN /\ word' = 0 /\ sector' = sector + 1
               /\ pc' = IF sector + 1 = Sectors THEN "done" ELSE "command"
          ELSE word' = word + 1 /\ UNCHANGED <<pc, sector>>

IdeIdentify == IdentifyCommand \/ IdentifyStatus \/ IdentifyBusy \/ IdentifyWait \/ IdentifyWord
AtaRead == ReadCommand \/ Poll \/ ReadWord

Next == Finish \/ IdeIdentify \/ AtaRead

\* The CPU goes on, and the drive ends its commands.
Fairness == WF_vars(IdeIdentify \/ AtaRead) /\ WF_vars(Finish)

Spec == Init /\ [][Next]_vars /\ Fairness
-----------------------------------------------------------------------------
TypeOK ==
    /\ bus \in {"drive", "empty", "floating"} /\ status \subseteq Flag
    /\ command \in Sector \cup {Identify}
    /\ left \in 0 .. Words /\ failed \subseteq Sector
    /\ pc \in {"identify", "identify_status", "identify_busy", "identify_data",
               "identify_words", "command", "poll", "words", "done"}
    /\ word \in 0 .. Words - 1 /\ sector \in 0 .. Sectors
    /\ buf \in [Sector -> [0 .. Words - 1 -> Data]]

\* Although no error is looked at, it stays where it was: a sector that main()
\* has read is the disk's, word for word, or the drive reported that very sector.
SectorOrReported ==
    bus = "drive" =>
        \A s \in Sector : s < sector =>
            s \in failed \/ buf[s] = [w \in 0 .. Words - 1 |-> <<s, w>>]

\* No command is sent to a drive that is busy or has data left to give.
CommandWhenIdle ==
    bus = "drive" /\ pc \in {"identify", "command"} => {"BSY", "DRQ"} \cap status = {}

\* Every drive, one that is absent or fails included, lets the boot go on.  There
\* are two exceptions, for which no loop has a way out: a floating bus, which is
\* always busy, and a drive that answers IDENTIFY with a device fault.
BootGoesOn ==
    bus # "floating" => <>(pc = "done" \/ (pc = "identify_data" /\ "DF" \in status))
=============================================================================

----------------------------- MODULE Boot_proofs -----------------------------
(***************************************************************************)
(* Proofs about Disk, by itself and as a part of the boot, and about the   *)
(* boot: for every number of sectors and of words, every size of tags,     *)
(* every archive and every ELF file, and wherever memory ends.             *)
(*                                                                         *)
(* The invariant of Disk relates the drive to the kernel's place in the    *)
(* code: a transfer is in step with the loop that reads its words, and no  *)
(* command is sent before the last one has ended.  The boot takes steps of *)
(* Disk or leaves it alone, so that it keeps that invariant.               *)
(*                                                                         *)
(* Last, that the boot goes on: a measure of what is left of each stage,   *)
(* which every step of main() makes smaller.                               *)
(***************************************************************************)
EXTENDS Boot, FiniteSetTheorems, TLAPS

\* A row of buf as far as it has been read.
Filled(s, n) == \A w \in 0 .. Words - 1 : w < n => buf[s][w] = <<s, w>>

\* A transfer in step with the kernel's loop.
Transfer == status = {"DRQ"} /\ left = Words - word

Ended == {"BSY", "DRQ"} \cap status = {}

\* What the drive does at each place of the kernel's code.
DriveOK ==
    /\ pc \in {"identify", "command"} => Ended
    /\ pc \in {"identify_status", "identify_busy", "identify_data"} =>
         \/ status = {"BSY"} \/ Ended
         \/ status = {"DRQ"} /\ left = Words
    /\ pc = "identify_words" => Transfer
    /\ pc = "poll" =>
         \/ status = {"BSY"}
         \/ status = {"DRQ"} /\ left = Words
         \/ Ended /\ sector \in failed
    /\ pc = "words" => \/ Transfer /\ Filled(sector, word)
                       \/ Ended /\ sector \in failed

PlaceOK ==
    /\ pc \in {"poll", "words"} => command = sector
    /\ pc # "done" => sector < Sectors
    /\ pc \notin {"words", "identify_words"} => word = 0

RowsOK == \A s \in Sector : s < sector => s \in failed \/ Filled(s, Words)

IInv == TypeOK /\ PlaceOK /\ (bus = "drive" => DriveOK /\ RowsOK)

USE DiskAssumption DEF Sector, Identify, Flag, Outcome, Data, Junk

LEMMA InitIInv == Init => IInv
  BY DEF Init, IInv, TypeOK, PlaceOK, DriveOK, RowsOK, Ended

LEMMA TypeNext == IInv /\ [Next]_vars => TypeOK' /\ PlaceOK'
<1> SUFFICES ASSUME IInv, [Next]_vars PROVE TypeOK' /\ PlaceOK'
  OBVIOUS
<1>a. bus = "drive" /\ "DRQ" \in status /\ pc \in {"words", "identify_words"} => left = Words - word
  BY DEF IInv, DriveOK, Transfer, Ended
<1>b. ASSUME TakeWord, pc \in {"words", "identify_words"}
       PROVE  left' \in 0 .. Words /\ status' \subseteq Flag /\ UNCHANGED <<bus, command, failed>>
  <2>1. left \in 0 .. Words /\ word \in 0 .. Words - 1 /\ status \subseteq Flag
    BY DEF IInv, TypeOK
  <2>2. CASE bus = "drive" /\ "DRQ" \in status
    <3>1. left = Words - word /\ left' = left - 1
      BY <1>a, <1>b, <2>2 DEF TakeWord
    <3>2. left' \in 0 .. Words
      BY <2>1, <3>1
    <3> QED
      BY <1>b, <2>1, <2>2, <3>2 DEF TakeWord
  <2> QED
    BY <1>b, <2>1, <2>2 DEF TakeWord
<1> USE DEF IInv, TypeOK, PlaceOK, drive
<1>1. CASE Finish
  BY <1>1 DEF Finish
<1>2. CASE IdentifyCommand
  BY <1>2 DEF IdentifyCommand, At, Send
<1>3. CASE IdentifyStatus
  BY <1>3 DEF IdentifyStatus, At
<1>4. CASE IdentifyBusy
  BY <1>4 DEF IdentifyBusy, At
<1>5. CASE IdentifyWait
  BY <1>5 DEF IdentifyWait, At
<1>6. CASE IdentifyWord
  <2>1. left' \in 0 .. Words /\ status' \subseteq Flag /\ UNCHANGED <<bus, command, failed>>
    BY <1>6, <1>b DEF IdentifyWord
  <2> QED
    BY <1>6, <2>1 DEF IdentifyWord, LastWord
<1>7. CASE ReadCommand
  BY <1>7 DEF ReadCommand, At, Send
<1>8. CASE Poll
  BY <1>8 DEF Poll, At
<1>9. CASE ReadWord
  <2>1. Word \in Data
    BY <1>a, <1>9 DEF ReadWord, Word
  <2>2. buf' \in [Sector -> [0 .. Words - 1 -> Data]]
    <3> HIDE DEF Data
    <3> QED
      BY <1>9, <2>1 DEF ReadWord
  <2>3. left' \in 0 .. Words /\ status' \subseteq Flag
    BY <1>9, <1>b DEF ReadWord
  <2> QED
    BY <1>9, <2>2, <2>3 DEF ReadWord, TakeWord, LastWord
<1>10. CASE UNCHANGED vars
  BY <1>10 DEF vars
<1> QED
  BY <1>1, <1>2, <1>3, <1>4, <1>5, <1>6, <1>7, <1>8, <1>9, <1>10
  DEF Next, IdeIdentify, AtaRead

LEMMA DriveNext == IInv /\ [Next]_vars /\ bus = "drive" => DriveOK' /\ RowsOK'
<1> SUFFICES ASSUME IInv, [Next]_vars, bus = "drive" PROVE DriveOK' /\ RowsOK'
  OBVIOUS
<1> USE DEF IInv, TypeOK, PlaceOK, DriveOK, RowsOK, Ended, Transfer, Filled, drive
<1>1. CASE Finish
  BY <1>1 DEF Finish
<1>2. CASE IdentifyCommand
  BY <1>2 DEF IdentifyCommand, At, Send
<1>3. CASE IdentifyStatus
  BY <1>3 DEF IdentifyStatus, At
<1>4. CASE IdentifyBusy
  BY <1>4 DEF IdentifyBusy, At
<1>5. CASE IdentifyWait
  BY <1>5 DEF IdentifyWait, At
<1>6. CASE IdentifyWord
  BY <1>6 DEF IdentifyWord, TakeWord, LastWord
<1>7. CASE ReadCommand
  BY <1>7 DEF ReadCommand, At, Send
<1>8. CASE Poll
  BY <1>8 DEF Poll, At
<1>9. CASE ReadWord
  <2>1. pc = "words" /\ command = sector /\ sector \in Sector /\ word \in 0 .. Words - 1
    BY <1>9 DEF ReadWord
  <2>2. \A t \in Sector : t # sector => buf'[t] = buf[t]
    BY <1>9, <2>1 DEF ReadWord
  <2>3. /\ buf'[sector][word] = Word
        /\ \A w \in 0 .. Words - 1 : w # word => buf'[sector][w] = buf[sector][w]
    BY <1>9, <2>1 DEF ReadWord
  <2>4. UNCHANGED failed
    BY <1>9 DEF ReadWord, TakeWord
  <2>5. CASE Ended /\ sector \in failed
    <3>1. Ended'
      BY <1>9, <2>5 DEF ReadWord, TakeWord
    <3>2. RowsOK'
      BY <1>9, <2>1, <2>2, <2>4, <2>5 DEF ReadWord
    <3>3. DriveOK'
      BY <1>9, <2>4, <2>5, <3>1 DEF ReadWord
    <3> QED
      BY <3>2, <3>3
  <2>6. CASE Transfer /\ Filled(sector, word)
    <3>1. Word = <<sector, word>>
      BY <2>1, <2>6 DEF Word
    <3>2. \A w \in 0 .. Words - 1 : w < word + 1 => buf'[sector][w] = <<sector, w>>
      <4> SUFFICES ASSUME NEW w \in 0 .. Words - 1, w < word + 1
                   PROVE  buf'[sector][w] = <<sector, w>>
        OBVIOUS
      <4>1. CASE w = word
        BY <2>3, <3>1, <4>1
      <4>2. CASE w # word
        <5>1. w < word
          BY <2>1, <4>2
        <5> QED
          BY <2>3, <2>6, <4>2, <5>1
      <4> QED
        BY <4>1, <4>2
    <3>3. IF LastWord THEN Ended' ELSE status' = {"DRQ"} /\ left' = Words - word - 1
      BY <1>9, <2>1, <2>6 DEF ReadWord, TakeWord, LastWord
    <3>4. RowsOK'
      <4> SUFFICES ASSUME NEW t \in Sector, t < sector', t \notin failed PROVE Filled(t, Words)'
        BY <2>4
      <4>1. CASE t = sector
        BY <1>9, <2>1, <2>3, <2>6, <3>1, <4>1 DEF ReadWord, LastWord
      <4>2. CASE t # sector
        BY <1>9, <2>1, <2>2, <4>2 DEF ReadWord, LastWord
      <4> QED
        BY <4>1, <4>2
    <3>5. DriveOK'
      BY <1>9, <2>1, <3>2, <3>3 DEF ReadWord, LastWord
    <3> QED
      BY <3>4, <3>5
  <2> QED
    BY <2>1, <2>5, <2>6
<1>10. CASE UNCHANGED vars
  BY <1>10 DEF vars
<1> QED
  BY <1>1, <1>2, <1>3, <1>4, <1>5, <1>6, <1>7, <1>8, <1>9, <1>10
  DEF Next, IdeIdentify, AtaRead

LEMMA NextIInv == IInv /\ [Next]_vars => IInv'
<1> SUFFICES ASSUME IInv, [Next]_vars PROVE IInv'
  OBVIOUS
<1>1. UNCHANGED bus
  BY DEF Next, vars, drive, Finish, IdeIdentify, AtaRead, IdentifyCommand, IdentifyStatus,
     IdentifyBusy, IdentifyWait, IdentifyWord, ReadCommand, Poll, ReadWord, Send, TakeWord
<1> QED
  BY <1>1, TypeNext, DriveNext DEF IInv

THEOREM DiskInvariant == Spec => []IInv
  BY InitIInv, NextIInv, PTL DEF Spec
-----------------------------------------------------------------------------
\* Every variable keeps to its type: no loop runs past the words of a sector.
THEOREM DiskTypeCorrect == Spec => []TypeOK
<1>1. IInv => TypeOK
  BY DEF IInv
<1> QED
  BY <1>1, DiskInvariant, PTL

LEMMA SectorIsFilled == IInv => SectorOrReported
<1> SUFFICES ASSUME IInv, bus = "drive", NEW s \in Sector, s < sector, s \notin failed
             PROVE  buf[s] = [w \in 0 .. Words - 1 |-> <<s, w>>]
  BY DEF SectorOrReported
<1>1. Filled(s, Words) /\ buf[s] \in [0 .. Words - 1 -> Data]
  BY DEF IInv, RowsOK, TypeOK
<1>2. \A w \in 0 .. Words - 1 : buf[s][w] = <<s, w>>
  BY <1>1 DEF Filled
<1> QED
  BY <1>1, <1>2

\* ide_read_sector never mixes up sectors or words, whatever commands failed.
THEOREM SectorsAreFaithful == Spec => []SectorOrReported
  BY SectorIsFilled, DiskInvariant, PTL

\* No command interrupts another, or a transfer.
THEOREM CommandsFindIdleDrive == Spec => []CommandWhenIdle
<1>1. IInv => CommandWhenIdle
  BY DEF IInv, DriveOK, Ended, CommandWhenIdle
<1> QED
  BY <1>1, DiskInvariant, PTL
-----------------------------------------------------------------------------
\* Every step of the boot is one of the disk's, or leaves the disk alone.
LEMMA BootTakesDiskSteps == [BootNext]_bootVars => [Next]_vars
<1> SUFFICES ASSUME [BootNext]_bootVars PROVE Next \/ UNCHANGED vars
  OBVIOUS
<1>1. CASE HardwareStep
  BY <1>1 DEF HardwareStep, Next
<1>2. CASE Main
  BY <1>2 DEF Main, SetUp, MapOne, EnablePaging, InitTssAddr, CallOf, LongModeStart,
     EnableMouse, MouseSilent, IdtInit, ParseMultiboot, ParseTag, ParseFault, EnableAndMalloc,
     ReadDisk, PeekFault, Refuse, ReadZip, FileFault, SetFrame, Search, Run, EnterUserland,
     RunReturns, Next
<1>3. CASE UNCHANGED bootVars
  BY <1>3 DEF bootVars
<1> QED
  BY <1>1, <1>2, <1>3 DEF BootNext

THEOREM BootKeepsDisk == BootSpec => []IInv
<1>1. BootInit => IInv
  BY InitIInv DEF BootInit
<1>2. IInv /\ [BootNext]_bootVars => IInv'
  BY NextIInv, BootTakesDiskSteps
<1> QED
  BY <1>1, <1>2, PTL DEF BootSpec

\* main() reads the disk's sectors, in whatever state the boot finds the drive.
THEOREM BootReadsSectors == BootSpec => []SectorOrReported
<1>1. IInv => SectorOrReported
  BY SectorIsFilled
<1> QED
  BY <1>1, BootKeepsDisk, PTL
-----------------------------------------------------------------------------
\* The TSS is set up by the last call of init_long_mode that uses its stack.
TssInv ==
    /\ call \in 1 .. Len(Calls) + 1
    /\ at = "init_long_mode" =>
         stack = "temp" /\ tss = IF call > Len(Calls) THEN "stored" ELSE "none"
    /\ at # "init_long_mode" => call = Len(Calls) + 1 /\ tss = "stored"

\* init_tss_addr is the last of the calls.
LEMMA TssIsLast == Len(Calls) = 9 /\ \A n \in 1 .. 9 : Calls[n] = "init_tss_addr" <=> n = 9
  BY DEF Calls

LEMMA TssNext == TssInv /\ [BootNext]_bootVars => TssInv'
<1> SUFFICES ASSUME TssInv, [BootNext]_bootVars PROVE TssInv'
  OBVIOUS
<1> USE TssIsLast DEF TssInv
<1>1. CASE SetUp \/ MapOne \/ EnablePaging \/ InitTssAddr
  <2>1. PICK name : CallOf(name)
    BY <1>1 DEF SetUp, MapOne, EnablePaging, InitTssAddr
  <2> QED
    BY <2>1 DEF CallOf, Frame
<1>2. CASE LongModeStart
  BY <1>2 DEF LongModeStart, Goto
<1>3. CASE HardwareStep \/ IdtInit \/ ParseTag \/ ReadDisk \/ Run
  BY <1>3 DEF HardwareStep, IdtInit, ParseTag, ReadDisk, Run, boot, tables
<1>4. CASE EnableMouse \/ MouseSilent \/ ParseMultiboot \/ ParseFault \/ EnableAndMalloc
  BY <1>4 DEF EnableMouse, MouseSilent, ParseMultiboot, ParseFault, EnableAndMalloc, Goto, tables
<1>7. CASE PeekFault \/ Refuse \/ ReadZip \/ FileFault \/ EnterUserland \/ RunReturns
  BY <1>7 DEF PeekFault, Refuse, ReadZip, FileFault, EnterUserland, RunReturns, Goto, tables
<1>5. CASE SetFrame \/ Search
  BY <1>5 DEF SetFrame, Search, tables
<1>6. CASE UNCHANGED bootVars
  BY <1>6 DEF bootVars, boot, tables
<1> QED
  BY <1>1, <1>2, <1>3, <1>4, <1>5, <1>6, <1>7 DEF BootNext, Main

\* init_tss_addr: no later call overwrites the dead frame that holds the TSS.
THEOREM TssOutlivesItsFrame == BootSpec => []TssSurvives
<1>1. BootInit => TssInv
  BY TssIsLast DEF BootInit, TssInv
<1>2. TssInv => TssSurvives
  BY DEF TssInv, TssSurvives
<1> QED
  BY <1>1, <1>2, TssNext, PTL DEF BootSpec
-----------------------------------------------------------------------------
TagInv == tag \in Nat /\ tagSize \in 0 .. Wrap - 1 /\ tag % 8 = 0 /\ tag = placed

\* The units are the size rounded up, unless the sum wraps; they are 0 at a size of 0
\* and where it does.
LEMMA UnitsRound ==
    ASSUME NEW size \in 0 .. Wrap - 1
    PROVE  /\ TagUnits(size) \in Nat
           /\ TagUnits(size) # 0 => 8 * TagUnits(size) \in size .. size + 7
           /\ TagUnits(size) = 0 => size = 0 \/ size > Wrap - 8
<1>1. Wrap \in Nat \ {0} /\ Wrap % 8 = 0
  BY MultibootAssumption
<1>2. CASE size % 8 = 0
  BY <1>1, <1>2 DEF TagUnits
<1>3. CASE size % 8 # 0 /\ size + 8 < Wrap
  <2>1. (size + 8) % Wrap = size + 8
    BY <1>1, <1>3
  <2>2. TagUnits(size) = (size + 8) \div 8
    BY <1>3, <2>1 DEF TagUnits
  <2> QED
    BY <1>3, <2>2
<1>4. CASE size % 8 # 0 /\ size + 8 >= Wrap
  <2>1. size + 8 - Wrap \in 0 .. 7 /\ size > Wrap - 8
    BY <1>1, <1>4
  <2>2. (size + 8) % Wrap = IF size + 8 - Wrap < Wrap THEN size + 8 - Wrap ELSE 0
    BY <1>1, <2>1
  <2>3. (size + 8) % Wrap \in 0 .. 7
    BY <2>1, <2>2
  <2>4. TagUnits(size) = ((size + 8) % Wrap) \div 8
    BY <1>4 DEF TagUnits
  <2>5. TagUnits(size) = 0
    BY <2>3, <2>4
  <2> QED
    BY <2>1, <2>5
<1> QED
  BY <1>1, <1>2, <1>3, <1>4

\* There is one multiple of 8 where the boot loader puts the next tag, and the
\* parser's units lead to it.
LEMMA NextMultiple ==
    ASSUME NEW t \in Nat, t % 8 = 0, NEW size \in 0 .. Wrap - 1, TagUnits(size) # 0
    PROVE  LET u == t + 8 * TagUnits(size)
           IN  /\ u \in Nat /\ u % 8 = 0
               /\ u = CHOOSE n \in t + size .. t + size + 7 : n % 8 = 0
<1> DEFINE u == t + 8 * TagUnits(size)
<1>1. PICK k \in Nat : t = 8 * k
  BY SMTT(30)
<1>2. TagUnits(size) \in Nat /\ 8 * TagUnits(size) \in size .. size + 7 /\ size \in Nat
  BY UnitsRound, MultibootAssumption
<1> DEFINE m == TagUnits(size)
<1> HIDE DEF m
<1>3. u = 8 * (k + m) /\ m \in Nat
  BY <1>1, <1>2 DEF m
<1>4. u \in Nat /\ u % 8 = 0
  BY <1>3
<1>5. u \in t + size .. t + size + 7
  BY <1>2
<1>6. ASSUME NEW n \in t + size .. t + size + 7, n % 8 = 0 PROVE n = u
  BY <1>2, <1>3, <1>4, <1>5, <1>6
<1> HIDE DEF u
<1>7. u = CHOOSE n \in t + size .. t + size + 7 : n % 8 = 0
  BY <1>4, <1>5, <1>6
<1> QED
  BY <1>4, <1>7 DEF u

LEMMA TagNext == TagInv /\ [BootNext]_bootVars => TagInv'
<1> SUFFICES ASSUME TagInv, [BootNext]_bootVars PROVE TagInv'
  OBVIOUS
<1>0. 0 \in 0 .. Wrap - 1 /\ TagSizes \subseteq 0 .. Wrap - 1
  BY MultibootAssumption
<1>1. CASE ParseMultiboot
  BY <1>0, <1>1 DEF TagInv, ParseMultiboot, StartTags, ReadTag
<1>2. CASE ParseTag
  <2> DEFINE units == TagUnits(tagSize)
  <2>1. /\ tag' = tag + 8 * units
        /\ tag' = tag => UNCHANGED <<placed, tagSize>>
        /\ tag' # tag =>
             /\ placed' = CHOOSE n \in placed + tagSize .. placed + tagSize + 7 : n % 8 = 0
             /\ tagSize' \in TagSizes
    BY <1>2 DEF ParseTag, NextTag, NextPlace, ReadTag
  <2>2. CASE tag' = tag
    BY <2>1, <2>2 DEF TagInv
  <2>3. CASE tag' # tag
    <3>1. units # 0
      BY <2>1, <2>3 DEF TagInv
    <3> QED
      BY <1>0, <2>1, <2>3, <3>1, NextMultiple DEF TagInv
  <2> QED
    BY <2>2, <2>3
<1>3. CASE EnableAndMalloc
  BY <1>0, <1>3 DEF TagInv, EnableAndMalloc, EndTags
<1>4. CASE UNCHANGED multibootVars
  BY <1>4 DEF TagInv, multibootVars
<1>5. ParseMultiboot \/ ParseTag \/ EnableAndMalloc \/ UNCHANGED multibootVars
  BY DEF BootNext, HardwareStep, Main, SetUp, MapOne, EnablePaging, InitTssAddr, CallOf,
     LongModeStart, EnableMouse, MouseSilent, IdtInit, ParseFault, TagFault, ReadDisk, PeekFault,
     Refuse, ReadZip, FileFault, SetFrame, Search, Run, EnterUserland, RunReturns, bootVars
<1> QED
  BY <1>1, <1>2, <1>3, <1>4, <1>5

\* parse_multiboot_header rounds as the boot loader does, whatever the sizes.
THEOREM TagsStayInStep == BootSpec => []TagsInStep
<1>1. BootInit => TagInv
  BY MultibootAssumption DEF BootInit, NoTags, TagInv
<1>2. TagInv => TagsInStep
  BY DEF TagInv, TagsInStep
<1> QED
  BY <1>1, <1>2, TagNext, PTL DEF BootSpec
-----------------------------------------------------------------------------
\* The n-th segment is the one that run_userland takes.
FirstLoad(e, n) ==
    /\ n \in DOMAIN e.segments /\ e.segments[n].load
    /\ \A m \in DOMAIN e.segments : m < n => ~e.segments[m].load

\* What the linker is relied on for: the first segment to load has the entry point.
EntryLinked ==
    \A e \in Elf : \A n \in DOMAIN e.segments :
        FirstLoad(e, n) => e.entry \in e.segments[n].paddr
                                         .. e.segments[n].paddr + e.segments[n].filesz - 1

Loaded(n) ==
    LET s == elf.segments[n]
    IN  /\ FirstLoad(elf, n)
        /\ code = [k \in 0 .. s.filesz - 1 |-> s.offset + k]
        /\ entry = EntryOffset(s)

LoaderInv ==
    /\ lpc \in {"segments", "userland"} => elf \in Elf
    /\ lpc = "segments" =>
         /\ segment \in Nat \ {0}
         /\ \A m \in DOMAIN elf.segments : m < segment => ~elf.segments[m].load
    /\ lpc = "userland" => \E n \in DOMAIN elf.segments : Loaded(n)

LEMMA OffsetWithin ==
    ASSUME NEW e \in Nat, NEW p \in Nat, NEW f \in Nat, e \in p .. p + f - 1,
           NEW v \in e .. p + f - 1
    PROVE  (e - p) + v - e \in 0 .. f - 1 /\ (e - p) + v - e = v - p
  OBVIOUS

LEMMA LoaderNext == LoaderInv /\ [BootNext]_bootVars => LoaderInv'
<1> SUFFICES ASSUME LoaderInv, [BootNext]_bootVars PROVE LoaderInv'
  OBVIOUS
<1>1. CASE RunUserland
  <2>1. CASE ParseHeader
    <3>1. elf' \in Elf /\ segment' = 1 /\ lpc' \in {"segments", "returned"}
      BY <2>1 DEF ParseHeader
    <3>2. DOMAIN elf'.segments \subseteq Nat \ {0}
      BY <3>1, LoaderAssumption
    <3> QED
      BY <3>1, <3>2 DEF LoaderInv
  <2>2. CASE SkipSegment
    <3>1. /\ elf \in Elf /\ segment \in Nat \ {0} /\ segment' = segment + 1 /\ ~elf.segments[segment].load
          /\ UNCHANGED <<elf, code, entry, lpc>> /\ lpc = "segments"
          /\ \A m \in DOMAIN elf.segments : m < segment => ~elf.segments[m].load
      BY <2>2 DEF SkipSegment, LoaderInv
    <3>2. DOMAIN elf.segments \subseteq Nat
      BY <3>1, LoaderAssumption
    <3>3. \A m \in DOMAIN elf.segments : m < segment' => ~elf.segments[m].load
      BY <3>1, <3>2
    <3> QED
      BY <3>1, <3>3 DEF LoaderInv
  <2>3. CASE NoSegment
    BY <2>3 DEF NoSegment, LoaderInv
  <2>4. CASE LoadSegment
    <3>1. /\ elf \in Elf /\ segment \in Nat \ {0} /\ lpc = "segments" /\ UNCHANGED <<elf, segment>>
          /\ segment <= Len(elf.segments) /\ elf.segments[segment].load
          /\ \A m \in DOMAIN elf.segments : m < segment => ~elf.segments[m].load
      BY <2>4 DEF LoadSegment, LoaderInv
    <3>2. elf.segments \in Seq(Segment)
      BY <3>1, LoaderAssumption
    <3>3. CASE lpc' = "null"
      BY <3>3 DEF LoaderInv
    <3>4. CASE lpc' # "null"
      <4>1. segment \in DOMAIN elf.segments
        BY <3>1, <3>2
      <4>2. FirstLoad(elf, segment)
        BY <3>1, <4>1 DEF FirstLoad
      <4>3. /\ code' = [k \in 0 .. elf.segments[segment].filesz - 1
                            |-> elf.segments[segment].offset + k]
            /\ entry' = EntryOffset(elf.segments[segment])
            /\ lpc' = "userland"
        BY <2>4, <3>4 DEF LoadSegment
      <4>4. \E n \in DOMAIN elf'.segments : Loaded(n)'
        BY <3>1, <4>1, <4>2, <4>3 DEF Loaded, FirstLoad, EntryOffset
      <4> QED
        BY <3>1, <4>3, <4>4 DEF LoaderInv
    <3> QED
      BY <3>3, <3>4
  <2>5. CASE LoaderFault
    BY <2>5 DEF LoaderFault, LoaderInv
  <2> QED
    BY <1>1, <2>1, <2>2, <2>3, <2>4, <2>5 DEF RunUserland
<1>2. CASE UNCHANGED loaderVars
  BY <1>2 DEF LoaderInv, Loaded, FirstLoad, EntryOffset, loaderVars
<1>3. RunUserland \/ UNCHANGED loaderVars
  BY DEF BootNext, HardwareStep, Main, SetUp, MapOne, EnablePaging, InitTssAddr, CallOf,
     LongModeStart, EnableMouse, MouseSilent, IdtInit, ParseMultiboot, ParseTag, ParseFault,
     EnableAndMalloc, ReadDisk, PeekFault, Refuse, ReadZip, FileFault, SetFrame, Search, Run,
     EnterUserland, RunReturns, bootVars
<1> QED
  BY <1>1, <1>2, <1>3

\* run_userland: the byte at the entry point is the one the file has for it, and
\* so are those behind it, when the linker put the entry into the first segment.
THEOREM EntryIsReached ==
    ASSUME EntryLinked
    PROVE  BootSpec => []EntryIsEntry
<1>1. BootInit => LoaderInv
  BY DEF BootInit, NoLoader, LoaderInv
<1>2. LoaderInv => EntryIsEntry
  <2> SUFFICES ASSUME LoaderInv, lpc = "userland" PROVE EntryIsEntry
    BY DEF EntryIsEntry
  <2>1. PICK n \in DOMAIN elf.segments : Loaded(n)
    BY DEF LoaderInv
  <2> DEFINE s == elf.segments[n]
  <2>2. elf \in Elf /\ s \in Segment /\ elf.entry \in Nat
    BY LoaderAssumption DEF LoaderInv
  <2>3. s.load /\ elf.entry \in s.paddr .. s.paddr + s.filesz - 1
    BY <2>1, <2>2, EntryLinked DEF Loaded, FirstLoad, EntryLinked
  <2>4. code = [k \in 0 .. s.filesz - 1 |-> s.offset + k] /\ entry = elf.entry - s.paddr
    BY <2>1 DEF Loaded, EntryOffset
  <2>5. s.paddr \in Nat /\ s.filesz \in Nat /\ s.offset \in Nat
    BY <2>2 DEF Segment
  <2> HIDE DEF s
  <2>6. ASSUME NEW v \in elf.entry .. s.paddr + s.filesz - 1
        PROVE  code[entry + v - elf.entry] = s.offset + v - s.paddr
    <3>1. /\ (elf.entry - s.paddr) + v - elf.entry \in 0 .. s.filesz - 1
          /\ (elf.entry - s.paddr) + v - elf.entry = v - s.paddr
      <4>1. elf.entry \in s.paddr .. s.paddr + s.filesz - 1
        BY <2>3
      <4> QED
        BY <2>2, <2>5, <2>6, <4>1, OffsetWithin
    <3>2. code[(elf.entry - s.paddr) + v - elf.entry] = s.offset + (v - s.paddr)
      BY <2>4, <3>1
    <3>3. v \in Int
      BY <2>2, <2>5
    <3> QED
      BY <2>4, <2>5, <3>2, <3>3
  <2> QED
    BY <2>3, <2>6 DEF EntryIsEntry, s
<1> QED
  BY <1>1, <1>2, LoaderNext, PTL DEF BootSpec
-----------------------------------------------------------------------------
PagesOf(r) == First[r] .. First[r] + Pages[r] - 1
GuardsOf(r) == {First[r] - 1, First[r] + Pages[r]} \cap Page

LEMMA Layout ==
    ASSUME NEW r \in Region
    PROVE  /\ First[r] \in Nat /\ Pages[r] \in 1 .. 128 /\ (First[r] % MaxEntries) + Pages[r] < MaxEntries
           /\ First[r] + Pages[r] \in Page
           /\ First[r] = 0 <=> r = "bootstrap"
           /\ r # "bootstrap" => First[r] - 1 \in Page
  BY DEF Region, First, Pages, MaxEntries, Page

LEMMA RegionsApart ==
    ASSUME NEW r \in Region, NEW s \in Region, r # s
    PROVE  (PagesOf(r) \cup GuardsOf(r)) \cap (PagesOf(s) \cup GuardsOf(s)) = {}
  BY DEF Region, First, Pages, MaxEntries, Page, PagesOf, GuardsOf

LEMMA PagesNotGuards ==
    ASSUME NEW r \in Region PROVE PagesOf(r) \cap GuardsOf(r) = {}
  BY Layout DEF PagesOf, GuardsOf, Page

\* In its own table a page has its own slot.
LEMMA SlotIsPage ==
    ASSUME NEW first \in Nat, NEW page \in Nat, first <= page,
           (first % MaxEntries) + (page - first) < MaxEntries
    PROVE  Slot(first, page) = page
<1>1. PICK k \in Nat, m \in 0 .. MaxEntries - 1 : first = MaxEntries * k + m
  <2>1. first = MaxEntries * (first \div MaxEntries) + (first % MaxEntries)
    BY DEF MaxEntries
  <2>2. first \div MaxEntries \in Nat /\ first % MaxEntries \in 0 .. MaxEntries - 1
    BY DEF MaxEntries
  <2> QED
    BY <2>1, <2>2
<1>2. first \div MaxEntries = k /\ first % MaxEntries = m
  BY <1>1 DEF MaxEntries
<1>3. page % MaxEntries = m + (page - first)
  BY <1>1, <1>2 DEF MaxEntries
<1> QED
  BY <1>1, <1>2, <1>3 DEF Slot, MaxEntries

LEMMA MapIs ==
    ASSUME NEW r \in Region
    PROVE  Map(r) = [n \in PagesOf(r) |-> RegionEntry(r, n)]
<1>1. First[r] \in Nat /\ Pages[r] \in 1 .. 128 /\ (First[r] % MaxEntries) + Pages[r] < MaxEntries
  BY Layout
<1>2. \A n \in 0 .. Pages[r] - 1 : Slot(First[r], First[r] + n) = First[r] + n
  <2> SUFFICES ASSUME NEW n \in 0 .. Pages[r] - 1
               PROVE  Slot(First[r], First[r] + n) = First[r] + n
    OBVIOUS
  <2> DEFINE page == First[r] + n
  <2>1. page \in Nat /\ First[r] <= page /\ page - First[r] = n
    BY <1>1
  <2>2. (First[r] % MaxEntries) + (page - First[r]) < MaxEntries
    BY <1>1, <2>1 DEF MaxEntries
  <2> HIDE DEF page
  <2>3. Slot(First[r], page) = page
    BY <1>1, <2>1, <2>2, SlotIsPage
  <2> QED
    BY <2>3 DEF page
<1> DEFINE mapped == [n \in 0 .. Pages[r] - 1 |-> RegionEntry(r, First[r] + n)]
           slots == {Slot(First[r], First[r] + n) : n \in DOMAIN mapped}
<1>3. slots = PagesOf(r)
  <2>1. slots = {First[r] + n : n \in 0 .. Pages[r] - 1}
    BY <1>2
  <2>2. \A s \in PagesOf(r) : s - First[r] \in 0 .. Pages[r] - 1 /\ First[r] + (s - First[r]) = s
    BY <1>1 DEF PagesOf
  <2>3. \A n \in 0 .. Pages[r] - 1 : First[r] + n \in PagesOf(r)
    BY <1>1 DEF PagesOf
  <2> HIDE DEF slots
  <2> QED
    BY <2>1, <2>2, <2>3
<1>4. \A s \in PagesOf(r) : mapped[(s - First[r]) % MaxEntries] = RegionEntry(r, s)
  <2> SUFFICES ASSUME NEW s \in PagesOf(r)
               PROVE  mapped[(s - First[r]) % MaxEntries] = RegionEntry(r, s)
    OBVIOUS
  <2>1. s - First[r] \in 0 .. Pages[r] - 1 /\ First[r] + (s - First[r]) = s
    BY <1>1 DEF PagesOf
  <2>2. (s - First[r]) % MaxEntries = s - First[r]
    BY <1>1, <2>1 DEF MaxEntries
  <2> QED
    BY <2>1, <2>2
<1>5. Map(r) = [s \in slots |-> mapped[(s - First[r]) % MaxEntries]]
  BY DEF Map
<1> HIDE DEF mapped, slots
<1> QED
  BY <1>3, <1>4, <1>5

LEMMA GuardIs ==
    ASSUME NEW page \in Nat
    PROVE  Guard(page) = [n \in {page} |-> GuardEntry(page)]
<1>1. Slot(page, page) = page
  BY SlotIsPage DEF MaxEntries
<1> QED
  BY <1>1 DEF Guard

\* What a region writes.
LEMMA MapRegionWrites ==
    ASSUME NEW r \in Region, MapRegion(r)
    PROVE  /\ DOMAIN p2' = PagesOf(r) \cup GuardsOf(r) \cup DOMAIN p2
           /\ \A n \in PagesOf(r) : p2'[n] = RegionEntry(r, n)
           /\ \A n \in GuardsOf(r) : p2'[n] = GuardEntry(n)
           /\ \A n \in DOMAIN p2 : n \notin PagesOf(r) \cup GuardsOf(r) => p2'[n] = p2[n]
<1> DEFINE after == First[r] + Pages[r]
           guards == IF r = "bootstrap" THEN {} ELSE {First[r] - 1}
           before == IF r = "bootstrap" THEN p2 ELSE Write(Guard(First[r] - 1), p2)
<1>1. /\ First[r] \in Nat /\ Pages[r] \in 1 .. 128 /\ after \in Nat /\ after \in Page
      /\ First[r] = 0 <=> r = "bootstrap"
  BY Layout DEF Page, MaxEntries
<1>2. GuardsOf(r) = {after} \cup guards
  <2>1. CASE r = "bootstrap"
    <3>1. First[r] - 1 \notin Page
      BY <1>1, <2>1 DEF Page
    <3> QED
      BY <1>1, <2>1, <3>1 DEF GuardsOf
  <2>2. CASE r # "bootstrap"
    <3>1. First[r] - 1 \in Page
      BY <2>2, Layout
    <3> QED
      BY <1>1, <2>2, <3>1 DEF GuardsOf
  <2> QED
    BY <2>1, <2>2
<1>3. Guard(after) = [n \in {after} |-> GuardEntry(after)]
  BY <1>1, GuardIs
<1>4. /\ DOMAIN before = guards \cup DOMAIN p2
      /\ \A n \in DOMAIN before : before[n] = IF n \in guards THEN GuardEntry(n) ELSE p2[n]
  <2>1. CASE r = "bootstrap"
    BY <2>1
  <2>2. CASE r # "bootstrap"
    <3>1. First[r] - 1 \in Nat
      BY <1>1, <2>2
    <3>2. Guard(First[r] - 1) = [n \in {First[r] - 1} |-> GuardEntry(First[r] - 1)]
      BY <3>1, GuardIs
    <3> QED
      BY <2>2, <3>2 DEF Write
  <2> QED
    BY <2>1, <2>2
<1>5. p2' = Write(Guard(after), Write(Map(r), before))
  BY DEF MapRegion
<1>6. Map(r) = [n \in PagesOf(r) |-> RegionEntry(r, n)]
  BY MapIs
<1>7. PagesOf(r) \cap GuardsOf(r) = {}
  BY PagesNotGuards
<1> HIDE DEF after, before, guards
<1>8. p2' = [n \in {after} \cup PagesOf(r) \cup guards \cup DOMAIN p2 |->
               IF n = after THEN GuardEntry(n) ELSE IF n \in PagesOf(r) THEN RegionEntry(r, n)
               ELSE IF n \in guards THEN GuardEntry(n) ELSE p2[n]]
  BY <1>3, <1>4, <1>5, <1>6 DEF Write
<1> QED
  BY <1>2, <1>7, <1>8

\* A region is mapped and guarded.
Mapped(r) ==
    /\ \A n \in PagesOf(r) : n \in DOMAIN p2 /\ p2[n] = RegionEntry(r, n)
    /\ \A n \in GuardsOf(r) : n \in DOMAIN p2 /\ p2[n] = GuardEntry(n)

\* The calls so far have mapped their regions, and nothing else is writeable.
PagingInv ==
    /\ \A k \in 1 .. Len(Calls) : k < call /\ Calls[k] \in Region => Mapped(Calls[k])
    /\ call > 1 => \A n \in DOMAIN p2 : p2[n].writeable => \E r \in Region : n \in PagesOf(r)

LEMMA GuardRights ==
    ASSUME NEW n
    PROVE  /\ GuardEntry(n).writeable = FALSE /\ GuardEntry(n).user = FALSE
           /\ GuardEntry(n).no_execute = TRUE
  BY DEF GuardEntry, Entry

LEMMA CallsAre ==
    /\ Len(Calls) = 9 /\ Calls[1] = "set_up_page_tables"
    /\ \A r \in Region : \E k \in 2 .. 7 : Calls[k] = r
    /\ \A k, l \in 1 .. 9 : Calls[k] = Calls[l] => k = l
    /\ \A k \in 1 .. 9 : Calls[k] \in Region <=> k \in 2 .. 7
  BY DEF Calls, Region

LEMMA MapOnePaging ==
    ASSUME TssInv, PagingInv, NEW r \in Region, CallOf(r), MapRegion(r)
    PROVE  PagingInv'
<1>1. /\ call \in 1 .. 9 /\ Calls[call] = r /\ call' = call + 1 /\ call > 1
  BY CallsAre DEF CallOf, TssInv, Region
<1>2. Mapped(r)'
  BY MapRegionWrites DEF Mapped
<1>3. ASSUME NEW k \in 1 .. 9, k < call, Calls[k] \in Region PROVE Mapped(Calls[k])'
  <2> DEFINE s == Calls[k]
  <2>1. s \in Region /\ s # r /\ Mapped(s)
    BY <1>1, <1>3, CallsAre DEF PagingInv
  <2> HIDE DEF s
  <2>2. \A n \in PagesOf(s) \cup GuardsOf(s) : n \in DOMAIN p2 /\ n \notin PagesOf(r) \cup GuardsOf(r)
    BY <2>1, RegionsApart DEF Mapped
  <2>3. \A n \in PagesOf(s) \cup GuardsOf(s) : n \in DOMAIN p2' /\ p2'[n] = p2[n]
    BY <2>2, MapRegionWrites
  <2>4. Mapped(s)'
    BY <2>1, <2>3 DEF Mapped
  <2> QED
    BY <2>4 DEF s
<1>4. ASSUME NEW n \in DOMAIN p2', p2'[n].writeable PROVE \E s \in Region : n \in PagesOf(s)
  <2>1. CASE n \in PagesOf(r)
    BY <2>1
  <2>2. CASE n \in GuardsOf(r)
    <3>1. p2'[n] = GuardEntry(n)
      BY <2>2, MapRegionWrites
    <3> QED
      BY <1>4, <3>1, GuardRights, Zenon
  <2>3. CASE n \notin PagesOf(r) \cup GuardsOf(r)
    BY <1>1, <1>4, <2>3, MapRegionWrites DEF PagingInv
  <2> QED
    BY <2>1, <2>2, <2>3
<1>5. \A k \in 1 .. 9 : k < call' /\ Calls[k] \in Region => Mapped(Calls[k])'
  BY <1>1, <1>2, <1>3
<1> QED
  BY <1>1, <1>4, <1>5, CallsAre DEF PagingInv

LEMMA PagingNext == TssInv /\ PagingInv /\ [BootNext]_bootVars => PagingInv'
<1> SUFFICES ASSUME TssInv, PagingInv, [BootNext]_bootVars PROVE PagingInv'
  OBVIOUS
<1>1. CASE SetUp
  <2>1. call = 1 /\ call' = 2 /\ p2' = <<>>
    BY <1>1, CallsAre DEF SetUp, CallOf, SetUpPageTables, TssInv
  <2> QED
    BY <2>1, CallsAre DEF PagingInv
<1>2. CASE MapOne
  BY <1>2, MapOnePaging DEF MapOne
<1>3. CASE EnablePaging \/ InitTssAddr
  <2>1. PICK name \in {"enable_paging", "init_tss_addr"} : CallOf(name) /\ UNCHANGED p2
    BY <1>3 DEF EnablePaging, InitTssAddr
  <2>2. call' = call + 1 /\ call \in 8 .. 9
    BY <2>1, CallsAre DEF CallOf, TssInv, Calls
  <2>3. \A k \in 1 .. 9 : k < call' /\ Calls[k] \in Region => k < call
    BY <2>2, CallsAre
  <2> QED
    BY <2>1, <2>2, <2>3, CallsAre DEF PagingInv, Mapped
<1>4. CASE UNCHANGED <<p2, call>>
  BY <1>4 DEF PagingInv, Mapped
<1>5. SetUp \/ MapOne \/ EnablePaging \/ InitTssAddr \/ UNCHANGED <<p2, call>>
  BY DEF BootNext, HardwareStep, Main, LongModeStart, EnableMouse, MouseSilent, IdtInit,
     ParseMultiboot, ParseTag, ParseFault, EnableAndMalloc, ReadDisk, PeekFault, Refuse, ReadZip,
     FileFault, SetFrame, Search, Run, EnterUserland, RunReturns, bootVars, boot, tables
<1> QED
  BY <1>1, <1>2, <1>3, <1>4, <1>5

LEMMA GuardedRegions == TssInv /\ PagingInv => RegionsGuarded
<1> SUFFICES ASSUME TssInv, PagingInv, at # "init_long_mode" PROVE RegionsAreGuarded
  BY DEF RegionsGuarded
<1>1. \A r \in Region : Mapped(r)
  BY CallsAre DEF TssInv, PagingInv
<1>2. ASSUME NEW r \in Region, NEW n \in First[r] .. First[r] + Pages[r] - 1
      PROVE  n \in DOMAIN p2 /\ p2[n] = RegionEntry(r, n)
  BY <1>1, <1>2 DEF Mapped, PagesOf
<1>3. ASSUME NEW r \in Region, NEW n \in {First[r] - 1, First[r] + Pages[r]} \cap Page
      PROVE  n \in DOMAIN p2 /\ ~p2[n].writeable /\ ~p2[n].user /\ p2[n].no_execute
  <2>1. n \in DOMAIN p2 /\ p2[n] = GuardEntry(n)
    BY <1>1, <1>3 DEF Mapped, GuardsOf
  <2> QED
    BY <2>1, GuardRights, Zenon
<1>4. ASSUME NEW n \in DOMAIN p2, p2[n].writeable PROVE Cardinality(InRegion(n)) = 1
  <2>1. PICK r \in Region : n \in PagesOf(r)
    BY <1>4, CallsAre DEF TssInv, PagingInv
  <2>2. InRegion(n) = {r}
    BY <2>1, RegionsApart DEF InRegion, PagesOf
  <2> QED
    BY <2>2, FS_Singleton
<1> QED
  BY <1>2, <1>3, <1>4 DEF RegionsAreGuarded

\* init_long_mode: at whatever place paging is on, each region is mapped to its own
\* frames with its rights, between guard pages, and nothing else can be written.
THEOREM RegionsStayGuarded == BootSpec => []RegionsGuarded
<1>1. BootInit => TssInv /\ PagingInv
  BY TssIsLast, CallsAre DEF BootInit, TssInv, PagingInv
<1>2. TssInv /\ PagingInv /\ [BootNext]_bootVars => (TssInv /\ PagingInv)'
  BY TssNext, PagingNext
<1> QED
  BY <1>1, <1>2, GuardedRegions, PTL DEF BootSpec
-----------------------------------------------------------------------------
\* The loader has been called only where main() has called it, and the parser
\* runs only where main() waits for it.
PlacesInv ==
    /\ stack \in {"temp", "kernel"} /\ tss \in {"none", "stored", "overwritten"}
    /\ at \in {"init_long_mode", "enable_mouse", "ps2_wait", "idt_init", "multiboot", "ata_read",
               "set_frame", "search", "run_userland", "userland", "sleep", "returned", "fault"}
    /\ lpc # "idle" => at \in {"run_userland", "userland", "sleep"}
    /\ at \notin {"multiboot", "fault"} => ~parsing

LEMMA PlacesNext == PlacesInv /\ [BootNext]_bootVars => PlacesInv'
<1> SUFFICES ASSUME PlacesInv, [BootNext]_bootVars PROVE PlacesInv'
  OBVIOUS
<1> USE DEF PlacesInv
<1>1. CASE SetUp \/ MapOne \/ EnablePaging \/ InitTssAddr
  <2>1. PICK name : CallOf(name)
    BY <1>1 DEF SetUp, MapOne, EnablePaging, InitTssAddr
  <2> QED
    BY <2>1 DEF CallOf, Frame, multibootVars, loaderVars
<1>2. CASE HardwareStep \/ IdtInit \/ ReadDisk \/ Run \/ ParseTag
  <2>1. CASE ParseTag
    BY <2>1 DEF ParseTag, boot, tables, loaderVars
  <2> QED
    BY <1>2, <2>1 DEF HardwareStep, IdtInit, ReadDisk, Run, boot, tables, multibootVars, loaderVars
<1>3. CASE LongModeStart \/ EnableMouse \/ MouseSilent \/ PeekFault \/ Refuse \/ ReadZip
  BY <1>3 DEF LongModeStart, EnableMouse, MouseSilent, PeekFault, Refuse, ReadZip, Goto,
     tables, multibootVars, loaderVars
<1>7. CASE FileFault \/ SetFrame \/ Search \/ EnterUserland \/ RunReturns
  BY <1>7 DEF FileFault, SetFrame, Search, EnterUserland, RunReturns, Goto,
     tables, multibootVars, loaderVars
<1>4. CASE ParseMultiboot \/ ParseFault
  BY <1>4 DEF ParseMultiboot, ParseFault, TagFault, Goto, tables, loaderVars
<1>5. CASE EnableAndMalloc
  BY <1>5 DEF EnableAndMalloc, EndTags, Goto, tables, loaderVars
<1>6. CASE UNCHANGED bootVars
  BY <1>6 DEF bootVars, boot, tables, multibootVars, loaderVars
<1> QED
  BY <1>1, <1>2, <1>3, <1>4, <1>5, <1>6, <1>7 DEF BootNext, Main

\* No part of the boot runs before its time, and every variable keeps to its type.
THEOREM BootKeepsOrder == BootSpec => []BootOK
<1>1. BootInit => IInv /\ TssInv /\ PlacesInv
  BY InitIInv, TssIsLast DEF BootInit, TssInv, PlacesInv, NoTags, NoLoader
<1>2. IInv /\ TssInv /\ PlacesInv /\ [BootNext]_bootVars => (IInv /\ TssInv /\ PlacesInv)'
  BY NextIInv, BootTakesDiskSteps, TssNext, PlacesNext
<1>3. IInv /\ TssInv /\ PlacesInv => BootOK
  BY DEF IInv, TssInv, PlacesInv, BootOK
<1> QED
  BY <1>1, <1>2, <1>3, PTL DEF BootSpec
-----------------------------------------------------------------------------
\* How far the boot has come, counted down.
Stage ==
    IF at = "init_long_mode" THEN 9 ELSE IF at = "enable_mouse" THEN 8
    ELSE IF at = "idt_init" THEN 7 ELSE IF at = "multiboot" THEN 6 ELSE IF at = "ata_read" THEN 5
    ELSE IF at = "set_frame" THEN 4 ELSE IF at = "search" THEN 3
    ELSE IF at = "run_userland" THEN (IF lpc = "idle" THEN 2 ELSE 1) ELSE 0

\* What the disk's loops have left: Words + 3 steps at most for a sector.
DiskLeft ==
    LET read == (Sectors - sector) * (Words + 3)
    IN  IF pc = "identify" THEN read + Words + 4
        ELSE IF pc = "identify_status" THEN read + Words + 3
        ELSE IF pc = "identify_busy" THEN read + Words + 2
        ELSE IF pc = "identify_data" THEN read + Words + 1
        ELSE IF pc = "identify_words" THEN read + Words - word
        ELSE IF pc = "poll" THEN read - 1 ELSE IF pc = "words" THEN read - 2 - word
        ELSE read

\* What is left of the stage.
StageLeft ==
    IF at = "init_long_mode" THEN Len(Calls) + 1 - call
    ELSE IF at \in {"idt_init", "ata_read"} THEN DiskLeft
    ELSE IF at = "multiboot" THEN (IF travel > total THEN 0 ELSE total - travel + 1)
    ELSE IF at \in {"set_frame", "search"} THEN Len(files) + 1 - file
    ELSE IF at = "run_userland" /\ lpc = "segments" THEN Len(elf.segments) + 2 - segment
    ELSE 0

LoopsInv ==
    /\ travel \in Nat /\ total \in Nat
    /\ at \in {"set_frame", "search"} => files \in Seq(STRING) /\ file \in 1 .. Len(files) + 1
    /\ lpc = "segments" => segment \in 1 .. Len(elf.segments) + 1

LEMMA SegmentsLen == LoaderInv /\ lpc = "segments" => Len(elf.segments) \in Nat
<1> SUFFICES ASSUME LoaderInv, lpc = "segments" PROVE Len(elf.segments) \in Nat
  OBVIOUS
<1>1. elf.segments \in Seq(Segment)
  BY LoaderAssumption DEF LoaderInv
<1> QED
  BY <1>1

LEMMA TagsLoops ==
    ASSUME TagInv, LoopsInv, BootNext
    PROVE  travel' \in Nat /\ total' \in Nat
<1>1. CASE ParseMultiboot
  BY <1>1, MultibootAssumption DEF ParseMultiboot, StartTags
<1>2. CASE ParseTag
  <2>1. /\ tagSize \in 0 .. Wrap - 1 /\ travel \in Nat /\ total' = total
        /\ travel' = travel + 8 * TagUnits(tagSize)
    BY <1>2 DEF ParseTag, NextTag, TagInv, LoopsInv
  <2>2. TagUnits(tagSize) \in Nat
    BY <2>1, UnitsRound
  <2> QED
    BY <2>1, <2>2 DEF LoopsInv
<1>3. CASE EnableAndMalloc
  BY <1>3 DEF EnableAndMalloc, EndTags
<1>4. CASE UNCHANGED multibootVars
  BY <1>4 DEF LoopsInv, multibootVars
<1>5. ParseMultiboot \/ ParseTag \/ EnableAndMalloc \/ UNCHANGED multibootVars
  BY DEF BootNext, HardwareStep, Main, SetUp, MapOne, EnablePaging, InitTssAddr, CallOf,
     LongModeStart, EnableMouse, MouseSilent, IdtInit, ParseFault, TagFault, ReadDisk, PeekFault,
     Refuse, ReadZip, FileFault, SetFrame, Search, Run, EnterUserland, RunReturns
<1> QED
  BY <1>1, <1>2, <1>3, <1>4, <1>5

LEMMA FilesLoops ==
    ASSUME LoopsInv, BootNext, at' \in {"set_frame", "search"}
    PROVE  files' \in Seq(STRING) /\ file' \in 1 .. Len(files') + 1
<1> USE DEF LoopsInv
<1>1. CASE ReadZip
  <2>1. files' \in Seq(STRING) /\ file' = 1
    BY <1>1, BootAssumption DEF ReadZip
  <2>2. Len(files') \in Nat
    BY <2>1
  <2> QED
    BY <2>1, <2>2
<1>2. CASE SetFrame \/ Search
  <2>1. at \in {"set_frame", "search"} /\ files' = files
        /\ (file' \in {1, file} \/ (file <= Len(files) /\ file' = file + 1))
    BY <1>2 DEF SetFrame, Search
  <2>2. Len(files) \in Nat
    BY <2>1
  <2> QED
    BY <2>1, <2>2
<1>3. CASE UNCHANGED <<files, file, at>>
  BY <1>3
<1>4. CASE SetUp \/ MapOne \/ EnablePaging \/ InitTssAddr
  <2>1. UNCHANGED <<files, file, at>>
    BY <1>4 DEF SetUp, MapOne, EnablePaging, InitTssAddr, CallOf
  <2> QED
    BY <2>1
<1>5. ReadZip \/ SetFrame \/ Search \/ UNCHANGED <<files, file, at>>
             \/ SetUp \/ MapOne \/ EnablePaging \/ InitTssAddr
  <2>1. ASSUME FileFault PROVE FALSE
    BY <2>1 DEF FileFault, Goto
  <2> QED
    BY <2>1 DEF BootNext, HardwareStep, Main, LongModeStart, EnableMouse, MouseSilent, IdtInit,
       ParseMultiboot, ParseTag, ParseFault, EnableAndMalloc, ReadDisk, PeekFault, Refuse, Run,
       EnterUserland, RunReturns, Goto, boot
<1> QED
  BY <1>1, <1>2, <1>3, <1>4, <1>5

LEMMA SegmentLoops ==
    ASSUME LoaderInv, LoaderInv', LoopsInv, BootNext, lpc' = "segments"
    PROVE  segment' \in 1 .. Len(elf'.segments) + 1
<1>0. Len(elf'.segments) \in Nat
  <2>1. elf'.segments \in Seq(Segment)
    BY LoaderAssumption DEF LoaderInv
  <2> QED
    BY <2>1
<1>1. CASE Run
  <2>1. CASE ParseHeader
    BY <1>0, <2>1 DEF ParseHeader
  <2>2. CASE SkipSegment
    BY <1>0, <2>2 DEF SkipSegment, LoopsInv
  <2>3. CASE NoSegment \/ LoadSegment
    BY <2>3 DEF NoSegment, LoadSegment
  <2>4. CASE LoaderFault
    BY <2>4 DEF LoaderFault
  <2> QED
    BY <1>1, <2>1, <2>2, <2>3, <2>4 DEF Run, RunUserland
<1>2. CASE UNCHANGED loaderVars
  BY <1>2 DEF LoopsInv, loaderVars
<1>3. Run \/ UNCHANGED loaderVars
  BY DEF BootNext, HardwareStep, Main, SetUp, MapOne, EnablePaging, InitTssAddr, CallOf,
     LongModeStart, EnableMouse, MouseSilent, IdtInit, ParseMultiboot, ParseTag, ParseFault,
     EnableAndMalloc, ReadDisk, PeekFault, Refuse, ReadZip, FileFault, SetFrame, Search,
     EnterUserland, RunReturns
<1> QED
  BY <1>1, <1>2, <1>3

LEMMA LoopsNext == TagInv /\ LoaderInv /\ LoopsInv /\ [BootNext]_bootVars => LoopsInv'
<1> SUFFICES ASSUME TagInv, LoaderInv, LoopsInv, [BootNext]_bootVars PROVE LoopsInv'
  OBVIOUS
<1>1. CASE BootNext
  <2>1. LoaderInv'
    BY LoaderNext
  <2> QED
    BY <1>1, <2>1, TagsLoops, FilesLoops, SegmentLoops DEF LoopsInv
<1>2. CASE UNCHANGED bootVars
  BY <1>2 DEF LoopsInv, bootVars, multibootVars, loaderVars, boot
<1> QED
  BY <1>1, <1>2

\* What the sectors that are left take.
LEMMA ReadLeft ==
    ASSUME IInv
    PROVE  /\ (Sectors - sector) * (Words + 3) \in Nat
           /\ pc # "done" => /\ (Sectors - sector) * (Words + 3) >= Words + 3
                             /\ (Sectors - (sector + 1)) * (Words + 3)
                                    = ((Sectors - sector) * (Words + 3)) - (Words + 3)
<1> DEFINE n == Sectors - sector
           k == Words + 3
<1>1. n \in Nat /\ k \in Nat /\ Sectors - (sector + 1) = n - 1 /\ (pc # "done" => n # 0)
  BY DEF IInv, TypeOK, PlaceOK
<1> HIDE DEF n, k
<1>2. n * k \in Nat /\ (n # 0 => ((n - 1) * k) = (n * k) - k /\ (n - 1) * k \in Nat)
  BY <1>1
<1>3. n # 0 => n * k >= k
  BY <1>1, <1>2
<1> QED
  BY <1>1, <1>2, <1>3 DEF n, k

LEMMA DiskLeftNat == IInv => DiskLeft \in Nat
<1> SUFFICES ASSUME IInv PROVE DiskLeft \in Nat
  OBVIOUS
<1> DEFINE read == (Sectors - sector) * (Words + 3)
<1>1. read \in Nat /\ word \in 0 .. Words - 1 /\ Words \in Nat /\ (pc # "done" => read >= Words + 3)
  BY ReadLeft DEF IInv, TypeOK
<1> HIDE DEF read
<1> QED
  BY <1>1 DEF DiskLeft, read

LEMMA DiskStepLess ==
    ASSUME IInv, IdeIdentify \/ AtaRead
    PROVE  DiskLeft' < DiskLeft
<1> DEFINE read == (Sectors - sector) * (Words + 3)
           next == (Sectors - (sector + 1)) * (Words + 3)
<1>1. read \in Nat /\ word \in 0 .. Words - 1 /\ Words \in Nat
      /\ (pc # "done" => read >= Words + 3 /\ next = read - (Words + 3))
  BY ReadLeft DEF IInv, TypeOK
<1>2. CASE ReadWord /\ LastWord
  <2>1. pc = "words" /\ sector' = sector + 1 /\ pc' \in {"done", "command"}
    BY <1>2 DEF ReadWord
  <2>2. DiskLeft' = next /\ DiskLeft = read - 2 - word
    BY <2>1 DEF DiskLeft
  <2> HIDE DEF read, next
  <2> QED
    BY <1>1, <2>1, <2>2
<1>3. CASE ~(ReadWord /\ LastWord)
  <2>1. sector' = sector
    BY <1>3 DEF IdeIdentify, IdentifyCommand, IdentifyStatus, IdentifyBusy, IdentifyWait,
       IdentifyWord, AtaRead, ReadCommand, Poll, ReadWord
  <2>2. \/ pc = "identify" /\ pc' = "identify_status"
        \/ pc = "identify_status" /\ pc' \in {"identify_busy", "command"}
        \/ pc = "identify_busy" /\ pc' = "identify_data"
        \/ pc = "identify_data" /\ pc' \in {"command", "identify_words"} /\ word' = word
        \/ pc = "identify_words" /\ (pc' = "command" \/ (pc' = pc /\ word' = word + 1))
        \/ pc = "command" /\ pc' = "poll"
        \/ pc = "poll" /\ pc' = "words" /\ word' = word
        \/ pc = "words" /\ pc' = pc /\ word' = word + 1
    BY <1>3 DEF At, IdeIdentify, IdentifyCommand, IdentifyStatus, IdentifyBusy, IdentifyWait,
       IdentifyWord, AtaRead, ReadCommand, Poll, ReadWord
  <2>3. read' = read
    BY <2>1
  <2>4. pc = "identify_data" => word = 0
    BY DEF IInv, PlaceOK
  <2> HIDE DEF read, next
  <2> QED
    BY <1>1, <2>2, <2>3, <2>4 DEF DiskLeft, read
<1> QED
  BY <1>2, <1>3

StageInv == IInv /\ TssInv /\ TagInv /\ LoaderInv /\ PlacesInv /\ LoopsInv

LEMMA StageNat == StageInv => Stage \in Nat /\ StageLeft \in Nat
<1> SUFFICES ASSUME StageInv PROVE Stage \in Nat /\ StageLeft \in Nat
  OBVIOUS
<1>1. call \in 1 .. 10 /\ Len(Calls) = 9
  BY CallsAre DEF StageInv, TssInv
<1>2. DiskLeft \in Nat /\ travel \in Nat /\ total \in Nat
  BY DiskLeftNat DEF StageInv, LoopsInv
<1>3. at \in {"set_frame", "search"} => Len(files) + 1 - file \in Nat
  <2> SUFFICES ASSUME at \in {"set_frame", "search"} PROVE Len(files) + 1 - file \in Nat
    OBVIOUS
  <2>1. files \in Seq(STRING) /\ file \in 1 .. Len(files) + 1
    BY DEF StageInv, LoopsInv
  <2> QED
    BY <2>1
<1>4. lpc = "segments" => Len(elf.segments) + 2 - segment \in Nat
  BY SegmentsLen DEF StageInv, LoopsInv
<1> QED
  BY <1>1, <1>2, <1>3, <1>4 DEF Stage, StageLeft

\* A step of main() to another stage, or within one.
Advances == Stage' < Stage \/ (Stage' = Stage /\ StageLeft' < StageLeft) \/ TagStays

LEMMA CallAdvances ==
    ASSUME StageInv, SetUp \/ MapOne \/ EnablePaging \/ InitTssAddr
    PROVE  Advances
<1>1. PICK name : CallOf(name)
  BY DEF SetUp, MapOne, EnablePaging, InitTssAddr
<1>2. at = "init_long_mode" /\ at' = at /\ call' = call + 1
  BY <1>1 DEF CallOf
<1>3. call \in Nat /\ Len(Calls) = 9
  BY CallsAre DEF StageInv, TssInv
<1> QED
  BY <1>2, <1>3 DEF Advances, Stage, StageLeft

LEMMA DiskAdvances ==
    ASSUME StageInv, IdtInit \/ ReadDisk
    PROVE  Advances
<1>1. at \in {"idt_init", "ata_read"} /\ at' = at
  BY DEF IdtInit, ReadDisk, boot
<1>2. DiskLeft' < DiskLeft
  BY DiskStepLess DEF IdtInit, ReadDisk, StageInv
<1> QED
  BY <1>1, <1>2 DEF Advances, Stage, StageLeft

LEMMA TagAdvances ==
    ASSUME StageInv, ParseTag
    PROVE  Advances
<1>1. at = "multiboot" /\ at' = at /\ parsing
  BY DEF ParseTag, NextTag, boot
<1>2. /\ travel \in Nat /\ total \in Nat /\ tagSize \in 0 .. Wrap - 1 /\ travel <= total
      /\ travel' = travel + 8 * TagUnits(tagSize) /\ total' = total
  BY DEF ParseTag, NextTag, LastTag, StageInv, LoopsInv, TagInv
<1>3. CASE TagUnits(tagSize) # 0
  <2> DEFINE units == 8 * TagUnits(tagSize)
  <2>1. units \in Nat \ {0}
    BY <1>2, <1>3, UnitsRound
  <2>2. travel' = travel + units
    BY <1>2
  <2> HIDE DEF units
  <2>3. Stage' = Stage /\ StageLeft' < StageLeft
    BY <1>1, <1>2, <2>1, <2>2 DEF Stage, StageLeft
  <2> QED
    BY <2>3 DEF Advances
<1>4. CASE TagUnits(tagSize) = 0
  BY <1>1, <1>2, <1>4, UnitsRound DEF Advances, TagStays
<1> QED
  BY <1>3, <1>4

LEMMA FileAdvances ==
    ASSUME StageInv, SetFrame \/ Search
    PROVE  Advances
<1>1. at \in {"set_frame", "search"} /\ files' = files
  BY DEF SetFrame, Search
<1>2. files \in Seq(STRING) /\ file \in 1 .. Len(files) + 1
  BY <1>1 DEF StageInv, LoopsInv
<1>3. Len(files) \in Nat
  BY <1>2
<1>4. CASE at' = at
  <2>1. file' = file + 1
    BY <1>4 DEF SetFrame, Search
  <2> QED
    BY <1>1, <1>2, <1>3, <1>4, <2>1 DEF Advances, Stage, StageLeft
<1>5. CASE at' # at
  BY <1>1, <1>5 DEF Advances, Stage, SetFrame, Search
<1> QED
  BY <1>4, <1>5

LEMMA LoaderAdvances ==
    ASSUME StageInv, Run
    PROVE  Advances
<1>1. at = "run_userland" /\ at' = at
  BY DEF Run, boot
<1>2. CASE ParseHeader
  <2>1. lpc = "idle" /\ lpc' # "idle"
    BY <1>2 DEF ParseHeader
  <2> QED
    BY <1>1, <2>1 DEF Advances, Stage
<1>3. CASE SkipSegment \/ NoSegment \/ LoadSegment \/ LoaderFault
  <2>1. /\ lpc = "segments" /\ segment \in 1 .. Len(elf.segments) + 1 /\ Len(elf.segments) \in Nat
        /\ elf' = elf
    BY <1>3, SegmentsLen
    DEF StageInv, LoopsInv, SkipSegment, NoSegment, LoadSegment, LoaderFault
  <2>2. \/ lpc' = "segments" /\ segment' = segment + 1
        \/ lpc' \in {"returned", "userland", "null", "fault"}
    BY <1>3, <2>1 DEF SkipSegment, NoSegment, LoadSegment, LoaderFault
  <2> QED
    BY <1>1, <2>1, <2>2 DEF Advances, Stage, StageLeft
<1> QED
  BY <1>2, <1>3 DEF Run, RunUserland

LEMMA MainAdvances == StageInv /\ Main => Advances
<1> SUFFICES ASSUME StageInv, Main PROVE Advances
  OBVIOUS
<1>1. CASE LongModeStart \/ EnableMouse \/ MouseSilent \/ ParseMultiboot \/ EnableAndMalloc
  BY <1>1 DEF LongModeStart, EnableMouse, MouseSilent, ParseMultiboot, EnableAndMalloc, Goto,
     Advances, Stage
<1>3. CASE ParseFault \/ PeekFault \/ Refuse \/ ReadZip \/ FileFault
  BY <1>3 DEF ParseFault, PeekFault, Refuse, ReadZip, FileFault, Goto, Advances, Stage
<1>2. CASE EnterUserland \/ RunReturns
  BY <1>2 DEF EnterUserland, RunReturns, Goto, Advances, Stage
<1> QED
  BY <1>1, <1>2, <1>3, CallAdvances, DiskAdvances, TagAdvances, FileAdvances, LoaderAdvances DEF Main

LEMMA HardwareKeepsStage == HardwareStep => Stage' = Stage /\ StageLeft' = StageLeft
<1> SUFFICES ASSUME HardwareStep PROVE Stage' = Stage /\ StageLeft' = StageLeft
  OBVIOUS
<1>1. UNCHANGED <<multibootVars, loaderVars, boot>> /\ UNCHANGED <<pc, word, sector>>
  BY DEF HardwareStep, Finish
<1>2. DiskLeft' = DiskLeft
  BY <1>1 DEF DiskLeft
<1> QED
  BY <1>1, <1>2 DEF Stage, StageLeft, multibootVars, loaderVars, boot, tables

\* Every step of main() brings the boot on: it reaches the next stage or leaves less
\* of this one, but for a tag that the parser does not leave; and the drive never takes it back.
BootAdvances ==
    [][/\ Stage \in Nat /\ StageLeft \in Nat
       /\ Main => \/ Stage' < Stage
                  \/ Stage' = Stage /\ StageLeft' < StageLeft
                  \/ TagStays
       /\ HardwareStep => Stage' = Stage /\ StageLeft' = StageLeft]_bootVars

\* No loop of init_long_mode, main(), ata_read, parse_multiboot_header or run_userland
\* turns for ever, for any disk, tags, archive and program, except at a tag of size 0
\* or within 7 bytes of 2^32.
THEOREM BootLoopsEnd == BootSpec => BootAdvances
<1>1. BootInit => StageInv
  BY InitIInv, TssIsLast, MultibootAssumption
  DEF BootInit, StageInv, TssInv, TagInv, LoaderInv, PlacesInv, LoopsInv, NoTags, NoLoader
<1>2. StageInv /\ [BootNext]_bootVars => StageInv'
  BY NextIInv, BootTakesDiskSteps, TssNext, TagNext, LoaderNext, PlacesNext, LoopsNext DEF StageInv
<1>3. StageInv =>
        /\ Stage \in Nat /\ StageLeft \in Nat
        /\ Main => \/ Stage' < Stage
                   \/ Stage' = Stage /\ StageLeft' < StageLeft
                   \/ TagStays
        /\ HardwareStep => Stage' = Stage /\ StageLeft' = StageLeft
  BY StageNat, MainAdvances, HardwareKeepsStage DEF Advances
<1> QED
  BY <1>1, <1>2, <1>3, PTL DEF BootSpec, BootAdvances
=============================================================================

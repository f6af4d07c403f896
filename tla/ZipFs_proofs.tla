---------------------------- MODULE ZipFs_proofs ----------------------------
(***************************************************************************)
(* The two walks of the zip archive take the same steps, for every content *)
(* of memory and every size of the buffer and of the heap.                 *)
(***************************************************************************)
EXTENDS ZipFs, SequenceTheorems, TLAPS

Walked == DOMAIN found
After(o) == o + PeekSize(found[o])

\* Sections that peek_zip walked do not overlap, and each one ends where the
\* next starts: at stop after the last one.
Chain(stop) ==
    \A o \in Walked :
        /\ found[o].kind # "bad"
        /\ After(o) <= stop
        /\ \A n \in Walked : o < n => After(o) <= n

WalkOK ==
    /\ pc = "peek" =>
        /\ Chain(cur)
        /\ \A o \in Walked : found[o].kind # "end" /\ After(o) \in Walked \cup {cur}
        /\ cur = 0 \/ 0 \in Walked
    /\ pc \in {"size", "start", "read", "use"} =>
        /\ Chain(len)
        /\ \A o \in Walked : IF found[o].kind = "end" THEN After(o) = len ELSE After(o) \in Walked
        /\ 0 \in Walked

\* What read_zip has stored when its cursor is at stop: the files before it.
Stored(stop) ==
    /\ {files[i].off : i \in DOMAIN files} = {o \in Locals : o < stop}
    /\ \A i, j \in DOMAIN files : i < j => files[i].off < files[j].off

\* The blocks of the files lie after the array.
BlocksOK ==
    /\ \A i \in DOMAIN files : Slots * PtrSize <= files[i].lo
    /\ Len(files) <= Slots => damaged = {}

ReadOK ==
    /\ pc \in {"peek", "size", "start"} => used = 0 /\ files = <<>> /\ damaged = {}
    /\ pc \in {"size", "start"} => cur = 0
    /\ pc = "read" =>
        /\ cur \in Walked
        /\ Slots * PtrSize <= used /\ used <= Slots * PtrSize + cur
        /\ Stored(cur)

IInv ==
    /\ TypeOK /\ WalkOK /\ ReadOK /\ BlocksOK
    /\ ReadSucceeds /\ FilesAreLocals
-----------------------------------------------------------------------------
\* A section takes no more of the heap than of the archive, and both walks
\* move over it alike.
LEMMA SizesAgree ==
  ASSUME NEW s \in Section
  PROVE  /\ PeekSize(s) \in Nat /\ PeekSize(s) > 0
         /\ ReadSize(s) = PeekSize(s)
         /\ Needs(s) \in Nat
         /\ s.kind # "bad" => Needs(s) <= PeekSize(s)
<1>1. /\ s.kind \in Kind /\ s.name \in Nat /\ s.extra \in Nat
      /\ s.data \in Nat /\ s.comment \in Nat
  BY ZipAssumption
<1>2. CASE s.kind = "local"
  BY <1>1, <1>2
  DEF PeekSize, ReadSize, Needs, PeekLocal, ReadLocal, Signature, FileSize
<1>3. CASE s.kind = "central"
  BY <1>1, <1>3
  DEF PeekSize, ReadSize, Needs, PeekCentral, ReadCentral, Signature
<1>4. CASE s.kind \notin {"local", "central"}
  BY <1>1, <1>4
  DEF PeekSize, ReadSize, Needs, PeekEndOf, ReadEndOf, Signature
<1>5. QED
  BY <1>2, <1>3, <1>4

LEMMA InitIInv == Init => IInv
<1> SUFFICES ASSUME Init PROVE IInv
  OBVIOUS
<1>1. Walked = {} /\ files = <<>> /\ DOMAIN files = {} /\ Len(files) = 0
  BY DEF Init, Walked
<1>2. TypeOK
  BY <1>1, ZipAssumption DEF Init, TypeOK, Walked
<1>3. QED
  BY <1>1, <1>2 DEF Init, IInv, WalkOK, Chain, ReadOK, BlocksOK, ReadSucceeds, FilesAreLocals

\* What is known of the sections walked.
LEMMA WalkedFacts ==
  ASSUME IInv
  PROVE  /\ Walked \subseteq Nat
         /\ \A o \in Walked : /\ found[o] \in Section
                              /\ After(o) \in Nat /\ o < After(o)
<1>1. \A o \in Walked : o \in Nat /\ found[o] \in Section
  BY ZipAssumption DEF IInv, TypeOK, Walked
<1>2. QED
  BY <1>1, SizesAgree DEF After

\* What a look at a new section adds.
LEMMA LookFacts ==
  ASSUME IInv, pc = "peek", cur < Reach, NEW s \in Section, Look(s)
  PROVE  /\ cur \notin Walked
         /\ Walked' = Walked \cup {cur}
         /\ found'[cur] = s
         /\ \A o \in Walked : found'[o] = found[o]
         /\ \A o \in Walked' : found'[o] \in Section /\ o \in 0 .. (Reach - 1)
<1>1. \A o \in Walked : o < cur
  BY WalkedFacts DEF IInv, WalkOK, Chain, TypeOK
<1>2. cur \notin Walked /\ cur \in 0 .. (Reach - 1)
  BY <1>1, ZipAssumption DEF IInv, TypeOK
<1>3. /\ Walked' = Walked \cup {cur} /\ found'[cur] = s
      /\ \A o \in Walked : found'[o] = found[o]
  BY <1>2 DEF Look, Walked
<1>4. \A o \in Walked : found[o] \in Section /\ o \in 0 .. (Reach - 1)
  BY DEF IInv, TypeOK, Walked
<1>5. QED
  BY <1>2, <1>3, <1>4

LEMMA NextIInv == IInv /\ [Next]_vars => IInv'
<1> SUFFICES ASSUME IInv, [Next]_vars PROVE IInv'
  OBVIOUS
<1> USE ZipAssumption
<1>1. ASSUME NEW s \in Section, PeekSection(s) PROVE IInv'
  <2>1. PICK c \in Nat : c = cur
    BY DEF IInv, TypeOK
  <2>2. /\ pc = "peek" /\ pc' = "peek" /\ s.kind \in {"local", "central"}
        /\ cur' = c + PeekSize(s) /\ c + PeekSize(s) \in Nat /\ c < c + PeekSize(s)
    BY <1>1, <2>1, SizesAgree DEF PeekSection
  <2>3. /\ c \notin Walked /\ Walked' = Walked \cup {c} /\ found'[c] = s
        /\ \A o \in Walked : found'[o] = found[o]
        /\ \A o \in Walked' : found'[o] \in Section /\ o \in 0 .. (Reach - 1)
    BY <1>1, <2>1, LookFacts DEF PeekSection
  <2>4. /\ After(c)' = c + PeekSize(s)
        /\ \A o \in Walked : After(o)' = After(o)
    BY <2>3 DEF After
  <2>5. TypeOK'
    BY <1>1, <2>2, <2>3 DEF PeekSection, IInv, TypeOK, Walked
  <2>6. WalkOK'
    <3>1. \A o \in Walked : After(o) <= c /\ o < c /\ o \in Nat /\ After(o) \in Nat
      BY <2>1, <2>2, WalkedFacts DEF IInv, WalkOK, Chain
    <3>2. \A o \in Walked' : /\ found'[o].kind \notin {"bad", "end"}
                             /\ After(o)' <= cur'
                             /\ \A n \in Walked' : o < n => After(o)' <= n
      BY <2>1, <2>2, <2>3, <2>4, <3>1 DEF IInv, WalkOK, Chain
    <3>3. \A o \in Walked' : After(o)' \in Walked' \cup {cur'}
      BY <2>1, <2>2, <2>3, <2>4 DEF IInv, WalkOK
    <3>4. 0 \in Walked'
      BY <2>1, <2>2, <2>3 DEF IInv, WalkOK
    <3>5. QED BY <2>2, <3>2, <3>3, <3>4 DEF WalkOK, Chain
  <2>7. QED
    BY <1>1, <2>2, <2>5, <2>6
    DEF PeekSection, IInv, ReadOK, BlocksOK, ReadSucceeds, FilesAreLocals
<1>2. ASSUME NEW s \in Section, PeekEnd(s) PROVE IInv'
  <2>1. PICK c \in Nat : c = cur
    BY DEF IInv, TypeOK
  <2>2. /\ pc = "peek" /\ pc' = "size" /\ s.kind = "end" /\ cur' = 0
        /\ len' = c + PeekSize(s) /\ c + PeekSize(s) \in Nat /\ c < c + PeekSize(s)
    BY <1>2, <2>1, SizesAgree DEF PeekEnd
  <2>3. /\ c \notin Walked /\ Walked' = Walked \cup {c} /\ found'[c] = s
        /\ \A o \in Walked : found'[o] = found[o]
        /\ \A o \in Walked' : found'[o] \in Section /\ o \in 0 .. (Reach - 1)
    BY <1>2, <2>1, LookFacts DEF PeekEnd
  <2>4. /\ After(c)' = c + PeekSize(s)
        /\ \A o \in Walked : After(o)' = After(o)
    BY <2>3 DEF After
  <2>5. TypeOK'
    <3>1. cur' \in Nat /\ len' \in Nat
      BY <2>2
    <3>2. /\ DOMAIN found' \subseteq 0 .. (Reach - 1)
          /\ \A o \in DOMAIN found' : found'[o] \in Section
      BY <2>3 DEF Walked
    <3>3. QED BY <1>2, <2>2, <3>1, <3>2 DEF PeekEnd, IInv, TypeOK
  <2>6. WalkOK'
    <3>1. \A o \in Walked : After(o) <= c /\ o < c /\ o \in Nat /\ After(o) \in Nat
      BY <2>1, <2>2, WalkedFacts DEF IInv, WalkOK, Chain
    <3>2. \A o \in Walked' : /\ found'[o].kind # "bad"
                             /\ After(o)' <= len'
                             /\ \A n \in Walked' : o < n => After(o)' <= n
      BY <2>1, <2>2, <2>3, <2>4, <3>1 DEF IInv, WalkOK, Chain
    <3>3. \A o \in Walked' : IF found'[o].kind = "end" THEN After(o)' = len'
                                                     ELSE After(o)' \in Walked'
      BY <2>1, <2>2, <2>3, <2>4 DEF IInv, WalkOK
    <3>4. 0 \in Walked'
      BY <2>1, <2>2, <2>3 DEF IInv, WalkOK
    <3>5. QED BY <2>2, <3>2, <3>3, <3>4 DEF WalkOK, Chain
  <2>7. QED
    BY <1>2, <2>2, <2>5, <2>6
    DEF PeekEnd, IInv, ReadOK, BlocksOK, ReadSucceeds, FilesAreLocals
<1>3. CASE PeekBad \/ PeekFault
  BY <1>3 DEF PeekBad, PeekFault, IInv, TypeOK, WalkOK, ReadOK, BlocksOK, ReadSucceeds,
     FilesAreLocals
<1>4. CASE TestSize
  BY <1>4 DEF TestSize, TooLarge, IInv, TypeOK, WalkOK, Chain, After, Walked, ReadOK, BlocksOK,
     ReadSucceeds, FilesAreLocals
<1>5. CASE StartRead
  <2>1. /\ pc = "start" /\ cur = 0 /\ used = 0 /\ files = <<>> /\ damaged = {}
        /\ 0 \in Walked /\ len < FsbufSize /\ Slots * PtrSize \in Nat
    BY <1>5 DEF StartRead, IInv, TypeOK, WalkOK, ReadOK, PtrSize
  <2>2. UNCHANGED <<found, free, cur, len, files, damaged>>
    BY <1>5 DEF StartRead
  <2>3. CASE Fits(Slots * PtrSize)
    <3>1. pc' = "read" /\ used' = Slots * PtrSize
      BY <1>5, <2>3 DEF StartRead
    <3>2. TypeOK'
      BY <2>1, <2>2, <3>1 DEF IInv, TypeOK
    <3>3. WalkOK'
      BY <2>1, <2>2, <3>1 DEF IInv, WalkOK, Chain, After, Walked
    <3>4. ReadOK'
      <4>1. \A o \in Walked : ~(o < 0)
        BY WalkedFacts
      <4>2. Stored(0)
        BY <2>1, <4>1 DEF Stored, Locals, Walked
      <4>3. Stored(cur)'
        BY <2>1, <2>2, <4>2 DEF Stored, Locals
      <4>4. QED BY <2>1, <2>2, <3>1, <4>3 DEF ReadOK, Walked
    <3>5. QED
      BY <2>1, <2>2, <3>1, <3>2, <3>3, <3>4 DEF IInv, BlocksOK, ReadSucceeds, FilesAreLocals
  <2>4. CASE ~Fits(Slots * PtrSize)
    <3>1. pc' = "failed" /\ used' = used
      BY <1>5, <2>4 DEF StartRead
    <3>2. ReadSucceeds'
      BY <2>1, <2>2, <2>4 DEF IInv, TypeOK, Fits, ReadSucceeds, PtrSize
    <3>3. QED
      BY <2>1, <2>2, <3>1, <3>2 DEF IInv, TypeOK, WalkOK, ReadOK, BlocksOK, FilesAreLocals
  <2>5. QED BY <2>3, <2>4
<1>6. ASSUME NEW s \in Section, ReadFile(s) \/ ReadDirectory(s) PROVE IInv'
  <2>1. PICK c \in Walked : c = cur
    BY <1>6 DEF ReadFile, ReadDirectory, Finds, IInv, ReadOK
  <2>2. /\ pc = "read" /\ pc' = "read" /\ s = found[c] /\ s.kind \in {"local", "central"}
        /\ cur' = c + ReadSize(s) /\ used' = used + Needs(s)
        /\ UNCHANGED <<found, free, len>>
    BY <1>6, <2>1 DEF ReadFile, ReadDirectory, Finds, Advance, Walked
  <2>3. /\ c \in Nat /\ After(c) \in Walked /\ After(c) \in Nat /\ c < After(c)
        /\ cur' = After(c) /\ Needs(s) \in Nat /\ c + Needs(s) <= After(c)
        /\ used \in Nat /\ len < FsbufSize
        /\ Slots * PtrSize <= used /\ used <= Slots * PtrSize + c
        /\ Slots * PtrSize \in Nat
    <3>1. After(c) = c + PeekSize(s) /\ PeekSize(s) = ReadSize(s) /\ c \in Nat
      BY <2>1, <2>2, SizesAgree, WalkedFacts DEF After
    <3>2. After(c) \in Walked
      BY <2>1, <2>2 DEF IInv, WalkOK
    <3>3. /\ used \in Nat /\ len < FsbufSize /\ Slots * PtrSize \in Nat
          /\ Slots * PtrSize <= used /\ used <= Slots * PtrSize + c
      BY <2>1, <2>2 DEF IInv, TypeOK, ReadOK, PtrSize
    <3>4. Needs(s) \in Nat /\ Needs(s) <= PeekSize(s) /\ PeekSize(s) \in Nat /\ PeekSize(s) > 0
      BY <2>2, SizesAgree
    <3>5. After(c) \in Nat /\ c < After(c) /\ c + Needs(s) <= After(c) /\ cur' = After(c)
      BY <2>2, <3>1, <3>4
    <3>6. QED BY <3>1, <3>2, <3>3, <3>4, <3>5
  <2>4. \A o \in Walked : o < After(c) <=> o < c \/ o = c
    <3>1. \A o \in Walked : c < o => After(c) <= o
      BY <2>1, <2>2 DEF IInv, WalkOK, Chain
    <3>2. \A o \in Walked : o \in Nat
      BY WalkedFacts
    <3>3. c \in Nat /\ After(c) \in Nat /\ c < After(c)
      BY <2>3
    <3> HIDE DEF After
    <3>4. QED BY <3>1, <3>2, <3>3
  <2>5. WalkOK'
    BY <2>2 DEF IInv, WalkOK, Chain, After, Walked
  <2>10. PICK a \in Nat : a = After(c)
    BY <2>3
  <2>6. CASE ReadDirectory(s)
    <3>1. s.kind = "central" /\ UNCHANGED <<files, damaged>>
      BY <2>6 DEF ReadDirectory
    <3>2. Stored(a)
      BY <2>1, <2>10, <2>2, <2>4, <3>1 DEF IInv, ReadOK, Stored, Locals, Walked
    <3>3. Stored(cur)'
      BY <2>2, <2>3, <2>10, <3>1, <3>2 DEF Stored, Locals
    <3>4. TypeOK'
      <4>1. cur' \in Nat /\ used' \in Nat
        BY <2>2, <2>3
      <4>2. QED BY <2>2, <2>3, <3>1, <4>1 DEF IInv, TypeOK
    <3>5. ReadOK'
      BY <2>2, <2>3, <3>3 DEF ReadOK, Walked
    <3>6. QED
      BY <2>2, <2>5, <3>1, <3>4, <3>5 DEF IInv, BlocksOK, ReadSucceeds, FilesAreLocals
  <2>7. CASE ReadFile(s)
    <3> DEFINE f == [off |-> c, lo |-> used, hi |-> used + Needs(s)]
    <3>1. /\ s.kind = "local" /\ files' = Append(files, f)
          /\ damaged' = damaged \cup
               {i \in 1 .. Len(files') : Bytes(files'[i]) \cap SlotBytes(Len(files)) # {}}
      BY <2>1, <2>7 DEF ReadFile
    <3>2. f \in [off : Nat, lo : Nat, hi : Nat] /\ f.off = c /\ f.lo = used
      BY <2>3
    <3> HIDE DEF f
    <3>3. /\ files \in Seq([off : Nat, lo : Nat, hi : Nat]) /\ Len(files) \in Nat
          /\ DOMAIN files = 1 .. Len(files)
      BY DEF IInv, TypeOK
    <3>4. /\ files' \in Seq([off : Nat, lo : Nat, hi : Nat])
          /\ Len(files') = Len(files) + 1
          /\ DOMAIN files' = 1 .. (Len(files) + 1)
          /\ files'[Len(files) + 1] = f
          /\ \A i \in 1 .. Len(files) : files'[i] = files[i]
      BY <3>1, <3>2, <3>3, AppendProperties
    <3>5. TypeOK'
      <4>1. damaged' \subseteq 1 .. Len(files')
        <5>1. damaged \subseteq 1 .. Len(files)
          BY DEF IInv, TypeOK
        <5>2. 1 .. Len(files) \subseteq 1 .. Len(files')
          BY <3>3, <3>4
        <5>3. QED BY <3>1, <5>1, <5>2
      <4>2. cur' \in Nat /\ used' \in Nat
        BY <2>2, <2>3
      <4>3. QED BY <2>2, <2>3, <3>4, <4>1, <4>2 DEF IInv, TypeOK
    <3>6. \A i \in DOMAIN files' : i \in DOMAIN files \/ i = Len(files) + 1
      BY <3>3, <3>4
    <3>7. \A i \in DOMAIN files : i \in DOMAIN files' /\ i < Len(files) + 1
      BY <3>3, <3>4
    <3>8. Stored(a)'
      <4>1. Locals' = Locals /\ c \in Locals
        BY <2>1, <2>2, <3>1 DEF Locals, Walked
      <4>2. {o \in Locals : o < a} = {o \in Locals : o < c} \cup {c}
        BY <2>4, <2>10, <4>1 DEF Locals, Walked
      <4>3. /\ {files[i].off : i \in DOMAIN files} = {o \in Locals : o < c}
            /\ \A i, j \in DOMAIN files : i < j => files[i].off < files[j].off
        BY <2>1, <2>2 DEF IInv, ReadOK, Stored
      <4>4. \A i \in DOMAIN files : files'[i].off = files[i].off /\ files[i].off < c
        BY <3>3, <3>4, <4>3
      <4>5. files'[Len(files) + 1].off = c /\ Len(files) + 1 \in DOMAIN files'
        BY <3>2, <3>3, <3>4
      <4>6. {files'[i].off : i \in DOMAIN files'} = {files[i].off : i \in DOMAIN files} \cup {c}
        BY <3>6, <3>7, <4>4, <4>5, Zenon
      <4>7. ASSUME NEW i \in DOMAIN files', NEW j \in DOMAIN files', i < j
            PROVE  files'[i].off < files'[j].off
        <5>1. i \in DOMAIN files
          BY <3>3, <3>4, <4>7
        <5>2. CASE j \in DOMAIN files
          BY <4>3, <4>4, <4>7, <5>1, <5>2
        <5>3. CASE j = Len(files) + 1
          BY <4>4, <4>5, <5>1, <5>3
        <5>4. QED BY <3>6, <5>2, <5>3
      <4>8. QED BY <4>1, <4>2, <4>3, <4>6, <4>7 DEF Stored
    <3>9. BlocksOK'
      <4>1. \A i \in DOMAIN files : /\ Slots * PtrSize <= files[i].lo /\ files[i].lo \in Nat
                                     /\ files'[i] = files[i]
        <5>1. \A i \in DOMAIN files : files'[i] = files[i]
          BY <3>3, <3>4
        <5>2. \A i \in DOMAIN files : Slots * PtrSize <= files[i].lo
          BY DEF IInv, BlocksOK
        <5>3. \A i \in 1 .. Len(files) : files[i] \in [off : Nat, lo : Nat, hi : Nat]
          BY <3>3, ElementOfSeq
        <5>4. QED BY <3>3, <5>1, <5>2, <5>3
      <4>2. \A i \in DOMAIN files' : Slots * PtrSize <= files'[i].lo /\ files'[i].lo \in Nat
        BY <2>3, <3>2, <3>4, <3>6, <4>1
      <4>3. ASSUME Len(files') <= Slots PROVE damaged' = {}
        <5>1. damaged = {} /\ Len(files) + 1 <= Slots
          BY <3>3, <3>4, <4>3 DEF IInv, BlocksOK
        <5>2. \A b \in SlotBytes(Len(files)) : b \in Int /\ b < Slots * PtrSize
          BY <3>3, <5>1 DEF SlotBytes, PtrSize
        <5>3. \A i \in DOMAIN files' : \A b \in Bytes(files'[i]) : b \in Int /\ Slots * PtrSize <= b
          <6>1. TAKE i \in DOMAIN files'
          <6>2. i \in 1 .. Len(files')
            BY <3>4
          <6>3. files'[i] \in [off : Nat, lo : Nat, hi : Nat]
            BY <3>4, <6>2, ElementOfSeq
          <6>4. /\ files'[i].lo \in Nat /\ files'[i].hi \in Nat
                /\ Slots * PtrSize <= files'[i].lo /\ Slots * PtrSize \in Nat
            BY <2>3, <4>2, <6>3
          <6>5. QED BY <6>4 DEF Bytes
        <5>4. \A b \in Int : ~(b < Slots * PtrSize /\ Slots * PtrSize <= b)
          BY <2>3
        <5>5. \A i \in DOMAIN files' : Bytes(files'[i]) \cap SlotBytes(Len(files)) = {}
          BY <5>2, <5>3, <5>4, Zenon
        <5>6. DOMAIN files' = 1 .. Len(files')
          BY <3>4
        <5>7. QED BY <3>1, <5>1, <5>5, <5>6
      <4>4. QED BY <4>2, <4>3 DEF BlocksOK
    <3>10. Stored(cur)'
      BY <2>2, <2>3, <2>10, <3>8 DEF Stored
    <3>11. ReadOK'
      BY <2>2, <2>3, <3>10 DEF ReadOK, Walked
    <3>12. QED
      BY <2>2, <2>5, <3>5, <3>9, <3>11 DEF IInv, ReadSucceeds, FilesAreLocals
  <2>8. QED BY <1>6, <2>6, <2>7
<1>7. ASSUME NEW s \in Section, ReadEnd(s) PROVE IInv'
  <2>1. PICK c \in Walked : c = cur /\ c < len
    <3>1. cur \in Walked /\ Chain(len)
      BY <1>7 DEF ReadEnd, Finds, IInv, ReadOK, WalkOK
    <3>2. cur < After(cur) /\ After(cur) <= len /\ cur \in Nat /\ After(cur) \in Nat
      BY <3>1, WalkedFacts DEF Chain
    <3>3. QED BY <3>1, <3>2 DEF IInv, TypeOK
  <2>2. /\ pc = "read" /\ pc' = "use" /\ s = found[c] /\ s.kind = "end"
        /\ used' = used + Needs(s) /\ cur' = cur + ReadSize(s)
        /\ UNCHANGED <<found, free, len, files, damaged>>
    BY <1>7, <2>1 DEF ReadEnd, Finds, Advance, Walked, IInv, TypeOK
  <2>3. TypeOK'
    <3>1. cur' \in Nat /\ used' \in Nat
      <4>1. cur \in Nat /\ used \in Nat
        BY DEF IInv, TypeOK
      <4>2. Needs(s) \in Nat /\ ReadSize(s) \in Nat
        BY SizesAgree
      <4>3. QED BY <2>2, <4>1, <4>2
    <3>2. QED BY <2>2, <3>1 DEF IInv, TypeOK
  <2>4. WalkOK'
    BY <2>2 DEF IInv, WalkOK, Chain, After, Walked
  <2>5. FilesAreLocals'
    <3>1. After(c) = len
      BY <2>1, <2>2 DEF IInv, WalkOK
    <3>2. \A o \in Walked : o <= c
      BY <2>1, <2>2, <3>1, WalkedFacts DEF IInv, WalkOK, Chain
    <3>3. c \notin Locals
      BY <2>2 DEF Locals
    <3>4. Locals = {o \in Locals : o < c}
      BY <2>1, <3>2, <3>3, WalkedFacts DEF Locals, Walked
    <3>5. Stored(c)
      BY <2>1, <2>2 DEF IInv, ReadOK, Stored
    <3>6. QED BY <2>2, <3>4, <3>5 DEF Stored, FilesAreLocals, Locals, IInv, BlocksOK
  <2>6. QED BY <2>2, <2>3, <2>4, <2>5 DEF IInv, ReadOK, BlocksOK, ReadSucceeds
<1>8. ASSUME NEW s \in Section, ReadFails(s) PROVE IInv'
  <2>1. PICK c \in Walked : c = cur
    BY <1>8 DEF ReadFails, Finds, IInv, ReadOK
  <2>2. /\ pc = "read" /\ pc' = "failed" /\ s = found[c]
        /\ s.kind = "bad" \/ ~Fits(Needs(s))
        /\ UNCHANGED <<found, free, cur, len, used, files, damaged>>
    BY <1>8, <2>1 DEF ReadFails, Finds, Walked
  <2>3. s.kind # "bad" /\ After(c) <= len /\ After(c) = c + PeekSize(s) /\ c \in Nat
    BY <2>1, <2>2, WalkedFacts DEF IInv, WalkOK, Chain, After
  <2>4. free <= used + Needs(s) /\ Needs(s) \in Nat /\ Needs(s) <= PeekSize(s)
          /\ PeekSize(s) \in Nat
    BY <2>2, <2>3, SizesAgree DEF Fits, IInv, TypeOK
  <2>5. /\ used <= Slots * PtrSize + c /\ len < FsbufSize /\ Slots * PtrSize \in Nat
        /\ used \in Nat /\ len \in Nat /\ free \in Nat
    BY <2>1, <2>2 DEF IInv, TypeOK, ReadOK, PtrSize
  <2>6. free < Slots * PtrSize + FsbufSize
    BY <2>3, <2>4, <2>5
  <2>7. QED
    BY <2>2, <2>6 DEF IInv, TypeOK, WalkOK, ReadOK, BlocksOK, ReadSucceeds, FilesAreLocals
<1>9. CASE UNCHANGED vars
  <2>1. UNCHANGED <<found, free, pc, cur, len, used, files, damaged>>
    BY <1>9 DEF vars
  <2>2. TypeOK' /\ WalkOK'
    BY <2>1 DEF IInv, TypeOK, WalkOK, Chain, After, Walked
  <2>3. ReadOK'
    BY <2>1 DEF IInv, ReadOK, Stored, Locals, Walked
  <2>4. BlocksOK'
    BY <2>1 DEF IInv, BlocksOK
  <2>5. ReadSucceeds' /\ FilesAreLocals'
    BY <2>1 DEF IInv, ReadSucceeds, FilesAreLocals, Locals
  <2>6. QED BY <2>2, <2>3, <2>4, <2>5 DEF IInv
<1>10. QED
  BY <1>1, <1>2, <1>3, <1>4, <1>5, <1>6, <1>7, <1>8, <1>9 DEF Next, Peek, Read
-----------------------------------------------------------------------------
\* The invariant of the two walks holds in every reachable state.
THEOREM ZipInvariant == Spec => []IInv
<1>1. Init => IInv
  BY InitIInv
<1>2. IInv /\ [Next]_vars => IInv'
  BY NextIInv
<1>3. QED
  BY <1>1, <1>2, PTL DEF Spec

\* Type correctness; what main() lets pass is shorter than fsbuf.
THEOREM ZipTypeCorrect == Spec => []TypeOK
  BY ZipInvariant, PTL DEF IInv

\* read_zip starts every section where peek_zip found one, and stays inside the
\* part of fsbuf that main() accepted.
THEOREM ReadIsInsideFsbuf == Spec => []ReadFollowsPeek
<1>1. IInv => ReadFollowsPeek
  <2> SUFFICES ASSUME IInv, pc = "read"
               PROVE  cur \in DOMAIN found /\ cur + ReadSize(found[cur]) <= len
    BY DEF ReadFollowsPeek
  <2>1. cur \in Walked /\ After(cur) <= len
    BY DEF IInv, ReadOK, WalkOK, Chain
  <2>2. ReadSize(found[cur]) = PeekSize(found[cur])
    BY <2>1, WalkedFacts, SizesAgree
  <2>3. QED BY <2>1, <2>2 DEF After, Walked
<1>2. QED
  BY <1>1, ZipInvariant, PTL

\* Whatever archive main() accepts, read_zip reads to its end, given heap for
\* the array and for fsbuf_size bytes.
THEOREM AcceptedArchivesAreRead == Spec => []ReadSucceeds
  BY ZipInvariant, PTL DEF IInv

\* main() sees exactly the files of the archive, in order, and intact up to
\* the size of the array.
THEOREM FilesAreFaithful == Spec => []FilesAreLocals
  BY ZipInvariant, PTL DEF IInv
=============================================================================

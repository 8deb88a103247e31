-------------------------- MODULE SystemPackageProofs --------------------------
(***************************************************************************)
(* Proofs about SystemPackage: for every size of members, pages, chunks    *)
(* and boot images, whatever is rebuilt and wherever the run is killed, the *)
(* boot image is read exactly, an archive is accepted unless its directory *)
(* lies in the gap of ZIP64, and the licence files put together are the    *)
(* text.                                                                   *)
(***************************************************************************)
EXTENDS SystemPackage, FiniteSetTheorems, SequenceTheorems, TLAPS

----------------------------------------------------------------------------
(* The boot image                                                          *)

(* Sections are filled up to whole pages, so none is cut. *)
LEMMA PagesHold ==
  ASSUME NEW n \in Nat PROVE Pages(n) \in Nat /\ Pages(n) >= n
<1>1. Page \in Nat /\ Page >= 1 BY BootAssumption
<1> DEFINE m == n + Page - 1
           q == m \div Page
<1>2. m \in Nat BY <1>1
<1>3. q \in Nat /\ m = Page * q + (m % Page) /\ m % Page \in 0..(Page - 1)
  BY <1>1, <1>2, Z3
<1>4. q * Page = Page * q /\ q * Page \in Nat BY <1>1, <1>3, Z3
<1>5. Pages(n) = q * Page BY DEF Pages
<1> HIDE DEF q
<1>6. q * Page >= n BY <1>1, <1>3, <1>4
<1> QED BY <1>4, <1>5, <1>6

(* What has been read so far is exactly what lies before the offset. *)
ReadSoFar ==
  /\ boot \in [kernel : Nat \ {0}, ramdisk : {n \in Nat : n >= 3}]
  /\ offset \in Nat /\ offset <= BootLength
  /\ hashed = {b \in KernelBytes : b < offset}
  /\ magic = {b \in MagicBytes : b < offset}

(* The ramdisk begins behind the kernel, and ends before the image does. *)
LEMMA SectionsFit ==
  ASSUME boot \in [kernel : Nat \ {0}, ramdisk : {n \in Nat : n >= 3}]
  PROVE  /\ Page \in Nat /\ RamdiskAt \in Nat /\ BootLength \in Nat
         /\ boot.kernel \in Nat /\ Page + boot.kernel <= RamdiskAt
         /\ RamdiskAt + 3 <= BootLength
<1>1. boot.kernel \in Nat /\ boot.ramdisk \in Nat /\ boot.ramdisk >= 3
  OBVIOUS
<1>2. /\ Pages(boot.kernel) \in Nat /\ Pages(boot.kernel) >= boot.kernel
      /\ Pages(boot.ramdisk) \in Nat /\ Pages(boot.ramdisk) >= boot.ramdisk
  BY <1>1, PagesHold
<1> QED BY <1>1, <1>2, BootAssumption DEF RamdiskAt, BootLength

LEMMA ReadSoFarInit == Init => ReadSoFar
<1> SUFFICES ASSUME Init PROVE ReadSoFar OBVIOUS
<1>1. /\ boot = [kernel |-> 1, ramdisk |-> 3] /\ offset = 0
      /\ hashed = {} /\ magic = {}
  BY DEF Init
<1>2. boot \in [kernel : Nat \ {0}, ramdisk : {n \in Nat : n >= 3}] BY <1>1
<1>3. /\ Page \in Nat /\ RamdiskAt \in Nat /\ BootLength \in Nat
      /\ boot.kernel \in Nat
  BY <1>2, SectionsFit
<1> QED BY <1>1, <1>2, <1>3 DEF ReadSoFar, KernelBytes, MagicBytes

LEMMA ReadSoFarStep == ReadSoFar /\ [Next]_vars => ReadSoFar'
<1> SUFFICES ASSUME ReadSoFar, [Next]_vars PROVE ReadSoFar' OBVIOUS
<1>1. CASE UNCHANGED reading
  BY <1>1 DEF ReadSoFar, reading, KernelBytes, MagicBytes, BootLength, RamdiskAt
<1>2. CASE ReadHeader
  <2>1. PICK b \in Boots : boot' = b /\ offset' = 0 /\ hashed' = {} /\ magic' = {}
    BY <1>2 DEF ReadHeader
  <2>2. boot' \in [kernel : Nat \ {0}, ramdisk : {n \in Nat : n >= 3}]
    BY <2>1, BootAssumption
  <2>3. /\ boot'.kernel \in Nat /\ boot'.ramdisk \in Nat /\ Page \in Nat
        /\ Pages(boot'.kernel) \in Nat /\ Pages(boot'.ramdisk) \in Nat
    BY <2>2, PagesHold, BootAssumption
  <2>4. RamdiskAt' \in Nat /\ BootLength' \in Nat
    BY <2>3 DEF RamdiskAt, BootLength
  <2> QED BY <2>1, <2>2, <2>3, <2>4 DEF ReadSoFar, KernelBytes, MagicBytes
<1>3. CASE ReadChunk
  <2> DEFINE to == ChunkEnd(offset)
  <2>1. /\ boot \in [kernel : Nat \ {0}, ramdisk : {n \in Nat : n >= 3}]
        /\ offset \in Nat /\ offset < BootLength
    BY <1>3 DEF ReadSoFar, ReadChunk
  <2>2. /\ Page \in Nat /\ RamdiskAt \in Nat /\ BootLength \in Nat
        /\ boot.kernel \in Nat
    BY <2>1, SectionsFit
  <2>3. to \in Nat /\ offset <= to /\ to <= BootLength
    BY <2>1, <2>2, BootAssumption DEF ChunkEnd, Smaller
  <2>4. /\ hashed' = hashed \cup Piece(offset, to, Page, Page + boot.kernel)
        /\ magic' = magic \cup Piece(offset, to, RamdiskAt, RamdiskAt + 3)
        /\ offset' = to /\ boot' = boot
    BY <1>3 DEF ReadChunk
  <2>5. ASSUME NEW first \in Nat, NEW end \in Nat
        PROVE  {b \in first..(end - 1) : b < to}
                 = {b \in first..(end - 1) : b < offset}
                     \cup Piece(offset, to, first, end)
    <3> HIDE DEF to
    <3> QED BY <2>1, <2>3 DEF Piece, Larger, Smaller
  <2>6. hashed' = {b \in KernelBytes : b < to}
    BY <2>2, <2>4, <2>5 DEF ReadSoFar, KernelBytes
  <2>7. MagicBytes = RamdiskAt..((RamdiskAt + 3) - 1)
    BY <2>2 DEF MagicBytes
  <2>8. magic' = {b \in MagicBytes : b < to}
    BY <2>2, <2>4, <2>5, <2>7 DEF ReadSoFar
  <2>9. /\ KernelBytes' = KernelBytes /\ MagicBytes' = MagicBytes
        /\ BootLength' = BootLength
    BY <2>4 DEF KernelBytes, MagicBytes, BootLength, RamdiskAt
  <2> HIDE DEF to
  <2> QED BY <2>1, <2>3, <2>4, <2>6, <2>8, <2>9 DEF ReadSoFar
<1>4. UNCHANGED reading \/ ReadHeader \/ ReadChunk
  BY DEF Next, vars, Audit, Copy, CollectNotices, SplitLicence, CheckManifest,
     AddMember, CloseArchive, CheckNames, CheckKernel, WriteHash, WriteAudit,
     Rebuild, RunDies
<1> QED BY <1>1, <1>2, <1>3, <1>4

LEMMA ReadSoFarSuffices == ReadSoFar => BootReadExactly
<1> SUFFICES ASSUME ReadSoFar, offset = BootLength
             PROVE  /\ hashed = KernelBytes /\ magic = MagicBytes
                    /\ KernelBytes \cap MagicBytes = {}
  BY DEF BootReadExactly
<1>1. /\ Page \in Nat /\ RamdiskAt \in Nat /\ BootLength \in Nat
      /\ boot.kernel \in Nat /\ Page + boot.kernel <= RamdiskAt
      /\ RamdiskAt + 3 <= BootLength
  BY SectionsFit DEF ReadSoFar
<1> QED BY <1>1 DEF ReadSoFar, KernelBytes, MagicBytes

(* For every page, chunk and length the reader hashes exactly the kernel,    *)
(* and looks for the ramdisk exactly where it begins.                        *)
THEOREM ReadsExactly == Spec => []BootReadExactly
<1>1. Init => ReadSoFar BY ReadSoFarInit
<1>2. ReadSoFar /\ [Next]_vars => ReadSoFar' BY ReadSoFarStep
<1>3. ReadSoFar => BootReadExactly BY ReadSoFarSuffices
<1> QED BY <1>1, <1>2, <1>3, PTL DEF Spec
----------------------------------------------------------------------------
(* The archive                                                             *)

Entry == [name : {Members[i] : i \in 1..Len(Members)}, size : Nat,
          packed : Nat, at : Nat, extra : Seq(Nat)]

(* Every member is found where it was written, in front of the directory. *)
Findable ==
  /\ data \in Nat /\ directory \in Nat
  /\ entries \in Seq([listed : Entry, at : Nat])
  /\ \A i \in DOMAIN entries : /\ entries[i].at < data
                               /\ LocalAt(entries[i].listed) = entries[i].at

(* The reader skips as many lengths as zipfile has put before an offset. *)
LEMMA ListedFound ==
  ASSUME data \in Nat, NEW i \in 1..Len(Members),
         NEW size \in Nat, NEW packed \in Nat
  PROVE  LET e == Listed(Members[i], size, packed)
         IN  e \in Entry /\ LocalAt(e) = data
<1> DEFINE e == Listed(Members[i], size, packed)
           large == size > Small \/ packed > Small
           far == data > Small
<1>1. Small \in Nat /\ Sentinel \in Nat /\ Small < Sentinel
  BY ArchiveAssumption
<1>2. /\ e.name = Members[i]
      /\ e.size = (IF large THEN Sentinel ELSE size)
      /\ e.packed = (IF large THEN Sentinel ELSE packed)
      /\ e.at = (IF far THEN Sentinel ELSE data)
      /\ e.extra = (IF large THEN <<size, packed>> ELSE <<>>)
                     \o (IF far THEN <<data>> ELSE <<>>)
  BY DEF Listed
<1>3. e.extra \in Seq(Nat)
  <2>1. (IF large THEN <<size, packed>> ELSE <<>>) \in Seq(Nat) OBVIOUS
  <2>2. (IF far THEN <<data>> ELSE <<>>) \in Seq(Nat) OBVIOUS
  <2> HIDE DEF large, far, e
  <2> QED BY <1>2, <2>1, <2>2
<1>4. e \in Entry
  <2>1. e = [name |-> e.name, size |-> e.size, packed |-> e.packed,
             at |-> e.at, extra |-> e.extra]
    BY DEF Listed
  <2>2. e.name \in {Members[j] : j \in 1..Len(Members)} BY <1>2
  <2>3. e.size \in Nat /\ e.packed \in Nat /\ e.at \in Nat BY <1>1, <1>2
  <2> HIDE DEF e
  <2> QED BY <1>3, <2>1, <2>2, <2>3 DEF Entry
<1>5. ASSUME ~far PROVE LocalAt(e) = data
  <2>1. e.at = data /\ e.at # Sentinel BY <1>1, <1>2, <1>5
  <2> HIDE DEF e
  <2> QED BY <2>1 DEF LocalAt
<1>6. ASSUME far, large PROVE LocalAt(e) = data
  <2>1. e.extra = <<size, packed>> \o <<data>>
    <3> HIDE DEF e
    <3> QED BY <1>2, <1>6
  <2>2. e.size = Sentinel /\ e.packed = Sentinel /\ e.at = Sentinel
    BY <1>2, <1>6
  <2>3. <<size, packed>> \in Seq(Nat) /\ <<data>> \in Seq(Nat) OBVIOUS
  <2>4. Len(<<size, packed>> \o <<data>>) = 3 BY <2>3, ConcatProperties
  <2>5. (<<size, packed>> \o <<data>>)[3] = data BY <2>3, ConcatProperties
  <2> HIDE DEF e
  <2>6. Len(e.extra) = 3 /\ e.extra[3] = data BY <2>1, <2>4, <2>5
  <2> QED BY <2>2, <2>6 DEF LocalAt
<1>7. ASSUME far, ~large PROVE LocalAt(e) = data
  <2>1. e.extra = <<>> \o <<data>>
    <3> HIDE DEF e
    <3> QED BY <1>2, <1>7
  <2>2. e.size # Sentinel /\ e.packed # Sentinel /\ e.at = Sentinel
    BY <1>1, <1>2, <1>7
  <2>3. Len(<<data>>) = 1 /\ <<data>>[1] = data /\ <<>> \o <<data>> = <<data>>
    OBVIOUS
  <2> HIDE DEF e
  <2>4. Len(e.extra) = 1 /\ e.extra[1] = data BY <2>1, <2>3
  <2> QED BY <2>2, <2>4 DEF LocalAt
<1>8. LocalAt(e) = data
  <2> HIDE DEF e, far, large
  <2> QED BY <1>5, <1>6, <1>7
<1> QED BY <1>4, <1>8

LEMMA FindableInit == Init => Findable
BY DEF Init, Findable

LEMMA FindableStep == Findable /\ [Next]_vars => Findable'
<1> SUFFICES ASSUME Findable, [Next]_vars PROVE Findable' OBVIOUS
<1>1. CASE UNCHANGED archive
  BY <1>1 DEF archive, Findable
<1>2. CASE CheckNames
  BY <1>2 DEF CheckNames, Findable
<1>3. CASE AddMember
  <2>1. PICK size \in Sizes, packed \in Sizes :
          LET e == Listed(Members[Len(entries) + 1], size, packed)
          IN  /\ entries' = Append(entries, [listed |-> e, at |-> data])
              /\ data' = data + 1 + packed
              /\ directory' = directory + 1 + Len(e.extra)
    BY <1>3 DEF AddMember
  <2> DEFINE e == Listed(Members[Len(entries) + 1], size, packed)
             fields == Len(e.extra)
  <2>2. /\ data \in Nat /\ directory \in Nat /\ size \in Nat /\ packed \in Nat
        /\ entries \in Seq([listed : Entry, at : Nat])
        /\ Len(entries) + 1 \in 1..Len(Members)
    BY <1>3, ArchiveAssumption DEF Findable, AddMember
  <2>3. e \in Entry /\ LocalAt(e) = data BY <2>2, ListedFound
  <2>4. fields \in Nat
    <3> HIDE DEF e
    <3> QED BY <2>3 DEF Entry
  <2> HIDE DEF e, fields
  <2>5. entries' = Append(entries, [listed |-> e, at |-> data]) BY <2>1 DEF e
  <2>6. data' \in Nat /\ directory' \in Nat /\ data < data'
    <3>1. data' = data + 1 + packed /\ directory' = directory + 1 + fields
      BY <2>1 DEF e, fields
    <3>2. data \in Nat /\ directory \in Nat /\ packed \in Nat BY <2>2
    <3>3. data' \in Nat /\ data < data' BY <3>1, <3>2
    <3> QED BY <2>4, <3>1, <3>2, <3>3
  <2>7. entries' \in Seq([listed : Entry, at : Nat]) BY <2>2, <2>3, <2>5
  <2>8. ASSUME NEW i \in DOMAIN entries'
        PROVE  entries'[i].at < data' /\ LocalAt(entries'[i].listed) = entries'[i].at
    <3>1. CASE i \in DOMAIN entries
      <4>1. entries'[i] = entries[i] BY <2>2, <2>5, <3>1
      <4>2. entries[i] \in [listed : Entry, at : Nat]
        <5> DEFINE S == [listed : Entry, at : Nat]
        <5>1. entries \in Seq(S) BY <2>2
        <5> HIDE DEF S
        <5>2. i \in 1..Len(entries) BY <3>1, <5>1
        <5>3. entries[i] \in S BY <5>1, <5>2, ElementOfSeq
        <5> QED BY <5>3 DEF S
      <4>3. entries[i].at < data /\ LocalAt(entries[i].listed) = entries[i].at
        BY <3>1 DEF Findable
      <4> QED BY <2>2, <2>6, <4>1, <4>2, <4>3
    <3>2. CASE i = Len(entries) + 1
      <4>1. entries'[i] = [listed |-> e, at |-> data] BY <2>2, <2>5, <3>2
      <4> QED BY <2>3, <2>6, <4>1
    <3> QED BY <2>2, <2>5, <3>1, <3>2
  <2> QED BY <2>6, <2>7, <2>8 DEF Findable, LocalAt
<1>4. UNCHANGED archive \/ CheckNames \/ AddMember
  BY DEF Next, vars, Audit, Copy, CollectNotices, SplitLicence, CheckManifest,
     CloseArchive, ReadHeader, ReadChunk, CheckKernel, WriteHash, WriteAudit,
     Rebuild, RunDies
<1> QED BY <1>1, <1>2, <1>3, <1>4

LEMMA FindableSuffices == Findable => ProducedAccepted
<1> SUFFICES ASSUME Findable PROVE NamesAccepted <=> ~Misled
  BY DEF ProducedAccepted
<1>1. /\ data \in Nat /\ directory \in Nat
      /\ Small \in Nat /\ Sentinel \in Nat /\ Small < Sentinel
  BY ArchiveAssumption DEF Findable
<1>2. Redirected <=> data >= Sentinel \/ directory >= Sentinel
  BY <1>1 DEF Redirected, End, Smaller
<1>3. Directory.offset = data /\ Directory.size = directory
  BY <1>1, <1>2 DEF Directory, End, Smaller
<1>4. Directory.end = IF Misled THEN data + directory + 2 ELSE data + directory
  BY <1>1, <1>2 DEF Directory, Misled, Length, Zip64
<1>5. DirectoryFits <=> ~Misled
  BY <1>1, <1>3, <1>4 DEF DirectoryFits
<1>6. LocalsMatch
  BY <1>3 DEF LocalsMatch, Findable
<1> QED BY <1>5, <1>6 DEF NamesAccepted

(* Whatever the lengths of the members and the two limits are, the reader    *)
(* accepts what zipfile wrote, except in the gap between the limits.         *)
THEOREM ProducedIsAccepted == Spec => []ProducedAccepted
<1>1. Init => Findable BY FindableInit
<1>2. Findable /\ [Next]_vars => Findable' BY FindableStep
<1>3. Findable => ProducedAccepted BY FindableSuffices
<1> QED BY <1>1, <1>2, <1>3, PTL DEF Spec
----------------------------------------------------------------------------
(* The licence text                                                        *)

(* A set of natural numbers has a smallest element, and a bounded one a      *)
(* largest.                                                                  *)
LEMMA HasSmallest ==
  ASSUME NEW S, S \subseteq Nat, S # {}
  PROVE  \E m \in S : \A k \in S : m <= k
<1> DEFINE Below == {0..k : k \in S}
<1>1. IsWellFoundedOn(StrictSubsetOrdering(Nat), FiniteSubsetsOf(Nat))
  BY FS_StrictSubsetOrderingWellFounded
<1>2. Below \subseteq FiniteSubsetsOf(Nat)
  <2> SUFFICES ASSUME NEW k \in S PROVE 0..k \in FiniteSubsetsOf(Nat)
    OBVIOUS
  <2>1. k \in Int /\ 0..k \subseteq Nat
    OBVIOUS
  <2> QED BY <2>1, FS_Interval DEF FiniteSubsetsOf
<1>3. Below # {}
  OBVIOUS
<1> HIDE DEF Below
<1>4. PICK B \in Below : \A C \in Below : ~ (<<C, B>> \in StrictSubsetOrdering(Nat))
  BY <1>1, <1>2, <1>3, WFMin
<1>5. PICK m \in S : B = 0..m
  BY DEF Below
<1>6. ASSUME NEW k \in S, k < m PROVE FALSE
  <2>1. 0..k \in Below
    BY DEF Below
  <2>2. /\ 0..k \subseteq 0..m /\ 0..k # 0..m
        /\ 0..k \in SUBSET Nat /\ 0..m \in SUBSET Nat
    <3>1. m \in 0..m /\ m \notin 0..k
      BY <1>6
    <3> QED BY <1>6, <3>1
  <2>3. <<0..k, 0..m>> \in StrictSubsetOrdering(Nat)
    BY <2>2 DEF StrictSubsetOrdering
  <2> QED BY <1>4, <1>5, <2>1, <2>3
<1> QED BY <1>6

LEMMA HasLargest ==
  ASSUME NEW n \in Nat, NEW S, S \subseteq 0..n, S # {}
  PROVE  \E m \in S : \A k \in S : k <= m
<1> DEFINE T == {n - k : k \in S}
<1>1. T \subseteq Nat /\ T # {}
  <2>1. \A k \in S : n - k \in Nat
    OBVIOUS
  <2> QED BY <2>1
<1>2. PICK t \in T : \A u \in T : t <= u
  <2> HIDE DEF T
  <2> QED BY <1>1, HasSmallest
<1>3. PICK m \in S : t = n - m
  OBVIOUS
<1>4. ASSUME NEW k \in S PROVE k <= m
  <2>1. n - k \in T
    OBVIOUS
  <2>2. n - m <= n - k
    <3> HIDE DEF T
    <3> QED BY <1>2, <1>3, <2>1
  <2> QED BY <2>2
<1> QED BY <1>4

(* The cut before it is moved back: at the end, at the limit or behind the   *)
(* last newline of the second half.                                          *)
LEMMA RawCutFacts ==
  ASSUME NEW s \in Seq(Byte), s # <<>>
  PROVE  \/ RawCut(s) = Len(s) /\ Len(s) <= Limit
         \/ RawCut(s) = Limit /\ Limit < Len(s)
         \/ /\ RawCut(s) \in (Limit \div 2 + 1)..Limit /\ Limit < Len(s)
            /\ s[RawCut(s)] = "newline"
<1> DEFINE full == Smaller(Limit, Len(s))
           found == Newlines(s, Limit \div 2 + 1, full)
<1>1. Limit \in Nat /\ Len(s) \in Nat
  BY LicenceAssumption, LenProperties
<1>2. full \in Nat /\ full <= Limit /\ full <= Len(s) /\ (full = Limit \/ full = Len(s))
  BY <1>1 DEF Smaller
<1>3. RawCut(s) = IF full = Len(s) \/ found = {} THEN full
                  ELSE CHOOSE i \in found : \A j \in found : j <= i
  BY DEF RawCut
<1>4. CASE full = Len(s)
  BY <1>1, <1>2, <1>3, <1>4
<1>5. CASE full # Len(s) /\ found = {}
  BY <1>1, <1>2, <1>3, <1>5
<1>6. CASE full # Len(s) /\ found # {}
  <2>1. full = Limit /\ Limit < Len(s)
    BY <1>1, <1>2, <1>6
  <2>2. found = {i \in (Limit \div 2 + 1)..Limit : s[i] = "newline"}
    BY <2>1 DEF Newlines
  <2>3. Limit \div 2 + 1 \in Nat
    BY <1>1
  <2> HIDE DEF found, full
  <2>4. found \subseteq 0..Limit
    BY <1>1, <2>2, <2>3
  <2>5. \E i \in found : \A j \in found : j <= i
    BY <1>1, <1>6, <2>4, HasLargest
  <2>6. RawCut(s) \in found
    BY <1>3, <1>6, <2>5
  <2> QED BY <2>1, <2>2, <2>6
<1> QED BY <1>4, <1>5, <1>6

(* If the text up to some byte decodes, the cut is the last such byte. *)
LEMMA CutIsLast ==
  ASSUME NEW s, RawCut(s) \in Nat,
         NEW d \in 1..RawCut(s), Decodes(s, d)
  PROVE  /\ Cut(s) \in 1..RawCut(s) /\ Decodes(s, Cut(s))
         /\ d <= Cut(s)
<1> DEFINE D == {c \in 1..RawCut(s) : Decodes(s, c)}
           Last(c) == Decodes(s, c) /\ \A i \in c+1..RawCut(s) : ~Decodes(s, i)
<1>1. D \subseteq 0..RawCut(s) /\ D # {}
  OBVIOUS
<1>2. PICK m \in D : \A c \in D : c <= m
  <2> HIDE DEF D
  <2> QED BY <1>1, HasLargest
<1>3. m \in 1..RawCut(s) /\ Decodes(s, m)
  OBVIOUS
<1>4. \A i \in m+1..RawCut(s) : ~Decodes(s, i)
  <2> SUFFICES ASSUME NEW i \in m+1..RawCut(s), Decodes(s, i) PROVE FALSE
    OBVIOUS
  <2>1. i \in D /\ ~ (i <= m)
    BY <1>3
  <2> QED BY <1>2, <2>1
<1>5. \E c \in 1..RawCut(s) : Last(c)
  BY <1>3, <1>4
<1>6. Cut(s) = CHOOSE c \in 1..RawCut(s) : Last(c)
  BY DEF Cut
<1> HIDE DEF Last
<1>7. Cut(s) \in 1..RawCut(s) /\ Last(Cut(s))
  BY <1>5, <1>6
<1>8. ~ (d > Cut(s))
  BY <1>7 DEF Last
<1> QED BY <1>7, <1>8 DEF Last

(* A cut leaves whole code points on both sides and, unless it takes the     *)
(* rest, more than half of what a file may hold.                             *)
LEMMA CutFacts ==
  ASSUME NEW s \in Seq(Byte), s # <<>>, WellFormed(s)
  PROVE  /\ Cut(s) \in 1..Len(s) /\ Cut(s) <= Limit
         /\ Cut(s) < Len(s) =>
              /\ s[Cut(s) + 1] # "next"
              /\ Cut(s) >= Smaller(Limit \div 2 + 1, Limit - 3)
<1>1. Limit \in Nat /\ Limit >= 4 /\ Len(s) \in Nat \ {0}
  BY LicenceAssumption, EmptySeq
<1>2. CASE RawCut(s) = Len(s) /\ Len(s) <= Limit
  <2>1. Decodes(s, Len(s)) /\ Len(s) \in 1..RawCut(s)
    BY <1>1, <1>2 DEF Decodes
  <2>2. Cut(s) \in 1..RawCut(s) /\ Len(s) <= Cut(s)
    BY <1>1, <1>2, <2>1, CutIsLast
  <2> QED BY <1>1, <1>2, <2>2
<1>3. CASE RawCut(s) = Limit /\ Limit < Len(s)
  <2>1. Limit - 2 \in 1..(Len(s) - 3)
    BY <1>1, <1>3
  <2>2. PICK k \in (Limit - 2)..(Limit - 2 + 3) : s[k] # "next"
    BY <2>1 DEF WellFormed
  <2>3. k - 1 \in 1..Limit /\ k - 1 + 1 = k /\ k - 1 >= Limit - 3
    BY <1>1, <2>2
  <2>4. Decodes(s, k - 1)
    BY <2>2, <2>3 DEF Decodes
  <2>5. Cut(s) \in 1..Limit /\ Decodes(s, Cut(s)) /\ k - 1 <= Cut(s)
    BY <1>1, <1>3, <2>3, <2>4, CutIsLast
  <2>6. Cut(s) >= Limit - 3
    BY <1>1, <2>3, <2>5
  <2> QED BY <1>1, <1>3, <2>5, <2>6 DEF Decodes, Smaller
<1>4. CASE /\ RawCut(s) \in (Limit \div 2 + 1)..Limit /\ Limit < Len(s)
           /\ s[RawCut(s)] = "newline"
  <2> DEFINE raw == RawCut(s)
  <2>1. raw \in Nat /\ raw \in 1..(Len(s) - 1) /\ raw \in 1..raw
    BY <1>1, <1>4
  <2>2. Decodes(s, raw)
    BY <1>4, <2>1 DEF WellFormed, Decodes
  <2>3. Cut(s) \in 1..raw /\ Decodes(s, Cut(s)) /\ raw <= Cut(s)
    BY <2>1, <2>2, CutIsLast
  <2> QED BY <1>1, <1>4, <2>1, <2>3 DEF Decodes, Smaller
<1> QED BY <1>2, <1>3, <1>4, RawCutFacts

(* What is left of a text behind a cut decodes again. *)
LEMMA RestIsWellFormed ==
  ASSUME NEW s \in Seq(Byte), WellFormed(s), NEW c \in 1..Len(s),
         c < Len(s) => s[c + 1] # "next"
  PROVE  /\ SubSeq(s, c + 1, Len(s)) \in Seq(Byte)
         /\ WellFormed(SubSeq(s, c + 1, Len(s)))
         /\ SubSeq(s, c + 1, Len(s)) # <<>> => c < Len(s)
<1> DEFINE r == SubSeq(s, c + 1, Len(s))
<1>1. /\ Len(s) \in Nat /\ c \in Nat /\ c <= Len(s)
      /\ \A i \in (c + 1)..Len(s) : s[i] \in Byte
  BY LenProperties, ElementOfSeq
<1>2. /\ r \in Seq(Byte)
      /\ Len(r) = Len(s) - c
      /\ \A i \in 1..(Len(s) - c) : r[i] = s[c + i]
  BY <1>1, SubSeqProperties
<1> HIDE DEF r
<1>3. r # <<>> => c < Len(s)
  BY <1>1, <1>2, EmptySeq
<1>4. r # <<>> => r[1] # "next"
  BY <1>1, <1>2, <1>3
<1>5. ASSUME NEW i \in 1..(Len(r) - 1), r[i] = "newline" PROVE r[i + 1] # "next"
  <2>1. /\ c + i \in 1..(Len(s) - 1) /\ i \in 1..(Len(s) - c)
        /\ i + 1 \in 1..(Len(s) - c) /\ c + (i + 1) = c + i + 1
    BY <1>1, <1>2
  <2>2. r[i] = s[c + i] /\ r[i + 1] = s[c + i + 1]
    BY <1>2, <2>1
  <2> QED BY <1>5, <2>1, <2>2 DEF WellFormed
<1>6. ASSUME NEW i \in 1..(Len(r) - 3) PROVE \E k \in i..(i + 3) : r[k] # "next"
  <2>1. c + i \in 1..(Len(s) - 3)
    BY <1>1, <1>2
  <2>2. PICK k \in (c + i)..(c + i + 3) : s[k] # "next"
    BY <2>1 DEF WellFormed
  <2>3. k - c \in i..(i + 3) /\ k - c \in 1..(Len(s) - c) /\ c + (k - c) = k
    BY <1>1, <1>2
  <2> QED BY <1>2, <2>2, <2>3
<1>7. WellFormed(r)
  BY <1>4, <1>5, <1>6 DEF WellFormed
<1> QED BY <1>2, <1>3, <1>7 DEF r

(* W puts the first n parts together, for each n. *)
IsWhole(W, ps) ==
  W = [n \in 0..Len(ps) |-> IF n = 0 THEN <<>> ELSE W[n - 1] \o ps[n]]

LEMMA WholeFacts ==
  ASSUME NEW ps, Len(ps) \in Nat, NEW W, IsWhole(W, ps)
  PROVE  /\ DOMAIN W = 0..Len(ps) /\ W[0] = <<>>
         /\ \A n \in 1..Len(ps) : W[n] = W[n - 1] \o ps[n]
<1>1. DOMAIN W = 0..Len(ps)
  BY DEF IsWhole
<1>2. \A n \in 0..Len(ps) : W[n] = IF n = 0 THEN <<>> ELSE W[n - 1] \o ps[n]
  BY DEF IsWhole
<1> QED BY <1>1, <1>2

LEMMA FactsAreWhole ==
  ASSUME NEW ps, Len(ps) \in Nat, NEW W, W = [n \in 0..Len(ps) |-> W[n]],
         W[0] = <<>>, \A n \in 1..Len(ps) : W[n] = W[n - 1] \o ps[n]
  PROVE  IsWhole(W, ps)
<1>1. ASSUME NEW n \in 0..Len(ps)
      PROVE  W[n] = IF n = 0 THEN <<>> ELSE W[n - 1] \o ps[n]
  <2>1. CASE n = 0
    BY <2>1
  <2>2. CASE n # 0
    <3>1. n \in 1..Len(ps)
      BY <2>2
    <3> QED BY <2>2, <3>1
  <2> QED BY <2>1, <2>2
<1> QED BY <1>1 DEF IsWhole

(* With one part more, what is put together is that part longer. *)
LEMMA WholeGrows ==
  ASSUME NEW ps \in Seq(Seq(Byte)), NEW p \in Seq(Byte)
  PROVE  /\ \A W : IsWhole(W, ps) => \E V : IsWhole(V, Append(ps, p))
         /\ \A V : IsWhole(V, Append(ps, p)) =>
              \E W : IsWhole(W, ps) /\ V[Len(ps) + 1] = W[Len(ps)] \o p
<1> DEFINE qs == Append(ps, p)
<1>1. /\ Len(ps) \in Nat /\ Len(qs) \in Nat
      /\ Len(qs) = Len(ps) + 1 /\ qs[Len(ps) + 1] = p
      /\ \A n \in 1..Len(ps) : qs[n] = ps[n]
  BY LenProperties, AppendProperties
<1> HIDE DEF qs
<1>2. ASSUME NEW W, IsWhole(W, ps) PROVE \E V : IsWhole(V, qs)
  <2> DEFINE V == [n \in 0..Len(qs) |-> IF n = Len(qs) THEN W[Len(ps)] \o p ELSE W[n]]
  <2>1. W[0] = <<>> /\ \A n \in 1..Len(ps) : W[n] = W[n - 1] \o ps[n]
    BY <1>1, <1>2, WholeFacts
  <2>2. V = [n \in 0..Len(qs) |-> V[n]] /\ V[0] = <<>>
    BY <1>1, <2>1
  <2>3. ASSUME NEW n \in 1..Len(qs) PROVE V[n] = V[n - 1] \o qs[n]
    <3>1. /\ n \in 0..Len(qs) /\ n - 1 \in 0..Len(qs) /\ n - 1 # Len(qs)
          /\ V[n - 1] = W[n - 1]
      BY <1>1
    <3>2. CASE n = Len(qs)
      <4>1. V[n] = W[Len(ps)] \o p
        BY <3>1, <3>2
      <4>2. n - 1 = Len(ps) /\ qs[n] = p
        BY <1>1, <3>2
      <4> HIDE DEF V
      <4> QED BY <3>1, <4>1, <4>2
    <3>3. CASE n # Len(qs)
      <4>1. V[n] = W[n]
        BY <3>1, <3>3
      <4>2. n \in 1..Len(ps)
        BY <1>1, <3>3
      <4> HIDE DEF V
      <4> QED BY <1>1, <2>1, <3>1, <4>1, <4>2
    <3> QED BY <3>2, <3>3
  <2>4. IsWhole(V, qs)
    <3> HIDE DEF V
    <3> QED BY <1>1, <2>2, <2>3, FactsAreWhole
  <2> QED BY <2>4
<1>3. ASSUME NEW V, IsWhole(V, qs)
      PROVE  \E W : IsWhole(W, ps) /\ V[Len(ps) + 1] = W[Len(ps)] \o p
  <2> DEFINE W == [n \in 0..Len(ps) |-> V[n]]
  <2>1. V[0] = <<>> /\ \A n \in 1..Len(qs) : V[n] = V[n - 1] \o qs[n]
    BY <1>1, <1>3, WholeFacts
  <2>2. W = [n \in 0..Len(ps) |-> W[n]] /\ W[0] = <<>>
    BY <1>1, <2>1
  <2>3. ASSUME NEW n \in 1..Len(ps) PROVE W[n] = W[n - 1] \o ps[n]
    <3>1. n \in 1..Len(qs)
      BY <1>1
    <3>2. V[n] = V[n - 1] \o ps[n]
      BY <1>1, <2>1, <3>1
    <3>3. W[n] = V[n] /\ W[n - 1] = V[n - 1]
      BY <1>1
    <3> QED BY <3>2, <3>3
  <2>4. V[Len(ps) + 1] = W[Len(ps)] \o p
    <3> DEFINE k == Len(ps) + 1
    <3>1. k \in 1..Len(qs) /\ k - 1 = Len(ps) /\ qs[k] = p
      BY <1>1
    <3> HIDE DEF k
    <3>2. V[k] = V[Len(ps)] \o p
      BY <2>1, <3>1
    <3>3. W[Len(ps)] = V[Len(ps)]
      BY <1>1
    <3> QED BY <3>2, <3>3 DEF k
  <2>5. IsWhole(W, ps)
    <3> HIDE DEF W
    <3> QED BY <1>1, <2>2, <2>3, FactsAreWhole
  <2> QED BY <2>4, <2>5
<1> QED BY <1>2, <1>3 DEF qs

LEMMA NoParts ==
  /\ \E W : IsWhole(W, <<>>)
  /\ \A W : IsWhole(W, <<>>) => W[0] = <<>>
<1>1. Len(<<>>) = 0
  OBVIOUS
<1> DEFINE W == [n \in 0..0 |-> <<>>]
<1>2. W = [n \in 0..0 |-> W[n]] /\ W[0] = <<>>
  OBVIOUS
<1>3. IsWhole(W, <<>>)
  <2> HIDE DEF W
  <2> QED BY <1>1, <1>2, FactsAreWhole
<1>4. \A V : IsWhole(V, <<>>) => V[0] = <<>>
  BY <1>1, WholeFacts
<1> QED BY <1>3, <1>4

(* The files made so far are of the sizes that the reader admits. *)
PartsFit ==
  \A i \in 1..Len(parts) :
    /\ Len(parts[i]) \in 1..Limit /\ parts[i][1] # "next"
    /\ i < Len(parts) \/ rest # <<>> =>
         Len(parts[i]) >= Smaller(Limit \div 2 + 1, Limit - 3)

(* Put together and followed by what is left, they are the text. *)
Splitting ==
  /\ text \in Seq(Byte) /\ rest \in Seq(Byte) /\ parts \in Seq(Seq(Byte))
  /\ WellFormed(rest)
  /\ PartsFit
  /\ \E W : IsWhole(W, parts)
  /\ \A W : IsWhole(W, parts) =>
       W[Len(parts)] \in Seq(Byte) /\ W[Len(parts)] \o rest = text

(* Nothing was split yet, or what was split is not looked at any more. *)
LEMMA UnsplitIsSplitting ==
  ASSUME NEW t \in Seq(Byte), WellFormed(t)
  PROVE  text = t /\ rest = t /\ parts = <<>> => Splitting
<1> SUFFICES ASSUME text = t, rest = t, parts = <<>> PROVE Splitting
  OBVIOUS
<1>1. PartsFit /\ parts \in Seq(Seq(Byte)) /\ Len(parts) = 0
  BY DEF PartsFit
<1>2. <<>> \in Seq(Byte) /\ <<>> \o t = t
  BY ConcatEmptySeq
<1> QED BY <1>1, <1>2, NoParts DEF Splitting

LEMMA UnsplitKeepsSplitting ==
  ASSUME NEW t \in Seq(Byte), WellFormed(t)
  PROVE  text' = t /\ rest' = t /\ parts' = <<>> => Splitting'
<1> SUFFICES ASSUME text' = t, rest' = t, parts' = <<>> PROVE Splitting'
  OBVIOUS
<1>1. PartsFit' /\ parts' \in Seq(Seq(Byte)) /\ Len(parts') = 0
  BY DEF PartsFit
<1>2. <<>> \in Seq(Byte) /\ <<>> \o t = t
  BY ConcatEmptySeq
<1>3. WellFormed(rest)'
  BY DEF WellFormed
<1>4. /\ \E W : IsWhole(W, parts)'
      /\ \A W : IsWhole(W, parts)' => W[0] = <<>>
  BY NoParts DEF IsWhole
<1> QED BY <1>1, <1>2, <1>3, <1>4 DEF Splitting

LEMMA ThreePieces ==
  ASSUME NEW u \in Seq(Byte), NEW v \in Seq(Byte), NEW w \in Seq(Byte)
  PROVE  (u \o v) \o w = u \o (v \o w)
BY ConcatAssociative

(* A part more keeps the text together, and every part of an admitted size. *)
LEMMA SplitKeepsSplitting == ASSUME Splitting, SplitLicence PROVE Splitting'
<1> DEFINE c == Cut(rest)
           p == SubSeq(rest, 1, c)
           r == SubSeq(rest, c + 1, Len(rest))
<1>1. /\ rest # <<>> /\ parts' = Append(parts, p) /\ rest' = r /\ text' = text
  BY DEF SplitLicence
<1>2. /\ rest \in Seq(Byte) /\ WellFormed(rest) /\ parts \in Seq(Seq(Byte))
      /\ text \in Seq(Byte)
  BY DEF Splitting
<1>3. /\ c \in 1..Len(rest) /\ c <= Limit
      /\ c < Len(rest) => /\ rest[c + 1] # "next"
                          /\ c >= Smaller(Limit \div 2 + 1, Limit - 3)
  BY <1>1, <1>2, CutFacts
<1> HIDE DEF c
<1>4. r \in Seq(Byte) /\ WellFormed(r) /\ (r # <<>> => c < Len(rest))
  BY <1>2, <1>3, RestIsWellFormed
<1>5. Len(rest) \in Nat /\ Limit \in Nat /\ Len(parts) \in Nat
  BY <1>2, LicenceAssumption, LenProperties
<1>6. p \in Seq(Byte) /\ Len(p) = c /\ p[1] = rest[1] /\ p[1] # "next"
  <2>1. \A i \in 1..c : rest[i] \in Byte
    BY <1>2, <1>3, <1>5, ElementOfSeq
  <2>2. /\ p \in Seq(Byte) /\ Len(p) = c
        /\ \A i \in 1..(c - 1 + 1) : p[i] = rest[1 + i - 1]
    BY <1>3, <1>5, <2>1, SubSeqProperties
  <2>3. 1 \in 1..(c - 1 + 1) /\ 1 + 1 - 1 = 1
    BY <1>3, <1>5
  <2> HIDE DEF p
  <2>4. p[1] = rest[1]
    BY <2>2, <2>3
  <2>5. rest[1] # "next"
    BY <1>1, <1>2 DEF WellFormed
  <2> QED BY <2>2, <2>4, <2>5
<1>7. p \o r = rest
  <2>1. SubSeq(rest, 1, c) \o SubSeq(rest, c + 1, Len(rest)) = SubSeq(rest, 1, Len(rest))
    BY <1>2, <1>3, <1>5, ConcatAdjacentSubSeq
  <2> QED BY <1>2, <2>1, SubSeqFull
<1> HIDE DEF p, r
<1>8. /\ parts' \in Seq(Seq(Byte)) /\ Len(parts') = Len(parts) + 1
      /\ parts'[Len(parts) + 1] = p
      /\ \A i \in 1..Len(parts) : parts'[i] = parts[i]
  BY <1>1, <1>2, <1>6, AppendProperties
<1>9. PartsFit'
  <2> SUFFICES ASSUME NEW i \in 1..(Len(parts) + 1)
               PROVE  /\ Len(parts'[i]) \in 1..Limit /\ parts'[i][1] # "next"
                      /\ i < Len(parts) + 1 \/ rest' # <<>> =>
                           Len(parts'[i]) >= Smaller(Limit \div 2 + 1, Limit - 3)
    BY <1>8 DEF PartsFit, Smaller
  <2>1. CASE i \in 1..Len(parts)
    BY <1>1, <1>8, <2>1 DEF Splitting, PartsFit
  <2>2. CASE i = Len(parts) + 1
    <3>1. parts'[i] = p
      BY <1>8, <2>2
    <3>2. Len(p) \in 1..Limit
      BY <1>3, <1>5, <1>6
    <3>3. rest' # <<>> => Len(p) >= Smaller(Limit \div 2 + 1, Limit - 3)
      BY <1>1, <1>3, <1>4, <1>6
    <3> QED BY <1>5, <1>6, <2>2, <3>1, <3>2, <3>3
  <2> QED BY <1>5, <2>1, <2>2
<1>10. \E V : IsWhole(V, Append(parts, p))
  BY <1>2, <1>6, WholeGrows DEF Splitting
<1>11. ASSUME NEW V, IsWhole(V, Append(parts, p))
       PROVE  V[Len(parts) + 1] \in Seq(Byte) /\ V[Len(parts) + 1] \o r = text
  <2>1. PICK W : IsWhole(W, parts) /\ V[Len(parts) + 1] = W[Len(parts)] \o p
    BY <1>2, <1>6, <1>11, WholeGrows
  <2>2. W[Len(parts)] \in Seq(Byte) /\ W[Len(parts)] \o rest = text
    BY <2>1 DEF Splitting
  <2> DEFINE w == W[Len(parts)]
  <2> HIDE DEF w
  <2>3. w \in Seq(Byte) /\ w \o rest = text /\ V[Len(parts) + 1] = w \o p
    BY <2>1, <2>2 DEF w
  <2>4. w \o p \in Seq(Byte)
    BY <1>6, <2>3, ConcatProperties
  <2>5. (w \o p) \o r = w \o (p \o r)
    <3>1. w \in Seq(Byte) /\ p \in Seq(Byte) /\ r \in Seq(Byte)
      BY <1>4, <1>6, <2>3
    <3> QED BY <3>1, ThreePieces
  <2> QED BY <1>7, <2>3, <2>4, <2>5
<1>12. \E V : IsWhole(V, parts)'
  BY <1>1, <1>10 DEF IsWhole
<1>13. \A V : IsWhole(V, parts)' =>
               V[Len(parts')] \in Seq(Byte) /\ V[Len(parts')] \o rest' = text'
  BY <1>1, <1>8, <1>11 DEF IsWhole
<1> QED BY <1>1, <1>2, <1>4, <1>8, <1>9, <1>12, <1>13
        DEF Splitting, WellFormed, IsWhole

LEMMA SplittingInit == Init => Splitting
<1>1. <<>> \in Seq(Byte) /\ WellFormed(<<>>)
  BY DEF WellFormed
<1> QED BY <1>1, UnsplitIsSplitting DEF Init

LEMMA SplittingStep == Splitting /\ [Next]_vars => Splitting'
<1> SUFFICES ASSUME Splitting, [Next]_vars PROVE Splitting'
  OBVIOUS
<1>1. CASE UNCHANGED licences
  BY <1>1 DEF licences, Splitting, WellFormed, PartsFit, IsWhole
<1>2. CASE SplitLicence
  BY <1>2, SplitKeepsSplitting
<1>3. CASE \E t \in Text : text' = t /\ rest' = t /\ parts' = <<>>
  <2>1. PICK t \in Text : text' = t /\ rest' = t /\ parts' = <<>>
    BY <1>3
  <2>2. t \in Seq(Byte) /\ WellFormed(t)
    BY LicenceAssumption
  <2> QED BY <2>1, <2>2, UnsplitKeepsSplitting
<1>4. CASE text' = <<>> /\ rest' = <<>> /\ parts' = <<>>
  <2>1. <<>> \in Seq(Byte) /\ WellFormed(<<>>)
    BY DEF WellFormed
  <2> QED BY <1>4, <2>1, UnsplitKeepsSplitting
<1>5. \/ UNCHANGED licences \/ SplitLicence
      \/ \E t \in Text : text' = t /\ rest' = t /\ parts' = <<>>
      \/ text' = <<>> /\ rest' = <<>> /\ parts' = <<>>
  BY DEF Next, vars, licences, Audit, Copy, CollectNotices, CheckManifest,
     AddMember, CloseArchive, CheckNames, ReadHeader, ReadChunk, CheckKernel,
     WriteHash, WriteAudit, Rebuild, RunDies
<1> QED BY <1>1, <1>2, <1>3, <1>4, <1>5

LEMMA SplittingSuffices == Splitting => LicencesWhole
<1> SUFFICES ASSUME Splitting PROVE LicencesWhole
  OBVIOUS
<1> DEFINE Whole == CHOOSE W : IsWhole(W, parts)
<1>1. Whole[Len(parts)] \o rest = text
  <2>1. IsWhole(Whole, parts)
    BY DEF Splitting
  <2> HIDE DEF Whole
  <2> QED BY <2>1 DEF Splitting
<1>2. DOMAIN parts = 1..Len(parts)
  BY LenProperties DEF Splitting
<1>3. PartsFit
  BY DEF Splitting
<1> QED BY <1>1, <1>2, <1>3 DEF LicencesWhole, PartsFit, IsWhole

(* LicencesWhole: for every well-formed text and every limit, the licence     *)
(* files put together are the text, and each is of a size that the reader     *)
(* admits (license_parts()).                                                  *)
THEOREM LicencesStayWhole == Spec => []LicencesWhole
<1> QED BY SplittingInit, SplittingStep, SplittingSuffices, PTL DEF Spec
----------------------------------------------------------------------------
(* Types                                                                   *)

(* What the invariants above do not say of the types. *)
Shapes ==
  /\ current \in [Role -> Version] /\ rebuilds \in 0..MaxRebuilds
  /\ staged \in [Role -> Version \cup {None}]
  /\ Len(entries) <= Len(Members)
  /\ files \subseteq {"zip", "sha256", "audit"}
  /\ pc \in Label

LEMMA ShapesInit == Init => Shapes
<1> SUFFICES ASSUME Init PROVE Shapes
  OBVIOUS
<1>1. entries = <<>> /\ Len(<<>>) = 0
  BY DEF Init
<1>2. Len(entries) <= Len(Members)
  BY <1>1, ArchiveAssumption
<1>3. rebuilds \in 0..MaxRebuilds
  BY BoundAssumption DEF Init
<1> QED BY <1>2, <1>3 DEF Init, Shapes, Label, Version

LEMMA ShapesStep == Findable /\ Shapes /\ [Next]_vars => Shapes'
<1> SUFFICES ASSUME Findable, Shapes, [Next]_vars PROVE Shapes'
  OBVIOUS
<1>1. /\ current' \in [Role -> Version] /\ staged' \in [Role -> Version \cup {None}]
  <2>1. ASSUME NEW r \in Role, Copy(r)
        PROVE  staged' \in [Role -> Version \cup {None}] /\ UNCHANGED current
    BY <2>1 DEF Copy, build, Shapes
  <2>2. ASSUME NEW r \in Role, Rebuild(r)
        PROVE  current' \in [Role -> Version] /\ UNCHANGED staged
    BY <2>2 DEF Rebuild, Shapes, Version
  <2>3. \/ \E r \in Role : Copy(r) \/ Rebuild(r)
        \/ UNCHANGED <<current, staged>>
    BY DEF Next, vars, build, Audit, CollectNotices, SplitLicence, CheckManifest,
       AddMember, CloseArchive, CheckNames, ReadHeader, ReadChunk, CheckKernel, WriteHash,
       WriteAudit, RunDies
  <2> QED BY <2>1, <2>2, <2>3 DEF Shapes
<1>2. rebuilds' \in 0..MaxRebuilds
  <2>1. rebuilds' = rebuilds \/ (rebuilds < MaxRebuilds /\ rebuilds' = rebuilds + 1)
    BY DEF Next, vars, build, Audit, Copy, CollectNotices, SplitLicence,
       CheckManifest, AddMember, CloseArchive, CheckNames, ReadHeader, ReadChunk,
       CheckKernel, WriteHash, WriteAudit, Rebuild, RunDies
  <2> QED BY <2>1, BoundAssumption DEF Shapes
<1>3. Len(entries') <= Len(Members)
  <2>1. \/ entries' = entries \/ entries' = <<>>
        \/ Len(entries) < Len(Members) /\ \E e : entries' = Append(entries, e)
    BY DEF Next, vars, archive, Audit, Copy, CollectNotices, SplitLicence,
       CheckManifest, AddMember, CloseArchive, CheckNames, ReadHeader, ReadChunk,
       CheckKernel, WriteHash, WriteAudit, Rebuild, RunDies
  <2>2. Len(Members) \in Nat /\ Len(entries) \in Nat
    BY ArchiveAssumption, LenProperties DEF Findable
  <2>3. \A e : Len(Append(entries, e)) = Len(entries) + 1
    BY DEF Findable
  <2> QED BY <2>1, <2>2, <2>3 DEF Shapes
<1>4. files' \subseteq {"zip", "sha256", "audit"}
  BY DEF Shapes, Next, vars, Audit, Copy, CollectNotices, SplitLicence,
     CheckManifest, AddMember, CloseArchive, CheckNames, ReadHeader, ReadChunk,
     CheckKernel, WriteHash, WriteAudit, Rebuild, RunDies
<1>5. pc' \in Label
  BY DEF Shapes, Label, Step, Next, vars, Audit, Copy, CollectNotices,
     SplitLicence, CheckManifest, AddMember, CloseArchive, CheckNames,
     ReadHeader, ReadChunk, CheckKernel, WriteHash, WriteAudit, Rebuild, RunDies
<1> QED BY <1>1, <1>2, <1>3, <1>4, <1>5 DEF Shapes

LEMMA TypesSuffice ==
  Shapes /\ Splitting /\ Findable /\ ReadSoFar => TypeOK
<1> SUFFICES ASSUME Shapes, Splitting, Findable, ReadSoFar PROVE TypeOK
  OBVIOUS
<1>1. boot \in [kernel : Nat, ramdisk : Nat] /\ offset \in 0..BootLength
  BY SectionsFit DEF ReadSoFar
<1>2. hashed \subseteq 0..BootLength /\ magic \subseteq 0..BootLength
  <2>1. /\ Page \in Nat /\ RamdiskAt \in Nat /\ BootLength \in Nat
        /\ boot.kernel \in Nat /\ Page + boot.kernel <= RamdiskAt
        /\ RamdiskAt + 3 <= BootLength
    BY SectionsFit DEF ReadSoFar
  <2>2. KernelBytes \subseteq 0..BootLength
    BY <2>1 DEF KernelBytes
  <2>3. MagicBytes \subseteq 0..BootLength
    BY <2>1 DEF MagicBytes
  <2> QED BY <2>2, <2>3 DEF ReadSoFar
<1> QED BY <1>1, <1>2 DEF Shapes, Splitting, Findable, TypeOK

(* TypeOK: whatever is built beside the run and wherever it dies, positions   *)
(* stay in the boot image, members within the archive, labels in the run.     *)
THEOREM TypeCorrect == Spec => []TypeOK
<1>1. Init => Shapes /\ Splitting /\ Findable /\ ReadSoFar
  BY ShapesInit, SplittingInit, FindableInit, ReadSoFarInit
<1>2. Shapes /\ Splitting /\ Findable /\ ReadSoFar /\ [Next]_vars
        => (Shapes /\ Splitting /\ Findable /\ ReadSoFar)'
  BY ShapesStep, SplittingStep, FindableStep, ReadSoFarStep
<1> QED BY <1>1, <1>2, TypesSuffice, PTL DEF Spec
=============================================================================

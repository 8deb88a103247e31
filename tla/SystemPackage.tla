---------------------------- MODULE SystemPackage ----------------------------
(***************************************************************************)
(* A format-1 package is made and validated: package-clean-release.py      *)
(* audits a build, copies its images, splits the licence text, writes the  *)
(* ZIP and lets system-package.py read it back; only then the hash and the *)
(* audit are put beside it.                                                *)
(*                                                                         *)
(* Sizes are in units: bytes of the licence text, pages and bytes of the   *)
(* boot image, and for the archive a unit in which its headers count one.  *)
(* The run is killed anywhere, and builds go on beside it.                 *)
(***************************************************************************)
EXTENDS Integers, Sequences, FiniteSets

CONSTANTS
  Role,         \* the images of a package, "boot" among them
  Text,         \* licence texts
  Limit,        \* LICENSE_LIMIT
  MaxLicences,  \* licence files that the manifest may list
  Page, Chunk,  \* of a boot image, and what is read at a time
  Boots,        \* kernel and ramdisk lengths
  MaxKernel, MaxRamdisk,
  Members,      \* names in the archive, in its order
  Sizes,        \* lengths of members, plain and compressed
  Small,        \* the last number for which zipfile uses no ZIP64 field
  Sentinel,     \* 0xffffffff
  MaxRebuilds   \* builds beside the run (a bound)

(* The bytes of a text: a newline, the first of a code point, a further one. *)
Byte == {"newline", "start", "next"}

(* The text decodes, lines 288 and 297: a further byte follows the first of  *)
(* its code point, and no more than three do.                                *)
WellFormed(s) ==
  /\ s # <<>> => s[1] # "next"
  /\ \A i \in 1..(Len(s) - 1) : s[i] = "newline" => s[i + 1] # "next"
  /\ \A i \in 1..(Len(s) - 3) : \E k \in i..(i + 3) : s[k] # "next"

ASSUME RoleAssumption == "boot" \in Role
ASSUME LicenceAssumption ==
  /\ Text \subseteq {t \in Seq(Byte) : t # <<>> /\ WellFormed(t)}
  /\ Limit \in Nat /\ Limit >= 4 /\ MaxLicences \in Nat
ASSUME BootAssumption ==
  /\ Page \in Nat /\ Page >= 3 /\ Chunk \in Nat /\ Chunk >= Page
  /\ Boots \subseteq [kernel : Nat \ {0}, ramdisk : {n \in Nat : n >= 3}]
  /\ MaxKernel \in Nat /\ MaxRamdisk \in Nat
ASSUME ArchiveAssumption ==
  /\ Len(Members) \in Nat \ {0} /\ Sizes \subseteq Nat \ {0}
  /\ Small \in Nat /\ Sentinel \in Nat /\ Small < Sentinel
ASSUME BoundAssumption == MaxRebuilds \in Nat

VARIABLES
  current,    \* the images of the build: as recorded, or made anew since
  staged,     \* the images copied
  rest,       \* the licence text that is still to be split
  text,       \* all of it
  parts,      \* the licence files
  entries,    \* the archive: its members, as written and as listed
  data,       \* the length of all members
  directory,  \* the length of the central directory
  boot,       \* the boot image that is read back
  offset,     \* how far it was read
  hashed,     \* its bytes in the digest of the kernel
  magic,      \* its bytes taken for the start of the ramdisk
  files,      \* what stands in the output directory
  pc, rebuilds

build == <<current, rebuilds>>
licences == <<rest, text, parts>>
archive == <<entries, data, directory>>
reading == <<boot, offset, hashed, magic>>
vars == <<build, staged, licences, archive, reading, files, pc>>

None == "none"

(* An image made anew, a boot image perhaps with another kernel. *)
Version == {"recorded", "remade", "rekernelled"}

Init ==
  /\ current = [r \in Role |-> "recorded"] /\ staged = [r \in Role |-> None]
  /\ rebuilds = 0 /\ rest = <<>> /\ text = <<>> /\ parts = <<>>
  /\ entries = <<>> /\ data = 0 /\ directory = 0
  /\ boot = [kernel |-> 1, ramdisk |-> 3] /\ offset = 0
  /\ hashed = {} /\ magic = {}
  /\ files = {} /\ pc = "idle"

Smaller(a, b) == IF a < b THEN a ELSE b
Larger(a, b) == IF a > b THEN a ELSE b

(* A step of the run, or the exception it throws instead. *)
Step(label, ok, next) == pc = label /\ pc' = IF ok THEN next ELSE "refused"

----------------------------------------------------------------------------
(* The inputs                                                              *)

(* The images are those of the record.  A boot payload that was made anew    *)
(* has a recipe of its own, which must name the same kernel.                 *)
AsRecorded == \A r \in Role : \/ current[r] = "recorded"
                              \/ r = "boot" /\ current[r] = "remade"

(* audit_inputs(). *)
Audit ==
  /\ Step("idle", AsRecorded, "copy")
  /\ UNCHANGED <<build, staged, licences, archive, reading, files>>

(* The images are copied one after the other, boot first, and not compared   *)
(* again.                                                                    *)
Copy(r) ==
  /\ pc = "copy" /\ staged[r] = None /\ (r # "boot" => staged["boot"] # None)
  /\ staged' = [staged EXCEPT ![r] = current[r]]
  /\ pc' = IF \E s \in Role \ {r} : staged[s] = None THEN "copy" ELSE "notices"
  /\ UNCHANGED <<build, licences, archive, reading, files>>

----------------------------------------------------------------------------
(* The licence text                                                        *)

CollectNotices ==
  /\ pc = "notices" /\ pc' = "licences"
  /\ \E t \in Text : text' = t /\ rest' = t
  /\ parts' = <<>>
  /\ UNCHANGED <<build, staged, archive, reading, files>>

(* The text up to a byte decodes: no code point goes on behind it. *)
Decodes(s, cut) == cut = Len(s) \/ s[cut + 1] # "next"

Newlines(s, from, to) == {i \in from..to : s[i] = "newline"}

(* The cut before it is moved back to whole code points. *)
RawCut(s) ==
  LET full == Smaller(Limit, Len(s))
      found == Newlines(s, Limit \div 2 + 1, full)
  IN  IF full = Len(s) \/ found = {} THEN full
      ELSE CHOOSE i \in found : \A j \in found : j <= i

(* A slip: it is not moved back. *)
CutBytes(s) == RawCut(s)

Cut(s) ==
  CHOOSE cut \in 1..RawCut(s) :
    /\ Decodes(s, cut)
    /\ \A i \in cut+1..RawCut(s) : ~Decodes(s, i)

(* license_parts(): one part after the other, the last is what is left. *)
SplitLicence ==
  /\ pc = "licences" /\ rest # <<>>
  /\ parts' = Append(parts, SubSeq(rest, 1, Cut(rest)))
  /\ rest' = SubSeq(rest, Cut(rest) + 1, Len(rest))
  /\ UNCHANGED <<build, staged, text, archive, reading, files, pc>>

(* validate_manifest(), before the archive is written: only the number of    *)
(* the files counts from here on.                                            *)
CheckManifest ==
  /\ rest = <<>> /\ Step("licences", Len(parts) <= MaxLicences, "zip")
  /\ text' = <<>> /\ parts' = <<>>
  /\ UNCHANGED <<build, staged, rest, archive, reading, files>>

----------------------------------------------------------------------------
(* The archive, as Python's zipfile lays it out                            *)

(* A directory entry: numbers that are too large go to the ZIP64 field. *)
Listed(name, size, packed) ==
  LET large == size > Small \/ packed > Small
      far == data > Small
  IN  [name |-> name,
       size |-> IF large THEN Sentinel ELSE size,
       packed |-> IF large THEN Sentinel ELSE packed,
       at |-> IF far THEN Sentinel ELSE data,
       extra |-> (IF large THEN <<size, packed>> ELSE <<>>)
                   \o (IF far THEN <<data>> ELSE <<>>)]

AddMember ==
  /\ pc = "zip" /\ Len(entries) < Len(Members)
  /\ \E size, packed \in Sizes :
       LET e == Listed(Members[Len(entries) + 1], size, packed)
       IN  /\ packed <= size
           /\ entries' = Append(entries, [listed |-> e, at |-> data])
           /\ data' = data + 1 + packed
           /\ directory' = directory + 1 + Len(e.extra)
  /\ files' = files \cup {"zip"}
  /\ UNCHANGED <<build, staged, licences, reading, pc>>

(* zipfile writes the ZIP64 record for what does not fit 31 bits, ... *)
Zip64 == data > Small \/ directory > Small

(* ... but puts a sentinel only for what does not fit 32. *)
End == [size |-> Smaller(directory, Sentinel), offset |-> Smaller(data, Sentinel)]

Length == data + directory + (IF Zip64 THEN 2 ELSE 0) + 1

CloseArchive ==
  /\ pc = "zip" /\ Len(entries) = Len(Members) /\ pc' = "names"
  /\ UNCHANGED <<build, staged, licences, archive, reading, files>>

----------------------------------------------------------------------------
(* The archive, as raw_zip_names() reads it                                *)

(* The ZIP64 record counts only if the end record points to it. *)
Redirected == End.size = Sentinel \/ End.offset = Sentinel

Directory ==
  IF Redirected
  THEN [size |-> directory, offset |-> data, end |-> data + directory]
  ELSE [size |-> End.size, offset |-> End.offset, end |-> Length - 1]

DirectoryFits == /\ Directory.offset <= Directory.end
                 /\ Directory.size = Directory.end - Directory.offset

(* A slip: the ZIP64 field is taken to hold the offset alone. *)
FirstField(e) ==
  IF e.at # Sentinel THEN e.at
  ELSE IF e.extra = <<>> THEN Sentinel ELSE e.extra[1]

(* The offset of a member, behind the lengths in the ZIP64 field. *)
LocalAt(e) ==
  LET skip == (IF e.size = Sentinel THEN 1 ELSE 0)
                + (IF e.packed = Sentinel THEN 1 ELSE 0)
  IN  IF e.at # Sentinel THEN e.at
      ELSE IF skip < Len(e.extra) THEN e.extra[skip + 1] ELSE Sentinel

LocalsMatch ==
  \A i \in DOMAIN entries :
    LET e == entries[i].listed
    IN  /\ LocalAt(e) < Directory.offset
        /\ \E j \in DOMAIN entries : /\ entries[j].at = LocalAt(e)
                                     /\ entries[j].listed.name = e.name

NamesAccepted == DirectoryFits /\ LocalsMatch

(* A package that is refused is removed, and the layout of one that is       *)
(* accepted matters no more.                                                 *)
CheckNames ==
  /\ Step("names", NamesAccepted, "header")
  /\ files' = IF NamesAccepted THEN files ELSE files \ {"zip"}
  /\ entries' = <<>> /\ data' = 0 /\ directory' = 0
  /\ UNCHANGED <<build, staged, licences, reading>>

----------------------------------------------------------------------------
(* The boot image, as validate_package() reads it                          *)

Pages(n) == ((n + Page - 1) \div Page) * Page

RamdiskAt == Page + Pages(boot.kernel)

(* mkbootimg fills the sections up to whole pages. *)
BootLength == RamdiskAt + Pages(boot.ramdisk)

(* boot_header(), on the first chunk. *)
ReadHeader ==
  \E b \in Boots :
    LET fits == b.kernel <= MaxKernel /\ b.ramdisk <= MaxRamdisk
    IN  /\ Step("header", fits, "boot")
        /\ boot' = b /\ offset' = 0 /\ hashed' = {} /\ magic' = {}
        /\ files' = IF fits THEN files ELSE files \ {"zip"}
        /\ UNCHANGED <<build, staged, licences, archive>>

(* A slip: the piece ends with the chunk, not with the section. *)
ToEndOfChunk(from, to, first, end) == Larger(first, from)..(to - 1)

(* The bytes of a section that are in a chunk. *)
Piece(from, to, first, end) == Larger(first, from)..(Smaller(end, to) - 1)

(* A slip: every chunk is taken for a full one. *)
FullChunk(from) == from + Chunk

ChunkEnd(from) == Smaller(from + Chunk, BootLength)

ReadChunk ==
  LET to == ChunkEnd(offset)
      kernel == Piece(offset, to, Page, Page + boot.kernel)
      ramdisk == Piece(offset, to, RamdiskAt, RamdiskAt + 3)
  IN  /\ pc = "boot" /\ offset < BootLength
      /\ hashed' = hashed \cup kernel /\ magic' = magic \cup ramdisk
      /\ offset' = to
      /\ UNCHANGED <<build, staged, licences, archive, boot, files, pc>>

KernelBytes == Page..(Page + boot.kernel - 1)
MagicBytes == RamdiskAt..(RamdiskAt + 2)

(* What is hashed is the kernel of the source lock, in whatever boot image. *)
KernelLocked ==
  /\ magic = MagicBytes
  /\ hashed = KernelBytes /\ staged["boot"] # "rekernelled"

CheckKernel ==
  /\ offset = BootLength
  /\ Step("boot", KernelLocked, "sha256")
  /\ files' = IF KernelLocked THEN files ELSE files \ {"zip"}
  /\ UNCHANGED <<build, staged, licences, archive, reading>>

----------------------------------------------------------------------------
(* What is put beside the package, and what happens around the run         *)

WriteHash ==
  /\ Step("sha256", TRUE, "report") /\ files' = files \cup {"sha256"}
  /\ UNCHANGED <<build, staged, licences, archive, reading>>

WriteAudit ==
  /\ Step("report", TRUE, "done") /\ files' = files \cup {"audit"}
  /\ UNCHANGED <<build, staged, licences, archive, reading>>

(* An image is built again, or the boot payload made anew. *)
Rebuild(r) ==
  /\ rebuilds < MaxRebuilds /\ rebuilds' = rebuilds + 1
  /\ \E new \in {"remade"} \cup (IF r = "boot" THEN {"rekernelled"} ELSE {}) :
       current' = [current EXCEPT ![r] = new]
  /\ UNCHANGED <<staged, licences, archive, reading, files, pc>>

RunDies ==
  /\ pc \notin {"idle", "done", "refused", "dead"} /\ pc' = "dead"
  /\ UNCHANGED <<build, staged, licences, archive, reading, files>>

Next ==
  \/ Audit \/ CollectNotices \/ SplitLicence \/ CheckManifest
  \/ AddMember \/ CloseArchive \/ CheckNames
  \/ ReadHeader \/ ReadChunk \/ CheckKernel \/ WriteHash \/ WriteAudit
  \/ \E r \in Role : Copy(r) \/ Rebuild(r)
  \/ RunDies

Spec == Init /\ [][Next]_vars

----------------------------------------------------------------------------
(* Properties                                                              *)

Label == {"idle", "copy", "notices", "licences", "zip", "names", "header",
          "boot", "sha256", "report", "done", "refused", "dead"}

TypeOK ==
  /\ current \in [Role -> Version] /\ rebuilds \in 0..MaxRebuilds
  /\ staged \in [Role -> Version \cup {None}]
  /\ text \in Seq(Byte) /\ rest \in Seq(Byte) /\ parts \in Seq(Seq(Byte))
  /\ Len(entries) <= Len(Members) /\ data \in Nat /\ directory \in Nat
  /\ boot \in [kernel : Nat, ramdisk : Nat] /\ offset \in 0..BootLength
  /\ hashed \subseteq 0..BootLength /\ magic \subseteq 0..BootLength
  /\ files \subseteq {"zip", "sha256", "audit"}
  /\ pc \in Label

(* The licence files hold the notices verbatim: put together they are the    *)
(* text, each is of a length that a reader admits and decodes by itself, and *)
(* all but the last are at least half full, so that their number is bounded  *)
(* (license_parts(), lines 294 to 317).                                      *)
LicencesWhole ==
  LET Whole[n \in 0..Len(parts)] ==
        IF n = 0 THEN <<>> ELSE Whole[n - 1] \o parts[n]
  IN  /\ Whole[Len(parts)] \o rest = text
      /\ \A i \in DOMAIN parts :
           /\ Len(parts[i]) \in 1..Limit /\ parts[i][1] # "next"
           /\ i < Len(parts) \/ rest # <<>> =>
                Len(parts[i]) >= Smaller(Limit \div 2 + 1, Limit - 3)

(* However the chunks fall, exactly the kernel is hashed and the first bytes *)
(* of the ramdisk are looked at (lines 283 to 301 of system-package.py).     *)
BootReadExactly ==
  pc = "boot" /\ offset = BootLength =>
    /\ hashed = KernelBytes /\ magic = MagicBytes
    /\ KernelBytes \cap MagicBytes = {}

(* The end record names a directory behind 31 bits without a sentinel. *)
Misled == Zip64 /\ ~Redirected

(* A well-formed package is not refused: what the producer writes, the       *)
(* reader finds, ZIP64 fields and all, except in the archives whose          *)
(* directory begins between 2 and 4 GiB (see Zip64Supported).                *)
ProducedAccepted == pc = "names" => (NamesAccepted <=> ~Misled)

(* RELEASE_FORMAT.md:12: "ZIP64 supported when necessary". *)
Zip64Supported == pc = "names" => NamesAccepted
=============================================================================

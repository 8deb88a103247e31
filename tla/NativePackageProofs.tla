-------------------------- MODULE NativePackageProofs --------------------------
(***************************************************************************)
(* Proofs about NativePackage, for any builds, sequences, failures and     *)
(* changes by hand: its types, that a delivered package is one audited     *)
(* build's, that the public release is the tested build, and that signed   *)
(* catalogs and archived containers are never replaced by a run.           *)
(*                                                                         *)
(* Nobody changes the package while a run works in it.  The invariant says *)
(* which files are, at each label, what the run has made or compared; and  *)
(* of a proof that lies in the package, that it speaks of one build.       *)
(***************************************************************************)
EXTENDS NativePackage, TLAPS

ProofsMade == {"wrapper", "proof"}
AfterCatalog == {"signature"} \cup ProofsMade
AfterPayload == {"catalog"} \cup AfterCatalog
AfterNative == {"payload"} \cup AfterPayload
AfterTarget == {"release", "finisher", "archive", "native"} \cup AfterNative
AfterBaseline == {"target"} \cup AfterTarget

(* The labels of the three programs. *)
Labels ==
  pc # "idle" =>
    /\ job \in Job
    /\ job.kind = "package" =>
         pc \in {"material", "system", "baseline", "target", "release", "native"}
                  \cup AfterNative
    /\ job.kind = "complete" =>
         pc \in {"finisher", "archive", "native"} \cup AfterNative
    /\ job.kind = "promote" =>
         /\ pc \in {"reverify", "baseline"} \cup AfterPayload
         /\ job.intermediate = TestedBuild

(* A run works in a directory of its own; what was not made is empty. *)
Placed ==
  /\ files = [d \in Directory |-> [f \in File |-> files[d][f]]]
  /\ pc # "idle" => Here \in made
  /\ \A d \in Directory \ made, f \in File : files[d][f] = None

PrivateCatalog == [sequence |-> job.sequence, payload |-> job.intermediate,
                   public |-> job.public]

(* What packaging and completion have made or compared so far. *)
Making ==
  pc # "idle" /\ ~Promoting =>
    /\ pc \in {"system", "baseline", "target", "release"} =>
         Package["material"] = job.intermediate
    /\ job.kind = "complete" \/ pc \in {"material", "system"}
         \/ SequenceOf[job.intermediate] = job.sequence
    /\ pc \in AfterBaseline => Package["baseline"] = job.intermediate
    /\ pc \in AfterTarget => Package["target"] = job.intermediate
    /\ pc \in AfterNative => Package["native"] = job.intermediate
    /\ pc \in AfterPayload => Package["payload"] = job.intermediate
    /\ pc \in AfterCatalog => Package["catalog"] = PrivateCatalog
    /\ pc \in ProofsMade => Package["signature"] = PrivateCatalog
    /\ pc = "proof" => Package["wrapper"] = [payload |-> job.intermediate,
                         catalog |-> PrivateCatalog, signature |-> PrivateCatalog]

(* A proof is of one build, whatever became of the files it names. *)
ProofOfOneBuild ==
  Whole("package", "proof") => Package["proof"].payload = Package["proof"].baseline

PublicCatalog(isPublic) ==
  [sequence |-> SequenceOf[TestedBuild], payload |-> TestedBuild, public |-> isPublic]

Public == files["public"]

(* What promotion has compared, and what it has made so far. *)
PromotingTested ==
  pc # "idle" /\ Promoting =>
    /\ Package["proof"] \in Proof /\ Package["proof"].baseline = TestedBuild
    /\ Package["proof"].payload = TestedBuild
    /\ SourceAsProven
    /\ pc # "reverify" => /\ Package["wrapper"].payload = TestedBuild
                          /\ Package["wrapper"].catalog = PublicCatalog(FALSE)
    /\ pc \in AfterCatalog \cup {"baseline"} => Public["catalog"] = PublicCatalog(TRUE)
    /\ pc \in ProofsMade \cup {"baseline"} => Public["signature"] = PublicCatalog(TRUE)
    /\ pc \in {"baseline", "proof"} =>
         Public["wrapper"] = [payload |-> TestedBuild, catalog |-> PublicCatalog(TRUE),
                              signature |-> PublicCatalog(TRUE)]
    /\ pc = "proof" => Public["baseline"] = TestedBuild

(* A run signs where nothing was signed. *)
SignedOnce ==
  pc # "idle" /\ pc \notin ProofsMade /\ ~(Promoting /\ pc = "baseline") =>
    Here \in Directory /\ files[Here]["signature"] =
      IF pc = "signature" /\ writing THEN Partial ELSE None

IInv == /\ TypeOK /\ Labels /\ Placed /\ Making /\ ProofOfOneBuild
        /\ PromotingTested /\ SignedOnce
        /\ DeliveredAsAudited /\ PublishedAsTested

----------------------------------------------------------------------------
(* Files                                                                   *)

(* What a run or a hand may put into a file. *)
May(f, content) ==
  \/ content = None \/ (content = Partial /\ f # "failed")
  \/ f \in Image /\ content \in Build
  \/ f \in {"catalog", "signature"} /\ content \in Catalog
  \/ f = "wrapper" /\ content \in Wrapper
  \/ f = "proof" /\ content \in Proof
  \/ f = "finisher" /\ content = TestedBuild

FilesTyped == \A d \in Directory, f \in File : May(f, files[d][f])

RestTyped ==
  /\ made \subseteq Directory /\ targetFiles \in Build
  /\ pc \in File \cup {"idle", "system", "release", "archive", "reverify"}
  /\ writing \in BOOLEAN /\ job \in Job \cup {None}
  /\ kills \in 0..MaxKills /\ changes \in 0..MaxChanges

LEMMA TypeSplit == TypeOK <=> FilesTyped /\ RestTyped
<1>1. TypeOK => FilesTyped
  BY DEF TypeOK, FilesTyped, May, File, Image, Delivery, Marker
<1>2. ASSUME FilesTyped, RestTyped PROVE TypeOK
  <2>1. ASSUME NEW d \in Directory, NEW f \in Image \ {"failed"}
        PROVE  files[d][f] \in Build \cup Marker
    BY <1>2 DEF FilesTyped, May, File, Image, Marker
  <2>2. ASSUME NEW d \in Directory
        PROVE  /\ files[d]["failed"] \in Build \cup {None}
               /\ files[d]["catalog"] \in Catalog \cup Marker
               /\ files[d]["signature"] \in Catalog \cup Marker
    BY <1>2 DEF FilesTyped, May, File, Image, Delivery, Marker
  <2>3. ASSUME NEW d \in Directory
        PROVE  /\ files[d]["wrapper"] \in Wrapper \cup Marker
               /\ files[d]["proof"] \in Proof \cup Marker
               /\ files[d]["finisher"] \in {TestedBuild} \cup Marker
    BY <1>2 DEF FilesTyped, May, File, Image, Delivery, Marker
  <2> QED BY <1>2, <2>1, <2>2, <2>3 DEF TypeOK, RestTyped
<1> QED BY <1>1, <1>2 DEF TypeOK, RestTyped

Shape == files = [d \in Directory |-> [f \in File |-> files[d][f]]]

LEMMA SetFacts ==
  ASSUME Shape, NEW d \in Directory, NEW f \in File, NEW content, Set(d, f, content)
  PROVE  /\ Shape' /\ files'[d][f] = content
         /\ \A e \in Directory, g \in File :
              ~(e = d /\ g = f) => files'[e][g] = files[e][g]
BY DEF Shape, Set

LEMMA SetTyped ==
  ASSUME Shape, FilesTyped, NEW d \in Directory, NEW f \in File, NEW content,
         Set(d, f, content), May(f, content)
  PROVE  FilesTyped'
BY SetFacts DEF FilesTyped, May

(* A file is not begun, begun, or made. *)
LEMMA WriteFacts ==
  ASSUME Shape, NEW f \in File, NEW content, NEW next, Write(f, content, next),
         Here \in Directory
  PROVE  /\ pc = f /\ Shape' /\ UNCHANGED <<made, targetFiles, kills, changes>>
         /\ \A e \in Directory, g \in File :
              ~(e = Here /\ g = f) => files'[e][g] = files[e][g]
         /\ \/ /\ files' = files /\ pc' = "idle" /\ writing' = FALSE /\ job' = None
            \/ /\ ~writing /\ files'[Here][f] = Partial /\ writing' = TRUE
               /\ pc' = pc /\ job' = job
            \/ /\ writing /\ files'[Here][f] = content /\ writing' = FALSE
               /\ pc' = next /\ job' = IF next = "idle" THEN None ELSE job
<1>1. CASE ~writing /\ f \in Exclusive /\ Exists(Here, f)
  BY <1>1 DEF Write, Refuse, Shape
<1>2. CASE ~writing /\ ~(f \in Exclusive /\ Exists(Here, f))
  <2>1. Set(Here, f, Partial) BY <1>2 DEF Write
  <2> QED BY <1>2, <2>1, SetFacts DEF Write
<1>3. CASE writing
  <2>1. Set(Here, f, content) BY <1>3 DEF Write
  <2> QED BY <1>3, <2>1, SetFacts DEF Write
<1> QED BY <1>1, <1>2, <1>3

----------------------------------------------------------------------------
(* The steps that write a file                                             *)

Writing == \/ StageMaterial \/ MakeBaseline \/ AdaptTargetFiles \/ RunOtaTool
           \/ UnpackPayload \/ WriteCatalog \/ SignCatalog \/ MakeWrapper
           \/ WriteProof \/ MakeFinisher \/ MakePublicWrapper

USE DEF directories, run, history, vars

(* What each label writes, and where it goes on. *)
LEMMA WritingCases ==
  ASSUME Writing, Labels
  PROVE  \/ UNCHANGED directories /\ Refuse
         \/ /\ pc = "material" /\ ~Promoting
            /\ Write("material", job.intermediate, "system")
         \/ pc = "baseline" /\ ~Promoting /\ Write("baseline", Package["material"], "target")
         \/ pc = "target" /\ ~Promoting /\ Write("target", Package["material"], "release")
         \/ pc = "native" /\ ~Promoting /\ Write("native", Package["target"], "payload")
         \/ pc = "payload" /\ ~Promoting /\ Write("payload", Package["native"], "catalog")
         \/ pc = "catalog" /\ Write("catalog", NewCatalog, "signature")
         \/ pc = "signature" /\ Write("signature", files[Here]["catalog"], "wrapper")
         \/ /\ pc = "wrapper" /\ ~Promoting
            /\ Write("wrapper", [payload |-> Package["payload"],
                                 catalog |-> Package["catalog"],
                                 signature |-> Package["signature"]], "proof")
         \/ pc = "proof" /\ Write("proof", NewProof, "idle")
         \/ pc = "finisher" /\ ~Promoting /\ Write("finisher", TestedBuild, "archive")
         \/ /\ pc = "wrapper" /\ Promoting
            /\ Write("wrapper", [Package["wrapper"] EXCEPT
                        !.catalog = files["public"]["catalog"],
                        !.signature = files["public"]["signature"]], "baseline")
<1>1. CASE StageMaterial BY <1>1 DEF StageMaterial, Write, Labels, Promoting,
  AfterPayload, AfterCatalog, ProofsMade
<1>2. CASE MakeBaseline BY <1>2 DEF MakeBaseline
<1>3. CASE AdaptTargetFiles BY <1>3 DEF AdaptTargetFiles, Write, Labels, Promoting,
  AfterPayload, AfterCatalog, ProofsMade
<1>4. CASE RunOtaTool BY <1>4 DEF RunOtaTool, Write, Labels, Promoting,
  AfterPayload, AfterCatalog, ProofsMade
<1>5. CASE UnpackPayload BY <1>5 DEF UnpackPayload, Write, Labels, Promoting,
  AfterPayload, AfterCatalog, ProofsMade
<1>6. CASE WriteCatalog \/ SignCatalog \/ WriteProof
  BY <1>6 DEF WriteCatalog, SignCatalog, WriteProof, Write
<1>7. CASE MakeWrapper \/ MakePublicWrapper BY <1>7 DEF MakeWrapper, MakePublicWrapper
<1>8. CASE MakeFinisher BY <1>8 DEF MakeFinisher, Write, Labels, Promoting,
  AfterPayload, AfterCatalog, ProofsMade
<1> QED BY <1>1, <1>2, <1>3, <1>4, <1>5, <1>6, <1>7, <1>8 DEF Writing

LEMMA HereFacts ==
  ASSUME Labels, Placed, RestTyped, pc # "idle"
  PROVE  /\ Here \in Directory /\ Here \in made /\ "package" \in Directory
         /\ (~Promoting => Here = "package") /\ (Promoting => Here = "public")
         /\ job \in Job /\ job.intermediate \in Build /\ job.sequence \in Sequence
         /\ job.public \in BOOLEAN
BY DEF Labels, Placed, RestTyped, Here, Directory, Job

(* Each content is of the file's kind. *)
LEMMA FilesStep ==
  /\ FilesTyped /\ RestTyped /\ Labels /\ Placed /\ Making /\ PromotingTested
  /\ SignedOnce /\ [Next]_vars
  => FilesTyped'
<1> SUFFICES ASSUME FilesTyped, RestTyped, Labels, Placed, Making,
                    PromotingTested, SignedOnce, [Next]_vars
             PROVE  FilesTyped'
  OBVIOUS
<1>s. Shape BY DEF Placed, Shape
<1>1. CASE UNCHANGED files BY <1>1 DEF FilesTyped
<1>2. ASSUME NEW f \in File, NEW content, NEW next, Write(f, content, next),
             f # "failed", May(f, content), pc # "idle"
      PROVE  FilesTyped'
  <2>1. Here \in Directory BY <1>2, HereFacts
  <2>2. \A e \in Directory, g \in File : ~(e = Here /\ g = f) => files'[e][g] = files[e][g]
    BY <1>s, <1>2, <2>1, WriteFacts
  <2>3. files' = files \/ files'[Here][f] = Partial \/ files'[Here][f] = content
    BY <1>s, <1>2, <2>1, WriteFacts
  <2>4. May(f, Partial) BY <1>2 DEF May
  <2> QED BY <1>2, <2>1, <2>2, <2>3, <2>4 DEF FilesTyped
<1>3. CASE Writing
  <2>1. CASE UNCHANGED directories BY <2>1 DEF FilesTyped
  <2>2. CASE pc = "material" /\ Write("material", job.intermediate, "system")
    BY <1>2, <2>2, HereFacts DEF May, File, Image
  <2>3. CASE pc = "baseline" /\ ~Promoting /\ Write("baseline", Package["material"], "target")
    <3>1. Package["material"] \in Build BY <2>3, HereFacts DEF Making
    <3> QED BY <1>2, <2>3, <3>1 DEF May, File, Image
  <2>4. CASE pc = "target" /\ ~Promoting /\ Write("target", Package["material"], "release")
    <3>1. Package["material"] \in Build BY <2>4, HereFacts DEF Making
    <3> QED BY <1>2, <2>4, <3>1 DEF May, File, Image
  <2>5. CASE pc = "native" /\ ~Promoting /\ Write("native", Package["target"], "payload")
    <3>1. Package["target"] \in Build BY <2>5, HereFacts DEF Making, AfterTarget
    <3> QED BY <1>2, <2>5, <3>1 DEF May, File, Image
  <2>6. CASE pc = "payload" /\ ~Promoting /\ Write("payload", Package["native"], "catalog")
    <3>1. Package["native"] \in Build BY <2>6, HereFacts DEF Making, AfterNative
    <3> QED BY <1>2, <2>6, <3>1 DEF May, File, Image
  <2>7. CASE pc = "catalog" /\ Write("catalog", NewCatalog, "signature")
    <3>1. NewCatalog \in Catalog
      <4>1. CASE Promoting
        <5>1. Package["wrapper"].catalog \in Catalog
          BY <2>7, <4>1 DEF PromotingTested, SourceAsProven, Proof, Wrapper
        <5> QED BY <4>1, <5>1 DEF NewCatalog, Catalog
      <4>2. CASE ~Promoting
        <5>1. Package["payload"] \in Build
          BY <2>7, <4>2, HereFacts DEF Making, AfterPayload
        <5> QED BY <2>7, <4>2, <5>1, HereFacts DEF NewCatalog, Catalog
      <4> QED BY <4>1, <4>2
    <3> QED BY <1>2, <2>7, <3>1 DEF May, File, Delivery
  <2>8. CASE pc = "signature" /\ Write("signature", files[Here]["catalog"], "wrapper")
    <3>1. files[Here]["catalog"] \in Catalog
      <4>1. CASE Promoting
        <5>1. files[Here]["catalog"] = PublicCatalog(TRUE)
          BY <2>8, <4>1, HereFacts DEF PromotingTested, AfterCatalog, Public
        <5> QED BY <5>1, BuildAssumption DEF PublicCatalog, Catalog, Sequence
      <4>2. CASE ~Promoting
        <5>1. files[Here]["catalog"] = PrivateCatalog
          BY <2>8, <4>2, HereFacts DEF Making, AfterCatalog, Package
        <5> QED BY <2>8, <5>1, HereFacts DEF PrivateCatalog, Catalog
      <4> QED BY <4>1, <4>2
    <3> QED BY <1>2, <2>8, <3>1 DEF May, File, Delivery
  <2>9. CASE /\ pc = "wrapper" /\ ~Promoting
             /\ Write("wrapper", [payload |-> Package["payload"],
                                  catalog |-> Package["catalog"],
                                  signature |-> Package["signature"]], "proof")
    <3>1. /\ Package["payload"] = job.intermediate
          /\ Package["catalog"] = PrivateCatalog /\ Package["signature"] = PrivateCatalog
      BY <2>9 DEF Making, AfterPayload, AfterCatalog, ProofsMade
    <3>2. PrivateCatalog \in Catalog BY <2>9, HereFacts DEF PrivateCatalog, Catalog
    <3>3. [payload |-> Package["payload"], catalog |-> Package["catalog"],
           signature |-> Package["signature"]] \in Wrapper
      BY <2>9, <3>1, <3>2, HereFacts DEF Wrapper
    <3> QED BY <1>2, <2>9, <3>3 DEF May, File, Delivery
  <2>10. CASE pc = "proof" /\ Write("proof", NewProof, "idle")
    <3>1. NewProof \in Proof
      <4>1. CASE Promoting
        <5>1. /\ Package["proof"] \in Proof
              /\ Public["wrapper"] = [payload |-> TestedBuild,
                   catalog |-> PublicCatalog(TRUE), signature |-> PublicCatalog(TRUE)]
          BY <2>10, <4>1 DEF PromotingTested
        <5>2. PublicCatalog(TRUE) \in Catalog
          BY BuildAssumption DEF PublicCatalog, Catalog, Sequence
        <5>w. [payload |-> TestedBuild, catalog |-> PublicCatalog(TRUE),
               signature |-> PublicCatalog(TRUE)] \in Wrapper
          BY <5>2, BuildAssumption DEF Wrapper
        <5>3. Public["wrapper"] \in Wrapper BY <5>1, <5>w
        <5> QED BY <4>1, <5>1, <5>3 DEF NewProof, Proof, Public
      <4>2. CASE ~Promoting
        <5>1. /\ Package["baseline"] = job.intermediate
              /\ Package["payload"] = job.intermediate
              /\ Package["wrapper"] = [payload |-> job.intermediate,
                   catalog |-> PrivateCatalog, signature |-> PrivateCatalog]
          BY <2>10, <4>2 DEF Making, AfterPayload, AfterCatalog, ProofsMade,
             AfterBaseline, AfterTarget, AfterNative
        <5>2. PrivateCatalog \in Catalog BY <2>10, HereFacts DEF PrivateCatalog, Catalog
        <5>3. Package["wrapper"] \in Wrapper BY <2>10, <5>1, <5>2, HereFacts DEF Wrapper
        <5> QED BY <2>10, <4>2, <5>1, <5>3, HereFacts DEF NewProof, Proof
      <4> QED BY <4>1, <4>2
    <3> QED BY <1>2, <2>10, <3>1 DEF May, File, Delivery
  <2>11. CASE pc = "finisher" /\ Write("finisher", TestedBuild, "archive")
    BY <1>2, <2>11 DEF May, File
  <2>12. CASE /\ pc = "wrapper" /\ Promoting
              /\ Write("wrapper", [Package["wrapper"] EXCEPT
                          !.catalog = files["public"]["catalog"],
                          !.signature = files["public"]["signature"]], "baseline")
    <3>1. /\ Package["wrapper"] \in Wrapper /\ Public["catalog"] = PublicCatalog(TRUE)
          /\ Public["signature"] = PublicCatalog(TRUE)
      BY <2>12 DEF PromotingTested, SourceAsProven, Proof, AfterCatalog, ProofsMade
    <3>2. PublicCatalog(TRUE) \in Catalog
      BY BuildAssumption DEF PublicCatalog, Catalog, Sequence
    <3>3. [Package["wrapper"] EXCEPT !.catalog = files["public"]["catalog"],
             !.signature = files["public"]["signature"]] \in Wrapper
      BY <3>1, <3>2 DEF Wrapper, Public
    <3> QED BY <1>2, <2>12, <3>3 DEF May, File, Delivery
  <2> QED BY <1>3, <2>1, <2>2, <2>3, <2>4, <2>5, <2>6, <2>7, <2>8, <2>9, <2>10,
             <2>11, <2>12, WritingCases
<1>4. CASE ReleaseMaterial
  BY <1>s, <1>4, SetTyped DEF ReleaseMaterial, May, File, Image, Directory
<1>5. CASE ArchiveContainer
  <2>1. CASE UNCHANGED files BY <2>1 DEF FilesTyped
  <2>2. CASE /\ Whole("package", "native")
             /\ files' = [files EXCEPT !["package"]["failed"] = Package["native"],
                                       !["package"]["native"] = None]
    <3>1. Package["native"] \in Build
      <4>1. May("native", Package["native"])
        BY DEF FilesTyped, File, Image, Directory, Package
      <4> QED BY <2>2, <4>1 DEF May, Whole, Marker, Package
    <3>2. ASSUME NEW d \in Directory, NEW f \in File
          PROVE  files'[d][f] \in {files[d][f], None}
                 \/ (f = "failed" /\ files'[d][f] = Package["native"])
      BY <1>s, <2>2 DEF Shape, File, Image, Directory
    <3>3. "failed" \in Image BY DEF Image
    <3> QED BY <3>1, <3>2, <3>3 DEF FilesTyped, May
  <2> QED BY <1>5, <2>1, <2>2 DEF ArchiveContainer
<1>6. CASE LinkBaseline
  <2>1. pc = "baseline" /\ Promoting /\ Set("public", "baseline", Package["baseline"])
    BY <1>6 DEF LinkBaseline
  <2>2. Package["baseline"] = TestedBuild
    BY <2>1 DEF PromotingTested, SourceAsProven
  <2> QED BY <1>s, <2>1, <2>2, BuildAssumption, SetTyped DEF May, File, Image, Directory
<1>7. CASE OperatorChanges
  <2>1. CASE \E f \in Image \ {"failed"}, b \in Build : Set("package", f, b)
    BY <1>s, <2>1, SetTyped DEF May, File, Directory
  <2>2. CASE \E f \in Image \cup {"finisher"} : Set("package", f, None)
    BY <1>s, <2>2, SetTyped DEF May, File, Directory
  <2>3. CASE /\ Whole("package", "wrapper")
             /\ \E b \in Build : Set("package", "wrapper",
                                     [Package["wrapper"] EXCEPT !.payload = b])
    <3>1. Package["wrapper"] \in Wrapper
      <4>1. May("wrapper", Package["wrapper"])
        BY DEF FilesTyped, File, Delivery, Directory, Package
      <4> QED BY <2>3, <4>1 DEF May, Whole, Marker, Image, Package
    <3>2. PICK b \in Build :
            Set("package", "wrapper", [Package["wrapper"] EXCEPT !.payload = b])
      BY <2>3
    <3>3. [Package["wrapper"] EXCEPT !.payload = b] \in Wrapper BY <3>1 DEF Wrapper
    <3> QED BY <1>s, <3>2, <3>3, SetTyped DEF May, File, Delivery, Directory
  <2> QED BY <1>7, <2>1, <2>2, <2>3 DEF OperatorChanges
<1>8. \/ UNCHANGED files \/ Writing \/ ReleaseMaterial \/ ArchiveContainer
      \/ LinkBaseline \/ OperatorChanges
  BY DEF Next, Packaging, Updating, Writing, StartPackage, CheckSystem,
     StartCompletion, StartPromotion, Reverify, RebuildTargetFiles, RunDies
<1> QED BY <1>1, <1>3, <1>4, <1>5, <1>6, <1>7, <1>8

----------------------------------------------------------------------------
(* Where a run is                                                          *)

(* The labels after a file is made. *)
Flow(f, next) ==
  \/ f = "catalog" /\ next = "signature"
  \/ f = "signature" /\ next = "wrapper"
  \/ f = "wrapper" /\ next = "baseline" /\ Promoting
  \/ ~Promoting /\ <<f, next>> \in
       {<<"material", "system">>, <<"baseline", "target">>, <<"target", "release">>,
        <<"finisher", "archive">>, <<"native", "payload">>, <<"payload", "catalog">>,
        <<"wrapper", "proof">>}

(* A run that writes fails, begins its file, or goes on to the next label.  *)
LEMMA WritingFlow ==
  ASSUME Writing, Labels, Placed, RestTyped
  PROVE  /\ pc # "idle" /\ Shape' /\ UNCHANGED <<made, targetFiles, kills, changes>>
         /\ \A e \in Directory, g \in File :
              ~(e = Here /\ g = pc) => files'[e][g] = files[e][g]
         /\ \/ pc' = "idle" /\ writing' = FALSE /\ job' = None
            \/ /\ pc' = pc /\ job' = job /\ ~writing /\ writing' = TRUE
               /\ files'[Here][pc] = Partial
            \/ job' = job /\ writing /\ writing' = FALSE /\ Flow(pc, pc')
<1>s. Shape BY DEF Placed, Shape
<1>0. pc # "idle" /\ UNCHANGED <<made, targetFiles, kills, changes>>
  BY DEF Writing, StageMaterial, MakeBaseline, AdaptTargetFiles, RunOtaTool,
     UnpackPayload, WriteCatalog, SignCatalog, MakeWrapper, WriteProof,
     MakeFinisher, MakePublicWrapper, Write
<1>h. Here \in Directory BY <1>0, HereFacts
<1>1. CASE UNCHANGED directories /\ Refuse
  BY <1>0, <1>1, <1>s DEF Refuse, Shape
<1>2. ASSUME NEW f \in File, NEW content, NEW next, Write(f, content, next),
             Flow(f, next) \/ next = "idle"
      PROVE  /\ Shape'
             /\ \A e \in Directory, g \in File :
                  ~(e = Here /\ g = pc) => files'[e][g] = files[e][g]
             /\ \/ pc' = "idle" /\ writing' = FALSE /\ job' = None
                \/ /\ pc' = pc /\ job' = job /\ ~writing /\ writing' = TRUE
                   /\ files'[Here][pc] = Partial
                \/ job' = job /\ writing /\ writing' = FALSE /\ Flow(pc, pc')
  <2>1. /\ pc = f /\ Shape'
        /\ \A e \in Directory, g \in File :
             ~(e = Here /\ g = pc) => files'[e][g] = files[e][g]
        /\ \/ pc' = "idle" /\ writing' = FALSE /\ job' = None
           \/ /\ pc' = pc /\ job' = job /\ ~writing /\ writing' = TRUE
              /\ files'[Here][pc] = Partial
           \/ /\ writing /\ writing' = FALSE /\ pc' = next
              /\ job' = IF next = "idle" THEN None ELSE job
    BY <1>2, <1>s, <1>h, WriteFacts
  <2>2. next = "idle" => ~Flow(f, next) BY DEF Flow
  <2> QED BY <1>2, <2>1, <2>2
<1>3. \/ UNCHANGED directories /\ Refuse
      \/ \E f \in File : \E content, next :
           Write(f, content, next) /\ (Flow(f, next) \/ next = "idle")
  <2>1. {"material", "baseline", "target", "native", "payload", "catalog",
         "signature", "wrapper", "proof", "finisher"} \subseteq File
    BY DEF File, Image, Delivery
  <2> QED BY <2>1, WritingCases DEF Flow
<1> QED BY <1>0, <1>1, <1>2, <1>3

LEMMA RestStep ==
  RestTyped /\ Labels /\ Placed /\ [Next]_vars => RestTyped'
<1> SUFFICES ASSUME RestTyped, Labels, Placed, [Next]_vars PROVE RestTyped'
  OBVIOUS
<1> USE DEF RestTyped
<1>1. CASE UNCHANGED vars BY <1>1
<1>2. CASE Writing
  BY <1>2, WritingFlow DEF Flow, File, Image, Delivery
<1>3. CASE StartPackage \/ StartCompletion \/ StartPromotion
  <2>1. CASE StartPackage
    BY <2>1 DEF StartPackage, Job, File, Image, Directory
  <2>2. CASE StartCompletion BY <2>2 DEF StartCompletion, Job, File
  <2>3. CASE StartPromotion
    BY <2>3, BuildAssumption DEF StartPromotion, Job, File, Sequence, Directory
  <2> QED BY <1>3, <2>1, <2>2, <2>3
<1>4. CASE CheckSystem \/ ReleaseMaterial \/ ArchiveContainer \/ Reverify \/ LinkBaseline
  BY <1>4 DEF CheckSystem, ReleaseMaterial, ArchiveContainer, Reverify,
     LinkBaseline, Goto, Refuse, File, Image, Delivery
<1>5. CASE RebuildTargetFiles \/ OperatorChanges \/ RunDies
  <2>1. CASE RebuildTargetFiles BY <2>1 DEF RebuildTargetFiles
  <2>2. CASE OperatorChanges
    <3>1. /\ changes < MaxChanges /\ changes' = changes + 1
          /\ UNCHANGED <<made, targetFiles, pc, writing, job, kills>>
      BY <2>2 DEF OperatorChanges
    <3> QED BY <3>1, BoundAssumption
  <2>3. CASE RunDies
    <3>1. /\ kills < MaxKills /\ kills' = kills + 1 /\ pc' = "idle"
          /\ writing' = FALSE /\ job' = None
          /\ UNCHANGED <<made, targetFiles, changes>>
      BY <2>3 DEF RunDies, Refuse
    <3>2. kills' \in 0..MaxKills BY <3>1, BoundAssumption
    <3>3. writing' \in BOOLEAN BY <3>1
    <3> QED BY <3>1, <3>2, <3>3
  <2> QED BY <1>5, <2>1, <2>2, <2>3
<1> QED BY <1>1, <1>2, <1>3, <1>4, <1>5 DEF Next, Packaging, Updating, Writing

LEMMA LabelsStep ==
  RestTyped /\ Labels /\ Placed /\ [Next]_vars => Labels'
<1> SUFFICES ASSUME RestTyped, Labels, Placed, [Next]_vars PROVE Labels'
  OBVIOUS
<1> USE DEF Labels, AfterNative, AfterPayload, AfterCatalog, ProofsMade
<1>1. CASE UNCHANGED <<pc, job>> BY <1>1
<1>2. CASE Writing
  BY <1>2, WritingFlow DEF Flow, Promoting
<1>3. CASE StartPackage BY <1>3 DEF StartPackage, Job
<1>4. CASE StartCompletion BY <1>4 DEF StartCompletion, Job
<1>5. CASE StartPromotion
  BY <1>5, BuildAssumption DEF StartPromotion, Job, Sequence
<1>6. CASE CheckSystem \/ ReleaseMaterial \/ ArchiveContainer \/ Reverify \/ LinkBaseline
  BY <1>6 DEF CheckSystem, ReleaseMaterial, ArchiveContainer, Reverify,
     LinkBaseline, Goto, Refuse, Promoting
<1>7. CASE RunDies BY <1>7 DEF RunDies, Refuse
<1> QED BY <1>1, <1>2, <1>3, <1>4, <1>5, <1>6, <1>7
        DEF Next, Packaging, Updating, Writing, RebuildTargetFiles, OperatorChanges

LEMMA PlacedStep ==
  RestTyped /\ Labels /\ Placed /\ [Next]_vars => Placed'
<1> SUFFICES ASSUME RestTyped, Labels, Placed, [Next]_vars PROVE Placed'
  OBVIOUS
<1>s. Shape BY DEF Placed, Shape
<1>1. CASE UNCHANGED <<made, files, pc, job>> BY <1>1 DEF Placed, Here, Promoting
<1>2. CASE Writing
  <2>1. /\ Shape' /\ made' = made /\ Here \in made
        /\ \A e \in Directory, g \in File :
             ~(e = Here /\ g = pc) => files'[e][g] = files[e][g]
        /\ pc' # "idle" => Here' = Here
    BY <1>2, WritingFlow, HereFacts DEF Here, Promoting
  <2> QED BY <2>1 DEF Placed, Shape
<1>3. CASE StartPackage \/ StartCompletion \/ StartPromotion
  BY <1>3 DEF StartPackage, StartCompletion, StartPromotion, Completable, Placed,
     Here, Promoting
<1>4. CASE CheckSystem \/ Reverify \/ RunDies
  BY <1>4 DEF CheckSystem, Reverify, RunDies, Goto, Refuse, Placed, Here, Promoting
<1>5. ASSUME NEW d \in Directory, NEW f \in File, NEW content, Set(d, f, content),
             d \in made, made' = made, pc' # "idle" => pc # "idle" /\ job' = job
      PROVE  Placed'
  <2>1. /\ Shape' /\ \A e \in Directory, g \in File :
             ~(e = d /\ g = f) => files'[e][g] = files[e][g]
    BY <1>s, <1>5, SetFacts
  <2> QED BY <1>5, <2>1 DEF Placed, Shape, Here, Promoting
<1>6. CASE ReleaseMaterial
  <2>1. "package" \in made
    BY <1>6, HereFacts DEF ReleaseMaterial, Labels, Promoting, AfterPayload,
       AfterCatalog, ProofsMade
  <2> QED BY <1>5, <1>6, <2>1 DEF ReleaseMaterial, Goto, File, Image, Directory
<1>7. CASE LinkBaseline
  <2>1. "public" \in made BY <1>7, HereFacts DEF LinkBaseline
  <2> QED BY <1>5, <1>7, <2>1 DEF LinkBaseline, Goto, File, Image, Directory
<1>8. CASE OperatorChanges
  <2>1. /\ "package" \in made /\ made' = made /\ pc' = "idle"
        /\ \E f \in File : \E content : Set("package", f, content)
    BY <1>8 DEF OperatorChanges, File, Delivery
  <2> QED BY <1>5, <2>1 DEF Directory
<1>9. CASE ArchiveContainer
  <2>1. "package" \in made /\ made' = made
    BY <1>9, HereFacts DEF ArchiveContainer, Labels, Promoting, AfterPayload,
       AfterCatalog, ProofsMade
  <2>2. pc' # "idle" => pc # "idle" /\ job' = job
    BY <1>9 DEF ArchiveContainer, Goto, Refuse
  <2>3. \/ files' = files
        \/ files' = [files EXCEPT !["package"]["failed"] = Package["native"],
                                  !["package"]["native"] = None]
    BY <1>9 DEF ArchiveContainer
  <2>4. Shape' BY <1>s, <2>3 DEF Shape
  <2>5. \A d \in Directory, f \in File : d # "package" => files'[d][f] = files[d][f]
    BY <1>s, <2>3 DEF Shape
  <2> QED BY <2>1, <2>2, <2>4, <2>5 DEF Placed, Shape, Here, Promoting
<1> QED BY <1>1, <1>2, <1>3, <1>4, <1>6, <1>7, <1>8, <1>9
        DEF Next, Packaging, Updating, Writing, RebuildTargetFiles

----------------------------------------------------------------------------
(* What packaging and completion make                                      *)

(* A label without an interest in a file that changes. *)
LEMMA MakingWriting ==
  ASSUME Making, Labels, Placed, RestTyped, Writing PROVE Making'
<1> SUFFICES ASSUME pc' # "idle", ~Promoting' PROVE Making'
  BY DEF Making
<1> USE DEF AfterBaseline, AfterTarget, AfterNative, AfterPayload, AfterCatalog,
        ProofsMade
<1>1. /\ pc # "idle" /\ job' = job /\ ~Promoting
      /\ \/ pc' = pc /\ ~writing
         \/ writing /\ Flow(pc, pc')
  BY WritingFlow DEF Promoting
<1>2. /\ Here = "package" /\ "package" \in Directory
      /\ \A f \in File : f # pc => files'["package"][f] = files["package"][f]
  BY <1>1, WritingFlow, HereFacts
<1>3. \A f \in File : f # pc => Package'[f] = Package[f]
  BY <1>2 DEF Package
<1>4. File = {"material", "baseline", "target", "native", "failed", "payload",
              "catalog", "signature", "wrapper", "proof", "finisher"}
  BY DEF File, Image, Delivery
<1>5. PrivateCatalog' = PrivateCatalog BY <1>1 DEF PrivateCatalog
<1>6. CASE pc' = pc
  BY <1>1, <1>3, <1>4, <1>5, <1>6 DEF Making
<1>7. CASE pc' # pc
  <2>0. writing /\ Flow(pc, pc') BY <1>1, <1>7
  <2>w. ASSUME NEW f \in File, NEW content, NEW next, Write(f, content, next), f = pc
        PROVE  Package'[f] = content
    <3>1. Shape BY DEF Placed, Shape
    <3>2. files'["package"][f] = content \/ pc' = "idle"
      BY <1>2, <2>0, <2>w, <3>1, WriteFacts
    <3> QED BY <3>2 DEF Package
  <2>c. \/ pc = "material" /\ Write("material", job.intermediate, "system")
        \/ pc = "baseline" /\ Write("baseline", Package["material"], "target")
        \/ pc = "target" /\ Write("target", Package["material"], "release")
        \/ pc = "native" /\ Write("native", Package["target"], "payload")
        \/ pc = "payload" /\ Write("payload", Package["native"], "catalog")
        \/ pc = "catalog" /\ Write("catalog", NewCatalog, "signature")
        \/ pc = "signature" /\ Write("signature", files[Here]["catalog"], "wrapper")
        \/ pc = "wrapper"
           /\ Write("wrapper", [payload |-> Package["payload"],
                                catalog |-> Package["catalog"],
                                signature |-> Package["signature"]], "proof")
        \/ pc = "finisher"
    BY <1>1, <2>0, WritingCases DEF Refuse, Flow
  <2>1. CASE pc = "material" /\ Write("material", job.intermediate, "system")
    <3>1. Package'["material"] = job.intermediate BY <1>4, <2>w, <2>1
    <3> QED BY <1>1, <2>0, <2>1, <3>1 DEF Making, Flow
  <2>2. CASE pc = "baseline" /\ Write("baseline", Package["material"], "target")
    <3>1. Package'["baseline"] = Package["material"] BY <1>4, <2>w, <2>2
    <3> QED BY <1>1, <1>3, <1>4, <2>0, <2>2, <3>1 DEF Making, Flow
  <2>3. CASE pc = "target" /\ Write("target", Package["material"], "release")
    <3>1. Package'["target"] = Package["material"] BY <1>4, <2>w, <2>3
    <3> QED BY <1>1, <1>3, <1>4, <2>0, <2>3, <3>1 DEF Making, Flow
  <2>4. CASE pc = "native" /\ Write("native", Package["target"], "payload")
    <3>1. Package'["native"] = Package["target"] BY <1>4, <2>w, <2>4
    <3> QED BY <1>1, <1>3, <1>4, <2>0, <2>4, <3>1 DEF Making, Flow
  <2>5. CASE pc = "payload" /\ Write("payload", Package["native"], "catalog")
    <3>1. Package'["payload"] = Package["native"] BY <1>4, <2>w, <2>5
    <3> QED BY <1>1, <1>3, <1>4, <2>0, <2>5, <3>1 DEF Making, Flow
  <2>6. CASE pc = "catalog" /\ Write("catalog", NewCatalog, "signature")
    <3>1. Package'["catalog"] = NewCatalog BY <1>4, <2>w, <2>6
    <3>2. NewCatalog = PrivateCatalog
      BY <1>1, <2>6 DEF NewCatalog, PrivateCatalog, Making
    <3> QED BY <1>1, <1>3, <1>4, <1>5, <2>0, <2>6, <3>1, <3>2 DEF Making, Flow
  <2>7. CASE pc = "signature" /\ Write("signature", files[Here]["catalog"], "wrapper")
    <3>1. Package'["signature"] = files["package"]["catalog"]
      BY <1>2, <1>4, <2>w, <2>7
    <3>2. Package'["signature"] = PrivateCatalog
      BY <1>1, <2>7, <3>1 DEF Making, Package
    <3> QED BY <1>1, <1>3, <1>4, <1>5, <2>0, <2>7, <3>2 DEF Making, Flow
  <2>8. CASE pc = "wrapper"
             /\ Write("wrapper", [payload |-> Package["payload"],
                                  catalog |-> Package["catalog"],
                                  signature |-> Package["signature"]], "proof")
    <3>1. Package'["wrapper"] = [payload |-> Package["payload"],
                                 catalog |-> Package["catalog"],
                                 signature |-> Package["signature"]]
      BY <1>4, <2>w, <2>8
    <3>2. Package'["wrapper"] = [payload |-> job.intermediate,
                                 catalog |-> PrivateCatalog,
                                 signature |-> PrivateCatalog]
      BY <1>1, <2>8, <3>1 DEF Making
    <3> QED BY <1>1, <1>3, <1>4, <1>5, <2>0, <2>8, <3>2 DEF Making, Flow
  <2>9. CASE pc = "finisher"
    BY <1>1, <1>3, <1>4, <2>0, <2>9 DEF Making, Flow
  <2> QED BY <2>c, <2>1, <2>2, <2>3, <2>4, <2>5, <2>6, <2>7, <2>8, <2>9
<1> QED BY <1>6, <1>7

LEMMA MakingStep ==
  RestTyped /\ Labels /\ Placed /\ Making /\ [Next]_vars => Making'
<1> SUFFICES ASSUME RestTyped, Labels, Placed, Making, [Next]_vars PROVE Making'
  OBVIOUS
<1> USE DEF AfterBaseline, AfterTarget, AfterNative, AfterPayload, AfterCatalog,
        ProofsMade
<1>1. CASE UNCHANGED <<files, pc, job>>
  BY <1>1 DEF Making, Promoting, Package, PrivateCatalog
<1>2. CASE Writing BY <1>2, MakingWriting
<1>3. CASE pc' = "idle" BY <1>3 DEF Making
<1>4. CASE StartPackage BY <1>4 DEF StartPackage, Making, Promoting
<1>5. CASE StartCompletion
  BY <1>5 DEF StartCompletion, Completable, Authentic, Making, Promoting, Package
<1>6. CASE StartPromotion BY <1>6 DEF StartPromotion, Making, Promoting
<1>7. CASE CheckSystem
  <2>1. /\ pc = "system" /\ files' = files
        /\ \/ pc' = "idle"
           \/ /\ SequenceOf[Package["material"]] = job.sequence
              /\ pc' = "baseline" /\ job' = job
    BY <1>7 DEF CheckSystem, Goto, Refuse
  <2> QED BY <2>1 DEF Making, Promoting, Package
<1>8. CASE ReleaseMaterial
  <2>1. /\ pc = "release" /\ pc' = "native" /\ job' = job
        /\ \A f \in File : f # "material" => files'["package"][f] = files["package"][f]
    BY <1>8, SetFacts DEF ReleaseMaterial, Goto, Placed, Shape, Directory, File, Image
  <2> QED BY <2>1 DEF Making, Promoting, Package, File, Image
<1>9. CASE ArchiveContainer
  <2>1. /\ (pc = "archive" /\ job' = job) \/ pc' = "idle"
        /\ pc' = "native" \/ pc' = "idle"
    BY <1>9 DEF ArchiveContainer, Goto, Refuse
  <2>2. Package'["baseline"] = Package["baseline"] /\ Package'["target"] = Package["target"]
    BY <1>9 DEF ArchiveContainer, Placed, Directory, File, Image, Package
  <2> QED BY <2>1, <2>2 DEF Making, Promoting
<1>10. CASE Reverify \/ LinkBaseline
  <2>1. pc' = "idle" \/ (job' = job /\ Promoting)
    BY <1>10 DEF Reverify, LinkBaseline, Goto, Refuse, Labels, Promoting, Job
  <2> QED BY <2>1 DEF Making, Promoting
<1>11. CASE OperatorChanges \/ RunDies
  BY <1>3, <1>11 DEF OperatorChanges, RunDies, Refuse
<1> QED BY <1>1, <1>2, <1>3, <1>4, <1>5, <1>6, <1>7, <1>8, <1>9, <1>10, <1>11
        DEF Next, Packaging, Updating, Writing, RebuildTargetFiles

----------------------------------------------------------------------------
(* What a proof says                                                       *)

LEMMA ProofStep ==
  /\ RestTyped /\ Labels /\ Placed /\ Making /\ ProofOfOneBuild /\ [Next]_vars
  => ProofOfOneBuild'
<1> SUFFICES ASSUME RestTyped, Labels, Placed, Making, ProofOfOneBuild, [Next]_vars,
                    Whole("package", "proof")'
             PROVE  Package'["proof"].payload = Package'["proof"].baseline
  BY DEF ProofOfOneBuild
<1>s. Shape BY DEF Placed, Shape
<1>f. "package" \in Directory /\ "proof" \in File BY DEF Directory, File, Delivery
<1>1. CASE files'["package"]["proof"] = files["package"]["proof"]
  BY <1>1 DEF ProofOfOneBuild, Whole, Package
<1>2. CASE Writing
  <2>1. CASE pc = "proof" /\ ~Promoting /\ Write("proof", NewProof, "idle")
    <3>1. Here = "package" BY <2>1, HereFacts
    <3>2. \/ files' = files
          \/ files'["package"]["proof"] \in {Partial, NewProof}
      BY <1>s, <1>f, <2>1, <3>1, WriteFacts
    <3>3. CASE files'["package"]["proof"] = NewProof
      <4>1. Package["baseline"] = Package["payload"]
        BY <2>1 DEF Making, AfterBaseline, AfterTarget, AfterNative, AfterPayload,
           AfterCatalog, ProofsMade
      <4>2. NewProof.payload = NewProof.baseline BY <2>1, <4>1 DEF NewProof
      <4> QED BY <3>3, <4>2 DEF Package
    <3>4. CASE files'["package"]["proof"] = Partial
      BY <3>4 DEF Whole, Marker
    <3> QED BY <1>1, <3>2, <3>3, <3>4
  <2>2. CASE pc # "proof" \/ Promoting
    <3>1. ~(Here = "package" /\ pc = "proof")
      BY <1>2, <2>2, WritingFlow, HereFacts
    <3> QED BY <1>1, <1>2, <1>f, <3>1, WritingFlow
  <2> QED BY <1>1, <1>2, <2>1, <2>2, WritingCases
<1>3. CASE ReleaseMaterial \/ LinkBaseline \/ ArchiveContainer \/ OperatorChanges
  <2>1. CASE ReleaseMaterial \/ LinkBaseline
    BY <1>1, <1>s, <1>f, <2>1, SetFacts
    DEF ReleaseMaterial, LinkBaseline, File, Image, Directory
  <2>2. CASE ArchiveContainer
    BY <1>1, <1>s, <1>f, <2>2 DEF ArchiveContainer, Shape
  <2>3. CASE OperatorChanges
    <3>1. PICK f \in File \ {"proof"} : \E content : Set("package", f, content)
      BY <2>3 DEF OperatorChanges, File, Image, Delivery
    <3> QED BY <1>1, <1>s, <1>f, <3>1, SetFacts
  <2> QED BY <1>3, <2>1, <2>2, <2>3
<1> QED BY <1>1, <1>2, <1>3
        DEF Next, Packaging, Updating, Writing, StartPackage, CheckSystem,
            StartCompletion, StartPromotion, Reverify, RebuildTargetFiles, RunDies

----------------------------------------------------------------------------
(* What promotion makes                                                    *)

LEMMA Republished == [PublicCatalog(FALSE) EXCEPT !.public = TRUE] = PublicCatalog(TRUE)
<1>1. ASSUME NEW c \in Catalog, NEW value
      PROVE  [c EXCEPT !.public = value] =
               [sequence |-> c.sequence, payload |-> c.payload, public |-> value]
  BY DEF Catalog
<1>2. PublicCatalog(FALSE) \in Catalog
  BY BuildAssumption DEF PublicCatalog, Catalog, Sequence
<1>3. /\ PublicCatalog(FALSE).sequence = SequenceOf[TestedBuild]
      /\ PublicCatalog(FALSE).payload = TestedBuild
  BY DEF PublicCatalog
<1>4. PublicCatalog(TRUE) =
        [sequence |-> SequenceOf[TestedBuild], payload |-> TestedBuild, public |-> TRUE]
  BY DEF PublicCatalog
<1> QED BY <1>1, <1>2, <1>3, <1>4

LEMMA PromotingWriting ==
  ASSUME PromotingTested, Labels, Placed, RestTyped, Writing PROVE PromotingTested'
<1> SUFFICES ASSUME pc' # "idle", Promoting' PROVE PromotingTested'
  BY DEF PromotingTested
<1> USE DEF AfterPayload, AfterCatalog, ProofsMade
<1>1. /\ pc # "idle" /\ job' = job /\ Promoting
      /\ \/ pc' = pc /\ ~writing
         \/ writing /\ Flow(pc, pc')
  BY WritingFlow DEF Promoting
<1>2. /\ Here = "public" /\ "public" \in Directory /\ "package" \in Directory
      /\ \A f \in File : f # pc => files'["public"][f] = files["public"][f]
      /\ \A f \in File : files'["package"][f] = files["package"][f]
  BY <1>1, WritingFlow, HereFacts DEF Directory
<1>3. /\ \A f \in File : f # pc => Public'[f] = Public[f]
      /\ \A f \in File : Package'[f] = Package[f]
  BY <1>2 DEF Package, Public
<1>4. File = {"material", "baseline", "target", "native", "failed", "payload",
              "catalog", "signature", "wrapper", "proof", "finisher"}
  BY DEF File, Image, Delivery
<1>k. /\ Package'["proof"] = Package["proof"] /\ Package'["wrapper"] = Package["wrapper"]
      /\ Package'["baseline"] = Package["baseline"]
  BY <1>3, <1>4
<1>p. /\ Package'["proof"] \in Proof /\ Package'["proof"].baseline = TestedBuild
      /\ Package'["proof"].payload = TestedBuild /\ SourceAsProven'
      /\ pc # "reverify" => /\ Package'["wrapper"].payload = TestedBuild
                            /\ Package'["wrapper"].catalog = PublicCatalog(FALSE)
  BY <1>1, <1>k DEF PromotingTested, SourceAsProven
<1>l. pc # "reverify" /\ pc' # "reverify"
  BY <1>1, WritingCases DEF Flow, Refuse
<1>6. CASE pc' = pc
  <2>1. /\ pc \in AfterCatalog \cup {"baseline"} => Public'["catalog"] = Public["catalog"]
        /\ pc \in ProofsMade \cup {"baseline"} => Public'["signature"] = Public["signature"]
        /\ pc \in {"baseline", "proof"} => Public'["wrapper"] = Public["wrapper"]
        /\ pc = "proof" => Public'["baseline"] = Public["baseline"]
    <3>1. pc = "signature" => Public'["catalog"] = Public["catalog"] BY <1>3, <1>4
    <3>2. pc # "signature" /\ pc \in AfterCatalog \cup {"baseline"} =>
            Public'["catalog"] = Public["catalog"] BY <1>3, <1>4
    <3> QED BY <1>3, <1>4, <3>1, <3>2
  <2> QED BY <1>1, <1>p, <1>6, <2>1 DEF PromotingTested
<1>7. CASE pc' # pc
  <2>0. writing /\ Flow(pc, pc') BY <1>1, <1>7
  <2>w. ASSUME NEW f \in File, NEW content, NEW next, Write(f, content, next), f = pc
        PROVE  Public'[f] = content
    <3>1. Shape BY DEF Placed, Shape
    <3>2. files'["public"][f] = content \/ pc' = "idle"
      BY <1>2, <2>0, <2>w, <3>1, WriteFacts
    <3> QED BY <3>2 DEF Public
  <2>c. \/ pc = "catalog" /\ pc' = "signature"
           /\ Write("catalog", NewCatalog, "signature")
        \/ pc = "signature" /\ pc' = "wrapper"
           /\ Write("signature", files[Here]["catalog"], "wrapper")
        \/ pc = "wrapper" /\ pc' = "baseline"
           /\ Write("wrapper", [Package["wrapper"] EXCEPT
                      !.catalog = files["public"]["catalog"],
                      !.signature = files["public"]["signature"]], "baseline")
    BY <1>1, <2>0, WritingCases DEF Refuse, Flow
  <2>1. CASE pc = "catalog" /\ pc' = "signature"
             /\ Write("catalog", NewCatalog, "signature")
    <3>1. Public'["catalog"] = NewCatalog BY <1>4, <2>w, <2>1
    <3>2. Package["wrapper"].catalog = PublicCatalog(FALSE)
      BY <1>1, <2>1 DEF PromotingTested
    <3>3. NewCatalog = [PublicCatalog(FALSE) EXCEPT !.public = TRUE]
      BY <1>1, <3>2 DEF NewCatalog
    <3>4. [PublicCatalog(FALSE) EXCEPT !.public = TRUE] = PublicCatalog(TRUE)
      BY Republished
    <3> QED BY <1>p, <2>1, <3>1, <3>3, <3>4 DEF PromotingTested
  <2>2. CASE pc = "signature" /\ pc' = "wrapper"
             /\ Write("signature", files[Here]["catalog"], "wrapper")
    <3>1. Public'["signature"] = Public["catalog"]
      BY <1>2, <1>4, <2>w, <2>2 DEF Public
    <3>2. Public["catalog"] = PublicCatalog(TRUE) BY <1>1, <2>2 DEF PromotingTested
    <3>3. Public'["catalog"] = Public["catalog"] BY <1>3, <1>4, <2>2
    <3> QED BY <1>p, <2>2, <3>1, <3>2, <3>3 DEF PromotingTested
  <2>3. CASE pc = "wrapper" /\ pc' = "baseline"
             /\ Write("wrapper", [Package["wrapper"] EXCEPT
                        !.catalog = files["public"]["catalog"],
                        !.signature = files["public"]["signature"]], "baseline")
    <3>1. Public'["wrapper"] = [Package["wrapper"] EXCEPT
                                  !.catalog = Public["catalog"],
                                  !.signature = Public["signature"]]
      BY <1>4, <2>w, <2>3 DEF Public
    <3>2. /\ Package["wrapper"] \in Wrapper /\ Package["wrapper"].payload = TestedBuild
          /\ Public["catalog"] = PublicCatalog(TRUE)
          /\ Public["signature"] = PublicCatalog(TRUE)
      BY <1>1, <2>3 DEF PromotingTested, SourceAsProven, Proof
    <3>3. Public'["wrapper"] = [payload |-> TestedBuild, catalog |-> PublicCatalog(TRUE),
                                signature |-> PublicCatalog(TRUE)]
      BY <3>1, <3>2 DEF Wrapper
    <3>4. Public'["catalog"] = Public["catalog"] /\ Public'["signature"] = Public["signature"]
      BY <1>3, <1>4, <2>3
    <3> QED BY <1>p, <2>3, <3>2, <3>3, <3>4 DEF PromotingTested
  <2> QED BY <2>c, <2>1, <2>2, <2>3
<1> QED BY <1>6, <1>7

LEMMA PromotingStep ==
  /\ FilesTyped /\ RestTyped /\ Labels /\ Placed /\ ProofOfOneBuild
  /\ PromotingTested /\ [Next]_vars
  => PromotingTested'
<1> SUFFICES ASSUME FilesTyped, RestTyped, Labels, Placed, ProofOfOneBuild,
                    PromotingTested, [Next]_vars
             PROVE  PromotingTested'
  OBVIOUS
<1> USE DEF AfterPayload, AfterCatalog, ProofsMade
<1>1. CASE UNCHANGED <<files, pc, job>>
  BY <1>1 DEF PromotingTested, Promoting, Package, Public, SourceAsProven
<1>2. CASE Writing BY <1>2, PromotingWriting
<1>3. CASE pc' = "idle" BY <1>3 DEF PromotingTested
<1>4. CASE StartPackage \/ StartCompletion
  BY <1>4 DEF StartPackage, StartCompletion, PromotingTested, Promoting
<1>5. CASE StartPromotion
  <2>1. /\ pc' = "reverify" /\ files' = files /\ SourceAsProven
        /\ Whole("package", "proof") /\ Package["proof"].baseline = TestedBuild
    BY <1>5 DEF StartPromotion
  <2>2. May("proof", files["package"]["proof"])
    BY DEF FilesTyped, Directory, File, Delivery
  <2>3. Package["proof"] \in Proof
    BY <2>1, <2>2 DEF May, Whole, Marker, Image, Package
  <2>4. Package["proof"].payload = TestedBuild BY <2>1 DEF ProofOfOneBuild
  <2>5. Package' = Package /\ SourceAsProven' BY <2>1 DEF Package, SourceAsProven
  <2> QED BY <2>1, <2>3, <2>4, <2>5 DEF PromotingTested
<1>6. CASE Reverify
  <2>1. /\ pc = "reverify" /\ files' = files
        /\ \/ pc' = "idle"
           \/ /\ pc' = "catalog" /\ job' = job
              /\ Package["wrapper"].payload = Package["proof"].payload
              /\ Package["wrapper"].catalog =
                   [sequence |-> SequenceOf[TestedBuild],
                    payload |-> Package["wrapper"].payload, public |-> FALSE]
    BY <1>6 DEF Reverify, Goto, Refuse
  <2> QED BY <2>1 DEF PromotingTested, Promoting, Package, SourceAsProven, PublicCatalog
<1>7. CASE LinkBaseline
  <2>1. /\ pc = "baseline" /\ Promoting /\ pc' = "proof" /\ job' = job
        /\ Set("public", "baseline", Package["baseline"])
    BY <1>7 DEF LinkBaseline, Goto
  <2>2. /\ files'["public"]["baseline"] = Package["baseline"]
        /\ \A d \in Directory, f \in File :
             ~(d = "public" /\ f = "baseline") => files'[d][f] = files[d][f]
    BY <2>1, SetFacts DEF Placed, Shape, Directory, File, Image
  <2>3. /\ \A f \in File : Package'[f] = Package[f]
        /\ \A f \in File \ {"baseline"} : Public'[f] = Public[f]
        /\ Public'["baseline"] = Package["baseline"]
    BY <2>2 DEF Package, Public, Directory
  <2>4. /\ Package'["proof"] = Package["proof"] /\ Package'["wrapper"] = Package["wrapper"]
        /\ Package'["baseline"] = Package["baseline"]
        /\ Public'["catalog"] = Public["catalog"]
        /\ Public'["signature"] = Public["signature"]
        /\ Public'["wrapper"] = Public["wrapper"]
    BY <2>3 DEF File, Image, Delivery
  <2> QED BY <2>1, <2>3, <2>4 DEF PromotingTested, SourceAsProven
<1>8. CASE CheckSystem \/ ReleaseMaterial \/ ArchiveContainer
  <2>1. pc' = "idle" \/ (job' = job /\ ~Promoting)
    BY <1>8 DEF CheckSystem, ReleaseMaterial, ArchiveContainer, Goto, Refuse,
       Labels, Promoting
  <2> QED BY <2>1 DEF PromotingTested, Promoting
<1>9. CASE OperatorChanges \/ RunDies
  BY <1>3, <1>9 DEF OperatorChanges, RunDies, Refuse
<1> QED BY <1>1, <1>2, <1>3, <1>4, <1>5, <1>6, <1>7, <1>8, <1>9
        DEF Next, Packaging, Updating, Writing, RebuildTargetFiles

----------------------------------------------------------------------------
(* Signing                                                                 *)

LEMMA SignedStep ==
  /\ RestTyped /\ Labels /\ Placed /\ SignedOnce /\ [Next]_vars
  => SignedOnce'
<1> SUFFICES ASSUME RestTyped, Labels, Placed, SignedOnce, [Next]_vars,
                    pc' # "idle", pc' \notin ProofsMade,
                    ~(Promoting' /\ pc' = "baseline")
             PROVE  Here' \in Directory /\ files'[Here']["signature"] =
                      IF pc' = "signature" /\ writing' THEN Partial ELSE None
  BY DEF SignedOnce
<1> USE DEF ProofsMade
<1>f. "signature" \in File /\ "package" \in Directory /\ "public" \in Directory
  BY DEF File, Delivery, Directory
<1>1. CASE UNCHANGED <<files, pc, writing, job>>
  BY <1>1 DEF SignedOnce, Here, Promoting
<1>2. CASE Writing
  <2>1. /\ pc # "idle" /\ job' = job /\ Here' = Here /\ Here \in Directory
        /\ \/ pc' = pc /\ ~writing /\ writing' = TRUE /\ files'[Here][pc] = Partial
           \/ writing /\ writing' = FALSE /\ Flow(pc, pc')
        /\ pc # "signature" => files'[Here]["signature"] = files[Here]["signature"]
    BY <1>2, <1>f, WritingFlow, HereFacts DEF Here, Promoting
  <2>2. CASE pc = "signature"
    BY <2>1, <2>2 DEF Flow
  <2>3. CASE pc # "signature"
    <3>1. pc \notin ProofsMade /\ ~(Promoting /\ pc = "baseline")
      BY <2>1, <2>3 DEF Flow, Promoting
    <3> QED BY <2>1, <2>3, <3>1 DEF SignedOnce, Flow
  <2> QED BY <2>2, <2>3
<1>3. CASE StartPackage
  BY <1>3, <1>f DEF StartPackage, Placed, Here, Promoting
<1>4. CASE StartCompletion
  <2>1. /\ files["package"]["signature"] = None /\ files' = files
        /\ pc' = "finisher" /\ Here' = "package"
    BY <1>4 DEF StartCompletion, Completable, Unfinished, Delivery, Exists, Here, Promoting
  <2> QED BY <1>f, <2>1
<1>5. CASE StartPromotion
  BY <1>5, <1>f DEF StartPromotion, Placed, Here, Promoting
<1>6. CASE CheckSystem \/ Reverify
  BY <1>6 DEF CheckSystem, Reverify, Goto, Refuse, SignedOnce, Here, Promoting, Labels
<1>7. CASE ReleaseMaterial
  BY <1>7, <1>f, SetFacts DEF ReleaseMaterial, Goto, SignedOnce, Here, Promoting,
     Placed, Shape, File, Image, Directory
<1>8. CASE ArchiveContainer
  BY <1>8, <1>f DEF ArchiveContainer, Goto, Refuse, SignedOnce, Here, Promoting, Placed
<1>9. CASE LinkBaseline
  BY <1>9 DEF LinkBaseline, Goto
<1>10. CASE OperatorChanges \/ RunDies
  BY <1>10 DEF OperatorChanges, RunDies, Refuse
<1> QED BY <1>1, <1>2, <1>3, <1>4, <1>5, <1>6, <1>7, <1>8, <1>9, <1>10
        DEF Next, Packaging, Updating, Writing, RebuildTargetFiles

----------------------------------------------------------------------------
(* What was finished                                                       *)

(* Only a proof that is written finishes a package or a release. *)
LEMMA HistoryCases ==
  ASSUME [Next]_vars, Labels, Placed, RestTyped
  PROVE  \/ UNCHANGED history
         \/ /\ pc = "proof" /\ Promoting
            /\ delivered' = delivered /\ published' = published \cup {Snapshot}
         \/ /\ pc = "proof" /\ ~Promoting
            /\ delivered' = delivered \cup {Snapshot} /\ published' = published
<1>1. CASE WriteProof BY <1>1 DEF WriteProof, Write, history
<1>2. CASE ~WriteProof
  BY <1>2 DEF Next, vars, Packaging, Updating, StartPackage, StageMaterial, CheckSystem,
     MakeBaseline, AdaptTargetFiles, ReleaseMaterial, RunOtaTool, UnpackPayload,
     WriteCatalog, SignCatalog, MakeWrapper, StartCompletion, MakeFinisher,
     ArchiveContainer, StartPromotion, Reverify, MakePublicWrapper, LinkBaseline,
     RebuildTargetFiles, OperatorChanges, RunDies
<1> QED BY <1>1, <1>2

LEMMA DeliveredStep ==
  /\ RestTyped /\ Labels /\ Placed /\ Making /\ DeliveredAsAudited /\ [Next]_vars
  => DeliveredAsAudited'
<1> SUFFICES ASSUME RestTyped, Labels, Placed, Making, DeliveredAsAudited, [Next]_vars
             PROVE  DeliveredAsAudited'
  OBVIOUS
<1>1. CASE delivered' = delivered BY <1>1 DEF DeliveredAsAudited
<1>2. CASE pc = "proof" /\ ~Promoting /\ delivered' = delivered \cup {Snapshot}
  <2>1. Here = "package" BY <1>2, HereFacts
  <2>2. /\ Package["baseline"] = job.intermediate
        /\ Package["catalog"] = PrivateCatalog /\ Package["signature"] = PrivateCatalog
        /\ Package["wrapper"] = [payload |-> job.intermediate,
             catalog |-> PrivateCatalog, signature |-> PrivateCatalog]
        /\ job.kind = "complete" \/ SequenceOf[job.intermediate] = job.sequence
    BY <1>2 DEF Making, AfterBaseline, AfterTarget, AfterNative, AfterPayload,
       AfterCatalog, ProofsMade
  <2>3. Snapshot = [intermediate |-> job.intermediate,
                    completed |-> job.kind = "complete",
                    baseline |-> job.intermediate, catalog |-> PrivateCatalog,
                    signature |-> PrivateCatalog,
                    wrapper |-> [payload |-> job.intermediate,
                      catalog |-> PrivateCatalog, signature |-> PrivateCatalog]]
    BY <2>1, <2>2 DEF Snapshot, Package
  <2>4. /\ Snapshot.baseline = Snapshot.intermediate
        /\ Snapshot.wrapper.payload = Snapshot.intermediate
        /\ Snapshot.catalog.payload = Snapshot.intermediate
        /\ Snapshot.wrapper.catalog = Snapshot.catalog
        /\ Snapshot.wrapper.signature = Snapshot.catalog
    BY <2>3 DEF PrivateCatalog
  <2>5. Snapshot.completed \/ Snapshot.catalog.sequence = SequenceOf[Snapshot.intermediate]
    <3>1. CASE job.kind = "complete"
      <4>1. Snapshot.completed = (job.kind = "complete") BY Zenon DEF Snapshot
      <4> QED BY <3>1, <4>1
    <3>2. CASE SequenceOf[job.intermediate] = job.sequence
      BY <2>3, <3>2 DEF PrivateCatalog
    <3> QED BY <2>2, <3>1, <3>2
  <2> QED BY <1>2, <2>4, <2>5 DEF DeliveredAsAudited
<1> QED BY <1>1, <1>2, HistoryCases DEF history

LEMMA PublishedStep ==
  /\ RestTyped /\ Labels /\ Placed /\ PromotingTested /\ PublishedAsTested /\ [Next]_vars
  => PublishedAsTested'
<1> SUFFICES ASSUME RestTyped, Labels, Placed, PromotingTested, PublishedAsTested,
                    [Next]_vars
             PROVE  PublishedAsTested'
  OBVIOUS
<1>1. CASE published' = published BY <1>1 DEF PublishedAsTested
<1>2. CASE pc = "proof" /\ Promoting /\ published' = published \cup {Snapshot}
  <2>1. Here = "public" BY <1>2, HereFacts
  <2>2. /\ Public["baseline"] = TestedBuild
        /\ Public["catalog"] = PublicCatalog(TRUE)
        /\ Public["signature"] = PublicCatalog(TRUE)
        /\ Public["wrapper"] = [payload |-> TestedBuild, catalog |-> PublicCatalog(TRUE),
                                signature |-> PublicCatalog(TRUE)]
    BY <1>2 DEF PromotingTested, AfterCatalog, ProofsMade
  <2>3. /\ Snapshot.baseline = TestedBuild /\ Snapshot.catalog = PublicCatalog(TRUE)
        /\ Snapshot.signature = PublicCatalog(TRUE)
        /\ Snapshot.wrapper = [payload |-> TestedBuild, catalog |-> PublicCatalog(TRUE),
                               signature |-> PublicCatalog(TRUE)]
    BY <2>1, <2>2 DEF Snapshot, Public
  <2>4. /\ Snapshot.wrapper.payload = TestedBuild
        /\ Snapshot.wrapper.catalog = PublicCatalog(TRUE)
        /\ Snapshot.wrapper.signature = Snapshot.catalog
        /\ Snapshot.signature = Snapshot.catalog
    BY <2>3
  <2>5. Snapshot.wrapper.catalog = [sequence |-> SequenceOf[TestedBuild],
                                    payload |-> TestedBuild, public |-> TRUE]
    BY <2>4 DEF PublicCatalog
  <2> QED BY <1>2, <2>3, <2>4, <2>5 DEF PublishedAsTested
<1> QED BY <1>1, <1>2, HistoryCases DEF history

----------------------------------------------------------------------------
(* The theorems                                                            *)

LEMMA IInvInit == Init => IInv
<1> SUFFICES ASSUME Init PROVE IInv OBVIOUS
<1> USE DEF Init
<1>1. FilesTyped BY DEF FilesTyped, May, Image, Delivery, Marker
<1>z. 0 \in 0..MaxKills /\ 0 \in 0..MaxChanges BY BoundAssumption
<1>2. RestTyped BY <1>z DEF RestTyped
<1>3. Labels /\ Making /\ PromotingTested /\ SignedOnce
  BY DEF Labels, Making, PromotingTested, SignedOnce
<1>4. Placed BY DEF Placed
<1>5. ProofOfOneBuild
  BY DEF ProofOfOneBuild, Whole, Marker, Directory, File, Delivery
<1>6. DeliveredAsAudited /\ PublishedAsTested
  BY DEF DeliveredAsAudited, PublishedAsTested
<1> QED BY <1>1, <1>2, <1>3, <1>4, <1>5, <1>6, TypeSplit DEF IInv

LEMMA IInvStep == IInv /\ [Next]_vars => IInv'
<1> SUFFICES ASSUME IInv, [Next]_vars PROVE IInv' OBVIOUS
<1>1. FilesTyped /\ RestTyped /\ Labels /\ Placed /\ Making /\ ProofOfOneBuild
      /\ PromotingTested /\ SignedOnce /\ DeliveredAsAudited /\ PublishedAsTested
  BY TypeSplit DEF IInv
<1>2. FilesTyped' /\ RestTyped' BY <1>1, FilesStep, RestStep
<1>3. TypeOK' BY <1>2, TypeSplit, PTL
<1>4. Labels' /\ Placed' BY <1>1, LabelsStep, PlacedStep
<1>5. Making' /\ ProofOfOneBuild' BY <1>1, MakingStep, ProofStep
<1>6. PromotingTested' /\ SignedOnce' BY <1>1, PromotingStep, SignedStep
<1>7. DeliveredAsAudited' /\ PublishedAsTested'
  BY <1>1, DeliveredStep, PublishedStep
<1> QED BY <1>3, <1>4, <1>5, <1>6, <1>7 DEF IInv

LEMMA IInvHolds == Spec => []IInv
BY IInvInit, IInvStep, PTL DEF Spec

(* Every file is of its kind, and the run is at one of its labels. *)
THEOREM TypeCorrect == Spec => []TypeOK
<1>1. IInv => TypeOK BY DEF IInv
<1> QED BY <1>1, IInvHolds, PTL

(* A package finished by package-native-ab.py or complete-native-full.py,   *)
(* whatever failed or was repaired by hand before, is one audited build's.  *)
THEOREM DeliversAsAudited == Spec => []DeliveredAsAudited
<1>1. IInv => DeliveredAsAudited BY DEF IInv
<1> QED BY <1>1, IInvHolds, PTL

(* A release made by promote-native-ab-release.py is the tested build, its  *)
(* baseline and its update, and the catalog it signs says so.               *)
THEOREM PublishesAsTested == Spec => []PublishedAsTested
<1>1. IInv => PublishedAsTested BY DEF IInv
<1> QED BY <1>1, IInvHolds, PTL

(* No run signs another catalog over a signed one, or replaces the container *)
(* that completion put aside.                                                *)
THEOREM KeepsEvidence == Spec => EvidenceKept
<1>1. IInv /\ [Next]_vars =>
        [pc # "idle" => \A d \in Directory, f \in {"signature", "failed"} :
            Whole(d, f) => files'[d][f] = files[d][f]]_vars
  <2> SUFFICES ASSUME IInv, [Next]_vars, pc # "idle",
                      NEW d \in Directory, NEW f \in {"signature", "failed"},
                      Whole(d, f)
               PROVE  files'[d][f] = files[d][f]
    OBVIOUS
  <2>0. /\ RestTyped /\ Labels /\ Placed /\ SignedOnce BY TypeSplit DEF IInv
  <2>f. f \in File /\ "material" \in File /\ "baseline" \in File
        /\ "package" \in Directory /\ "public" \in Directory
    BY DEF File, Image, Delivery, Directory
  <2>s. Shape BY <2>0 DEF Placed, Shape
  <2>1. CASE Writing
    <3>1. \A e \in Directory, g \in File :
            ~(e = Here /\ g = pc) => files'[e][g] = files[e][g]
      BY <2>0, <2>1, WritingFlow
    <3>2. pc # "failed"
      BY <2>0 DEF Labels, AfterNative, AfterPayload, AfterCatalog, ProofsMade, Job
    <3>3. pc = "signature" => files[Here]["signature"] \in Marker
      BY <2>0 DEF SignedOnce, ProofsMade, Marker
    <3> QED BY <2>f, <3>1, <3>2, <3>3 DEF Whole
  <2>2. CASE ReleaseMaterial \/ LinkBaseline
    BY <2>f, <2>s, <2>2, SetFacts DEF ReleaseMaterial, LinkBaseline
  <2>3. CASE ArchiveContainer
    BY <2>3, <2>f, <2>s DEF ArchiveContainer, Shape, Whole, Exists, Marker
  <2>4. CASE files' = files BY <2>4
  <2> QED BY <2>1, <2>2, <2>3, <2>4
      DEF Next, vars, directories, Packaging, Updating, Writing, StartPackage,
          CheckSystem, StartCompletion, StartPromotion, Reverify, RebuildTargetFiles,
          OperatorChanges, RunDies
<1> QED BY <1>1, IInvHolds, PTL DEF Spec, EvidenceKept
=============================================================================

---------------------------- MODULE NativePackage ----------------------------
(***************************************************************************)
(* The native A/B package of a release: package-native-ab.py makes the     *)
(* baseline and the full update of an audited build in a new directory,    *)
(* complete-native-full.py finishes a package that failed, and             *)
(* promote-native-ab-release.py makes the public release of the tested one. *)
(*                                                                         *)
(* An image, and what is made of it, is the build it comes from, that is   *)
(* its device commit: all that promotion knows of it.  A run is killed or  *)
(* fails between any two steps and while it writes any file; the operator  *)
(* repairs the package directory by hand between the runs, which are made  *)
(* one at a time; the target-files are rebuilt at any time.                *)
(***************************************************************************)
EXTENDS Integers

CONSTANTS
  MaxBuild,     \* audited builds (a bound)
  SequenceOf,   \* ro.kiki.ota.sequence of each build's system
  TestedBuild,  \* the build promotion is authorised for
  MaxKills,     \* runs that are killed or fail (a bound)
  MaxChanges,   \* files replaced or removed by hand (a bound)
  None,         \* nothing there
  Partial       \* a file that is only half written

Build == 1..MaxBuild
Sequence == {SequenceOf[b] : b \in Build}

ASSUME BuildAssumption == MaxBuild \in Nat /\ TestedBuild \in Build
ASSUME SequenceAssumption == SequenceOf \in [Build -> Nat \ {0}]
ASSUME BoundAssumption == MaxKills \in Nat /\ MaxChanges \in Nat
ASSUME MarkerAssumption == None \notin Nat /\ Partial \notin Nat /\ None # Partial

VARIABLES
  made,         \* the directories that exist
  files,        \* what is in them
  targetFiles,  \* the target-files of the release output
  pc, writing,  \* the run: the file or check it is at, and if it is writing it
  job,          \* its arguments
  delivered,    \* the packages finished: their files when they were
  published,    \* the public releases finished
  kills, changes

directories == <<made, files>>
run == <<pc, writing, job>>
history == <<delivered, published>>
vars == <<directories, targetFiles, run, history, kills, changes>>

Directory == {"package", "public"}

(* Files made of the build's images; "material" is the staged images,       *)
(* "target" the adapted target-files, "native" the container of the Android *)
(* tool, "failed" one that completion put aside.                            *)
Image == {"material", "baseline", "target", "native", "failed", "payload"}

(* The delivered update; its existence ends a package's being unfinished. *)
Delivery == {"catalog", "signature", "wrapper", "proof"}

File == Image \cup Delivery \cup {"finisher"}

(* Files that are never written over. *)
Exclusive == {"material", "baseline", "target", "payload", "wrapper",
              "finisher"}

Catalog == [sequence : Sequence, payload : Build, public : BOOLEAN]
Wrapper == [payload : Build, catalog : Catalog, signature : Catalog]
Proof == [sequence : Sequence, baseline : Build, payload : Build,
          wrapper : Wrapper, tools : BOOLEAN]
Job == [kind : {"package", "complete", "promote"}, intermediate : Build,
        sequence : Sequence, public : BOOLEAN]

Marker == {None, Partial}

TypeOK ==
  /\ made \subseteq Directory
  /\ \A d \in Directory :
       /\ \A f \in Image \ {"failed"} : files[d][f] \in Build \cup Marker
       /\ files[d]["failed"] \in Build \cup {None}
       /\ files[d]["catalog"] \in Catalog \cup Marker
       /\ files[d]["signature"] \in Catalog \cup Marker
       /\ files[d]["wrapper"] \in Wrapper \cup Marker
       /\ files[d]["proof"] \in Proof \cup Marker
       /\ files[d]["finisher"] \in {TestedBuild} \cup Marker
  /\ targetFiles \in Build
  /\ pc \in File \cup {"idle", "system", "release", "archive", "reverify"}
  /\ writing \in BOOLEAN /\ job \in Job \cup {None}
  /\ kills \in 0..MaxKills /\ changes \in 0..MaxChanges

Init ==
  /\ made = {} /\ files = [d \in Directory |-> [f \in File |-> None]]
  /\ targetFiles \in Build
  /\ pc = "idle" /\ writing = FALSE /\ job = None
  /\ delivered = {} /\ published = {} /\ kills = 0 /\ changes = 0

----------------------------------------------------------------------------
(* Files                                                                   *)

Promoting == job.kind = "promote"

(* The directory the run works in. *)
Here == IF Promoting THEN "public" ELSE "package"

Package == files["package"]

Exists(d, f) == files[d][f] # None

Whole(d, f) == files[d][f] \notin Marker

Goto(label) == pc' = label /\ UNCHANGED <<writing, job>>

(* An error: the run ends. *)
Refuse == pc' = "idle" /\ writing' = FALSE /\ job' = None

Set(d, f, content) == files' = [files EXCEPT ![d][f] = content]

(* Write a file, in two steps, and go on. *)
Write(f, content, next) ==
  /\ pc = f
  /\ \/ /\ ~writing /\ f \in Exclusive /\ Exists(Here, f)
        /\ Refuse /\ UNCHANGED files
     \/ /\ ~writing /\ ~(f \in Exclusive /\ Exists(Here, f))
        /\ Set(Here, f, Partial)
        /\ writing' = TRUE /\ UNCHANGED <<pc, job>>
     \/ /\ writing
        /\ Set(Here, f, content)
        /\ pc' = next /\ writing' = FALSE
        /\ job' = IF next = "idle" THEN None ELSE job
  /\ UNCHANGED <<made, targetFiles, kills, changes>>

----------------------------------------------------------------------------
(* package-native-ab.py                                                    *)

(* The inputs are audited and the output directory is new. *)
StartPackage ==
  /\ pc = "idle" /\ "package" \notin made
  /\ made' = made \cup {"package"}
  /\ \E b \in Build, s \in Sequence, public \in BOOLEAN :
       job' = [kind |-> "package", intermediate |-> b, sequence |-> s,
               public |-> public]
  /\ pc' = "material"
  /\ UNCHANGED <<files, targetFiles, writing, history, kills, changes>>

StageMaterial == Write("material", job.intermediate, "system")
                 /\ UNCHANGED history

(* The system that was really built has the requested sequence. *)
CheckSystem ==
  /\ pc = "system"
  /\ IF SequenceOf[Package["material"]] = job.sequence THEN Goto("baseline")
                                                       ELSE Refuse
  /\ UNCHANGED <<directories, targetFiles, history, kills, changes>>

MakeBaseline ==
  /\ pc = "baseline" /\ ~Promoting
  /\ Write("baseline", Package["material"], "target")
  /\ UNCHANGED history

(* The system and vendor trees of the target-files are those of the images,  *)
(* which replace them; the ZIP is open when they are compared.               *)
AdaptTargetFiles ==
  /\ \/ /\ writing => targetFiles = Package["material"]
        /\ Write("target", Package["material"], "release")
     \/ /\ pc = "target" /\ writing /\ targetFiles # Package["material"]
        /\ Refuse
        /\ UNCHANGED <<directories, targetFiles, kills, changes>>
  /\ UNCHANGED history

(* The staged images are removed before the Android tool unpacks its own. *)
ReleaseMaterial ==
  /\ pc = "release"
  /\ Set("package", "material", None) /\ Goto("native")
  /\ UNCHANGED <<made, targetFiles, history, kills, changes>>

(* ota_from_target_files, over whatever container is there. *)
RunOtaTool == Write("native", Package["target"], "payload")
              /\ UNCHANGED history

(* "Never replace extracted input"; the payload's signature is verified. *)
UnpackPayload == Write("payload", Package["native"], "catalog")
                 /\ UNCHANGED history

(* The catalog of the update, or the public one of the tested update. *)
NewCatalog ==
  IF Promoting
  THEN [Package["wrapper"].catalog EXCEPT !.public = TRUE]
  ELSE [sequence |-> job.sequence, payload |-> Package["payload"],
        public |-> job.public]

WriteCatalog == Write("catalog", NewCatalog, "signature") /\ UNCHANGED history

SignCatalog == Write("signature", files[Here]["catalog"], "wrapper")
               /\ UNCHANGED history

MakeWrapper ==
  /\ pc = "wrapper" /\ ~Promoting
  /\ Write("wrapper", [payload |-> Package["payload"],
                       catalog |-> Package["catalog"],
                       signature |-> Package["signature"]], "proof")
  /\ UNCHANGED history

(* What is in the directory when its proof is written. *)
Snapshot == [intermediate |-> job.intermediate, completed |-> job.kind = "complete",
             baseline |-> files[Here]["baseline"],
             catalog |-> files[Here]["catalog"],
             signature |-> files[Here]["signature"],
             wrapper |-> files[Here]["wrapper"]]

(* The proof names the bytes of all; completion's does not name the tools. *)
NewProof ==
  IF Promoting
  THEN [Package["proof"] EXCEPT !.wrapper = files["public"]["wrapper"]]
  ELSE [sequence |-> job.sequence, baseline |-> Package["baseline"],
        payload |-> Package["payload"], wrapper |-> Package["wrapper"],
        tools |-> job.kind = "package"]

WriteProof ==
  /\ Write("proof", NewProof, "idle")
  /\ IF writing /\ Promoting
     THEN published' = published \cup {Snapshot} /\ UNCHANGED delivered
     ELSE IF writing THEN delivered' = delivered \cup {Snapshot} /\ UNCHANGED published
     ELSE UNCHANGED history

----------------------------------------------------------------------------
(* complete-native-full.py                                                 *)

(* A slip: only the proof is looked for. *)
Unproven == ~Exists("package", "proof")

(* "Only unfinished private packaging can resume; never overwrite a          *)
(* delivered OTA".                                                           *)
Unfinished == \A f \in Delivery : ~Exists("package", f)

(* A slip: the target-files are not compared. *)
AuthenticBaseline(b) == Package["material"] = b /\ Package["baseline"] = b
                        /\ Whole("package", "target")

(* The images agree in the intermediate, the staging and both archives. *)
Authentic(b) == \A f \in {"material", "baseline", "target"} : Package[f] = b

Completable(b) == "package" \in made /\ Unfinished /\ Authentic(b)

StartCompletion ==
  /\ pc = "idle"
  /\ \E b \in Build, s \in Sequence :
       /\ Completable(b)
       /\ job' = [kind |-> "complete", intermediate |-> b, sequence |-> s,
                  public |-> FALSE]
  /\ pc' = "finisher"
  /\ UNCHANGED <<directories, targetFiles, writing, history, kills, changes>>

(* The adapted tool is made anew, never over an older one. *)
MakeFinisher == Write("finisher", TestedBuild, "archive") /\ UNCHANGED history

(* A slip: the container of the failed run is not opened. *)
ArchiveAnyContainer ==
  /\ pc = "archive" /\ ~Exists("package", "failed")
  /\ files' = [files EXCEPT !["package"]["failed"] = Package["native"],
                            !["package"]["native"] = None]
  /\ Goto("native")
  /\ UNCHANGED <<made, targetFiles, history, kills, changes>>

(* A complete container of the failed run is kept under another name. *)
ArchiveContainer ==
  /\ pc = "archive"
  /\ \/ /\ ~Exists("package", "native")
        /\ Goto("native") /\ UNCHANGED files
     \/ /\ Whole("package", "native") /\ ~Exists("package", "failed")
        /\ files' = [files EXCEPT !["package"]["failed"] = Package["native"],
                                  !["package"]["native"] = None]
        /\ Goto("native")
     \/ /\ Exists("package", "native")
        /\ Whole("package", "native") => Exists("package", "failed")
        /\ Refuse /\ UNCHANGED files
  /\ UNCHANGED <<made, targetFiles, history, kills, changes>>

----------------------------------------------------------------------------
(* promote-native-ab-release.py                                            *)

(* A slip: the hash of the baseline is not compared. *)
UpdateAsProven == Package["wrapper"] = Package["proof"].wrapper

(* "Tested source bytes changed" *)
SourceAsProven == /\ Package["baseline"] = Package["proof"].baseline
                  /\ Package["wrapper"] = Package["proof"].wrapper

(* The candidate is the authorised one: its sequence and device commit. *)
StartPromotion ==
  /\ pc = "idle" /\ "public" \notin made /\ Whole("package", "proof")
  /\ Package["proof"].sequence = SequenceOf[TestedBuild]
  /\ Package["proof"].baseline = TestedBuild
  /\ SourceAsProven
  /\ made' = made \cup {"public"}
  /\ job' = [kind |-> "promote", intermediate |-> TestedBuild,
             sequence |-> SequenceOf[TestedBuild], public |-> TRUE]
  /\ pc' = "reverify"
  /\ UNCHANGED <<files, targetFiles, writing, history, kills, changes>>

(* The payload, the tool that verifies it and the private catalog. *)
Reverify ==
  LET wrapper == Package["wrapper"] proof == Package["proof"] IN
  /\ pc = "reverify"
  /\ IF /\ wrapper.payload = proof.payload /\ proof.tools
        /\ wrapper.catalog = [sequence |-> SequenceOf[TestedBuild],
                              payload |-> wrapper.payload, public |-> FALSE]
     THEN Goto("catalog") ELSE Refuse
  /\ UNCHANGED <<directories, targetFiles, history, kills, changes>>

(* The tested update with the public catalog and its signature. *)
MakePublicWrapper ==
  /\ pc = "wrapper" /\ Promoting
  /\ Write("wrapper",
           [Package["wrapper"] EXCEPT !.catalog = files["public"]["catalog"],
                                      !.signature = files["public"]["signature"]],
           "baseline")
  /\ UNCHANGED history

(* The public baseline is a hard link to the tested one. *)
LinkBaseline ==
  /\ pc = "baseline" /\ Promoting
  /\ Set("public", "baseline", Package["baseline"]) /\ Goto("proof")
  /\ UNCHANGED <<made, targetFiles, history, kills, changes>>

----------------------------------------------------------------------------
(* Around the runs                                                         *)

RebuildTargetFiles ==
  /\ targetFiles' \in Build \ {targetFiles}
  /\ UNCHANGED <<directories, run, history, kills, changes>>

(* By hand: an image put back or exchanged, or a file out of the way. *)
OperatorChanges ==
  /\ pc = "idle" /\ "package" \in made /\ changes < MaxChanges
  /\ \/ \E f \in Image \ {"failed"}, b \in Build :
          Package[f] # b /\ Set("package", f, b)
     \/ \E f \in Image \cup {"finisher"} :
          Exists("package", f) /\ Set("package", f, None)
     \/ /\ Whole("package", "wrapper")
        /\ \E b \in Build : Set("package", "wrapper",
                                [Package["wrapper"] EXCEPT !.payload = b])
  /\ changes' = changes + 1
  /\ UNCHANGED <<made, targetFiles, run, history, kills>>

RunDies ==
  /\ pc # "idle" /\ kills < MaxKills
  /\ Refuse /\ kills' = kills + 1
  /\ UNCHANGED <<directories, targetFiles, history, changes>>

----------------------------------------------------------------------------
Packaging == \/ StageMaterial \/ CheckSystem \/ MakeBaseline
             \/ AdaptTargetFiles \/ ReleaseMaterial

Updating == \/ RunOtaTool \/ UnpackPayload \/ WriteCatalog \/ SignCatalog
            \/ MakeWrapper \/ WriteProof

Next == \/ StartPackage \/ Packaging \/ Updating
        \/ StartCompletion \/ MakeFinisher \/ ArchiveContainer
        \/ StartPromotion \/ Reverify \/ MakePublicWrapper \/ LinkBaseline
        \/ RebuildTargetFiles \/ OperatorChanges \/ RunDies

Spec == Init /\ [][Next]_vars

----------------------------------------------------------------------------
(* Properties                                                              *)

(* A delivered package, whether made in one run or completed after failures  *)
(* and repairs by hand, is one build's: the baseline and the update hold the *)
(* images of the audited intermediate, and the signed catalog in the update  *)
(* names its payload.  The sequence is that of the system unless the package *)
(* was completed: completion takes its --sequence on trust.                  *)
DeliveredAsAudited ==
  \A d \in delivered :
    /\ d.baseline = d.intermediate /\ d.wrapper.payload = d.intermediate
    /\ d.catalog.payload = d.intermediate
    /\ d.wrapper.catalog = d.catalog /\ d.wrapper.signature = d.catalog
    /\ d.completed \/ d.catalog.sequence = SequenceOf[d.intermediate]

(* The public release is the tested build, baseline and update, and its      *)
(* signed catalog has the sequence of that system, whatever was exchanged in *)
(* the package after it was tested.                                          *)
PublishedAsTested ==
  \A p \in published :
    /\ p.baseline = TestedBuild /\ p.wrapper.payload = TestedBuild
    /\ p.wrapper.catalog = [sequence |-> SequenceOf[TestedBuild],
                            payload |-> TestedBuild, public |-> TRUE]
    /\ p.signature = p.catalog /\ p.wrapper.signature = p.catalog

(* "never overwrite a delivered OTA": no run, whatever failed before it,     *)
(* signs another catalog over a signed one, and the container kept as the    *)
(* evidence of a failure is not replaced.                                    *)
EvidenceKept ==
  [][pc # "idle" =>
       \A d \in Directory, f \in {"signature", "failed"} :
         Whole(d, f) => files'[d][f] = files[d][f]]_vars

(* complete-native-full.py: "Finish a reviewed failed native PACKAGE ... A   *)
(* complete failed AOSP container is archived before recreating it": a       *)
(* package that failed after the Android tool was done can be completed.     *)
FailedContainerCompletable ==
  pc = "idle" /\ Whole("package", "native") /\ Unfinished =>
    \E b \in Build : Completable(b)
=============================================================================

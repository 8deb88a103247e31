---------------------------- MODULE ReleaseBuild ----------------------------
(***************************************************************************)
(* The release pipeline: prepare-clean-release.py checks out the pinned    *)
(* upstream, build-clean-release.py freezes the device and kernel commits, *)
(* integrates and builds them in phases recorded in build-audit.json, and  *)
(* package-clean-release.py packages what the record describes.            *)
(*                                                                         *)
(* A run is killed, or one of its commands fails, between any two steps,   *)
(* and is resumed.  Developers commit to the two repositories and change    *)
(* the integrated device files, and undo it, at any time; they build in the *)
(* release output between the runs, which are made one at a time.          *)
(***************************************************************************)
EXTENDS Integers

CONSTANTS
  MaxCommit,   \* commits of a repository (a bound)
  MaxKills,    \* runs that are killed (a bound)
  None,        \* nothing there
  Partial      \* a file or directory that is only half made

ASSUME MaxCommitAssumption == MaxCommit \in Nat /\ MaxCommit > 0
ASSUME MaxKillsAssumption == MaxKills \in Nat

VARIABLES
  head,        \* the last commit of each repository
  prepare,     \* prepare.json: its status, or "torn" when half written
  checkout,    \* the upstream checkout
  integrated,  \* the device commit the checkout was integrated with
  edited,      \* its device files were changed since
  undone,      \* such a change was undone
  stamp,       \* build-audit.json
  recordDir,   \* the audit directory exists
  outDir,      \* the output directory exists
  worktrees,   \* the detached worktrees of the audit directory
  kernel,      \* kernel-result: the kernel commit it was built from
  images,      \* system.img and vendor.img: what they were built from
  boot,        \* boot-payload: what it was made of
  packages,    \* the packages made: what they claim and what is in them
  pc, then,    \* where the run is, and where it goes on after a save
  audit,       \* the run's copy of the record
  kills

sources == <<head, prepare, checkout, integrated, edited, undone>>
record == <<stamp, recordDir, outDir, worktrees>>
outputs == <<kernel, images, boot>>
run == <<pc, then, audit>>
vars == <<sources, record, outputs, packages, run, kills>>

Repository == {"device", "kernel"}
Commit == 1..MaxCommit
Frozen == [Repository -> Commit]
Image == [device : Commit, edited : BOOLEAN]
Boot == [device : Commit, kernel : Commit, init : Image]

Phase == {"upstream-clean-audited", "applying-integration",
          "integration-applied", "rebuilding-kernel", "building-aosp",
          "building-boot-payload", "checking-release-inputs", "finished"}

Audit == [phase : Phase, commits : Frozen, kernel : Commit \cup {None},
          images : Image \cup {None}]

ASSUME MarkerAssumption ==
  /\ None \notin Nat /\ None \notin Image /\ None # Partial
  /\ {None, Partial} \cap (Boot \cup Audit) = {}

Label == {"idle", "freeze", "sync", "verify", "ready", "output",
          "worktrees", "save", "identity", "apply", "audit", "kernel", "link",
          "aosp", "boot", "bootImage", "inputs"}

TypeOK ==
  /\ head \in Frozen
  /\ prepare \in {"absent", "begun", "torn", "preparing", "ready"}
  /\ checkout \in {"absent", "partial", "clean", "patching", "integrated"}
  /\ integrated \in Commit \cup {None}
  /\ edited \in BOOLEAN /\ undone \in BOOLEAN
  /\ stamp \in Audit \cup {None, Partial}
  /\ recordDir \in BOOLEAN /\ outDir \in BOOLEAN
  /\ worktrees \in Frozen \cup {None}
  /\ kernel \in Commit \cup {None} /\ images \in Image \cup {None}
  /\ boot \in Boot \cup {None, Partial}
  /\ packages \subseteq [claims : Frozen, images : Image, boot : Boot]
  /\ pc \in Label /\ then \in Label /\ audit \in Audit \cup {None}
  /\ kills \in 0..MaxKills

Init ==
  /\ head = [r \in Repository |-> 1]
  /\ prepare = "absent" /\ checkout = "absent" /\ integrated = None
  /\ edited = FALSE /\ undone = FALSE
  /\ stamp = None /\ recordDir = FALSE /\ outDir = FALSE /\ worktrees = None
  /\ kernel = None /\ images = None /\ boot = None /\ packages = {}
  /\ pc = "idle" /\ then = "idle" /\ audit = None /\ kills = 0

Goto(label) == pc' = label

At(label, next) == pc = label /\ pc' = next

(* An error: the run ends. *)
Refuse == pc' = "idle" /\ then' = "idle" /\ audit' = None

----------------------------------------------------------------------------
(* prepare-clean-release.py                                                *)

(* A new preparation: the record and the frozen manifest. *)
Prepare ==
  /\ prepare = "absent" /\ checkout = "absent"
  /\ At("idle", "freeze") /\ prepare' = "begun"
  /\ UNCHANGED <<head, checkout, integrated, edited, undone, record, outputs,
                 packages, then, audit, kills>>

(* prepare.json is written, in two steps; the checkout is made after it. *)
Freeze ==
  /\ pc = "freeze"
  /\ \/ prepare = "begun" /\ prepare' = "torn" /\ UNCHANGED <<pc, checkout>>
     \/ prepare = "torn" /\ prepare' = "preparing" /\ UNCHANGED <<pc, checkout>>
     \/ /\ prepare = "preparing" /\ checkout' = "partial"
        /\ Goto("sync") /\ UNCHANGED prepare
  /\ UNCHANGED <<head, integrated, edited, undone, record, outputs, packages,
                 then, audit, kills>>

(* --resume works in the checkout directory, and does not make it. *)
ResumePreparation ==
  /\ prepare \in {"preparing", "ready"} /\ checkout # "absent"
  /\ At("idle", "sync")
  /\ UNCHANGED <<sources, record, outputs, packages, then, audit, kills>>

(* repo sync leaves the files of an integrated checkout as they are. *)
Sync ==
  /\ At("sync", "verify")
  /\ checkout' = IF checkout = "partial" THEN "clean" ELSE checkout
  /\ UNCHANGED <<head, prepare, integrated, edited, undone, record, outputs,
                 packages, then, audit, kills>>

(* The commits are those of the manifest, and no file is uncommitted. *)
Verify ==
  /\ pc = "verify"
  /\ IF checkout = "clean" THEN Goto("ready") /\ prepare' = "torn"
                           ELSE Goto("idle") /\ UNCHANGED prepare
  /\ UNCHANGED <<head, checkout, integrated, edited, undone, record, outputs,
                 packages, then, audit, kills>>

ReadyToBuild ==
  /\ At("ready", "idle") /\ prepare' = "ready"
  /\ UNCHANGED <<head, checkout, integrated, edited, undone, record, outputs,
                 packages, then, audit, kills>>

----------------------------------------------------------------------------
(* build-clean-release.py: the record                                      *)

(* The new record is written next. *)
Save(new, next) == audit' = new /\ Goto("save") /\ then' = next

Enter(phase, next) == Save([audit EXCEPT !.phase = phase], next)

(* stamp.write_text(): the old record is gone before the new one is whole. *)
WriteRecord ==
  /\ pc = "save"
  /\ \/ stamp # Partial /\ stamp' = Partial /\ UNCHANGED <<pc, then>>
     \/ /\ stamp = Partial /\ stamp' = audit
        /\ Goto(then) /\ then' = "idle"
  /\ UNCHANGED <<sources, recordDir, outDir, worktrees, outputs, packages,
                 audit, kills>>

(* A slip: only the device commit is recorded. *)
FreshOfDevice == [phase |-> "upstream-clean-audited",
                  commits |-> [device |-> head["device"]],
                  kernel |-> None, images |-> None]

Fresh == [phase |-> "upstream-clean-audited", commits |-> head,
          kernel |-> None, images |-> None]

(* A new build: neither directory may exist, and the checkout is clean. *)
Build ==
  /\ prepare = "ready" /\ checkout = "clean" /\ ~recordDir /\ ~outDir
  /\ At("idle", "output") /\ audit' = Fresh /\ recordDir' = TRUE
  /\ UNCHANGED <<sources, stamp, outDir, worktrees, outputs, packages, then,
                 kills>>

MakeOutput ==
  /\ At("output", "worktrees") /\ outDir' = TRUE
  /\ UNCHANGED <<sources, stamp, recordDir, worktrees, outputs, packages, then,
                 audit, kills>>

(* Detached worktrees of the two commits, and the first record. *)
FreezeWorktrees ==
  /\ pc = "worktrees" /\ worktrees' = audit.commits
  /\ Save(audit, "identity")
  /\ UNCHANGED <<sources, stamp, recordDir, outDir, outputs, packages, kills>>

Recorded == stamp \notin {None, Partial}

(* A slip: a build that reached its last phase is not resumed. *)
BeforeChecks ==
  /\ Recorded
  /\ stamp.phase \notin {"applying-integration", "checking-release-inputs"}

(* --resume: "no blind reapplication". *)
Resumable == Recorded /\ stamp.phase # "applying-integration"

Resume ==
  /\ prepare = "ready" /\ Resumable
  /\ At("idle", "identity") /\ audit' = stamp
  /\ UNCHANGED <<sources, record, outputs, packages, then, kills>>

(* A slip: the integration starts without being recorded. *)
IntegrateUnrecorded ==
  /\ pc = "identity"
  /\ Goto(IF audit.phase = "upstream-clean-audited" THEN "apply" ELSE "audit")
  /\ UNCHANGED <<sources, record, outputs, packages, then, audit, kills>>

(* The worktrees are still the frozen commits; the integration comes first. *)
CheckIdentity ==
  /\ pc = "identity"
  /\ IF worktrees # audit.commits THEN Refuse
     ELSE IF audit.phase = "upstream-clean-audited"
     THEN Enter("applying-integration", "apply")
     ELSE Goto("audit") /\ UNCHANGED <<then, audit>>
  /\ UNCHANGED <<sources, record, outputs, packages, kills>>

----------------------------------------------------------------------------
(* build-clean-release.py: the phases                                      *)

(* apply-aosp-integration.sh: files and patches, one after the other. *)
ApplyIntegration ==
  /\ pc = "apply"
  /\ \/ /\ checkout # "patching" /\ checkout' = "patching"
        /\ UNCHANGED <<integrated, run>>
     \/ /\ checkout = "patching" /\ checkout' = "integrated"
        /\ integrated' = worktrees["device"]
        /\ Enter("integration-applied", "audit")
  /\ UNCHANGED <<head, prepare, edited, undone, record, outputs, packages,
                 kills>>

(* The two audit scripts compare parts of the files: an edit may escape them. *)
AuditIntegration ==
  /\ pc = "audit"
  /\ \/ /\ checkout = "integrated"
        /\ \/ /\ audit.phase = "integration-applied"
              /\ Enter("rebuilding-kernel", "kernel")
           \/ /\ audit.phase # "integration-applied"
              /\ Goto(IF audit.phase = "rebuilding-kernel" THEN "kernel"
                                                          ELSE "link")
              /\ UNCHANGED <<then, audit>>
     \/ /\ checkout # "integrated" \/ edited
        /\ Refuse
  /\ UNCHANGED <<sources, record, outputs, packages, kills>>

RebuildKernel ==
  /\ pc = "kernel"
  /\ kernel' = worktrees["kernel"]
  /\ Save([audit EXCEPT !.phase = "building-aosp",
                        !.kernel = worktrees["kernel"]], "link")
  /\ UNCHANGED <<sources, record, images, boot, packages, kills>>

ContinueAt(phase, label) == audit.phase = phase /\ Save(audit, label)

(* The out link, and the pipeline's own commit in the record. *)
LinkOutput ==
  /\ pc = "link"
  /\ \/ ContinueAt("building-aosp", "aosp")
     \/ ContinueAt("building-boot-payload", "boot")
     \/ ContinueAt("checking-release-inputs", "inputs")
     \/ ContinueAt("finished", "idle")
  /\ UNCHANGED <<sources, record, outputs, packages, kills>>

(* What the build system makes of the checkout. *)
Built == [device |-> integrated, edited |-> edited]

BuildAosp ==
  /\ pc = "aosp"
  /\ images' = Built
  /\ Enter("building-boot-payload", "boot")
  /\ UNCHANGED <<sources, record, kernel, boot, packages, kills>>

(* build-boot-payload.py: an existing directory is never overwritten. *)
MakeBootDirectory ==
  /\ pc = "boot"
  /\ IF boot = None
     THEN boot' = Partial /\ Goto("bootImage") /\ UNCHANGED <<then, audit>>
     ELSE Refuse /\ UNCHANGED boot
  /\ UNCHANGED <<sources, record, kernel, images, packages, kills>>

(* A slip: the phase is entered before the payload is made. *)
StampBootPayload ==
  /\ pc = "bootImage"
  /\ Enter("checking-release-inputs", "inputs")
  /\ UNCHANGED <<sources, record, kernel, images, boot, packages, kills>>

MakeBootPayload ==
  /\ pc = "bootImage"
  /\ boot' = [device |-> worktrees["device"], kernel |-> kernel,
              init |-> images]
  /\ Enter("checking-release-inputs", "inputs")
  /\ UNCHANGED <<sources, record, kernel, images, packages, kills>>

(* The release properties are in the images, whose hashes are recorded. *)
CheckInputs ==
  /\ pc = "inputs"
  /\ Save([audit EXCEPT !.phase = "finished", !.images = images], "idle")
  /\ UNCHANGED <<sources, record, outputs, packages, kills>>

----------------------------------------------------------------------------
(* package-clean-release.py                                                *)

(* A slip: the files of the checkout are not compared with the worktree. *)
SourcesTrusted == checkout = "integrated"

(* Every integrated device file is the frozen one. *)
SourcesAsFrozen == /\ checkout = "integrated" /\ ~edited
                   /\ integrated = stamp.commits["device"]

(* The images and the boot payload are those of the record. *)
OutputsAsRecorded ==
  /\ images = stamp.images
  /\ boot \notin {None, Partial}
  /\ boot.device = stamp.commits["device"] /\ boot.init = images
  /\ boot.kernel = kernel /\ kernel = stamp.kernel

Package ==
  /\ pc = "idle"
  /\ prepare = "ready" /\ Recorded /\ stamp.phase = "finished"
  /\ worktrees = stamp.commits
  /\ SourcesAsFrozen /\ OutputsAsRecorded
  /\ packages' = packages \cup {[claims |-> stamp.commits, images |-> images,
                                 boot |-> boot]}
  /\ UNCHANGED <<sources, record, outputs, run, kills>>

----------------------------------------------------------------------------
(* Around the runs                                                         *)

DeveloperCommits ==
  /\ \E r \in Repository : /\ head[r] < MaxCommit
                           /\ head' = [head EXCEPT ![r] = @ + 1]
  /\ UNCHANGED <<prepare, checkout, integrated, edited, undone, record,
                 outputs, packages, run, kills>>

DeveloperEdits ==
  /\ checkout = "integrated"
  /\ edited' = ~edited /\ undone' = (undone \/ edited)
  /\ UNCHANGED <<head, prepare, checkout, integrated, record, outputs,
                 packages, run, kills>>

(* Another build in the release output, for instance of one more tool. *)
DeveloperBuilds ==
  /\ pc = "idle" /\ images # None
  /\ images' = Built
  /\ UNCHANGED <<sources, record, kernel, boot, packages, run, kills>>

RunDies ==
  /\ pc # "idle" /\ kills < MaxKills
  /\ Refuse /\ kills' = kills + 1
  /\ UNCHANGED <<sources, record, outputs, packages>>

----------------------------------------------------------------------------
Preparation == Freeze \/ Sync \/ Verify \/ ReadyToBuild

Phases == \/ MakeOutput \/ FreezeWorktrees \/ WriteRecord
          \/ CheckIdentity \/ ApplyIntegration \/ AuditIntegration
          \/ RebuildKernel \/ LinkOutput \/ BuildAosp \/ MakeBootDirectory
          \/ MakeBootPayload \/ CheckInputs

Developers == DeveloperCommits \/ DeveloperEdits \/ DeveloperBuilds

Next == \/ Prepare \/ ResumePreparation \/ Preparation
        \/ Build \/ Resume \/ Phases
        \/ Package \/ Developers \/ RunDies

Spec == Init /\ [][Next]_vars

(* Fairness: a run that is not killed goes on, and an unfinished build is    *)
(* resumed by the operator.                                                  *)
FairSpec == /\ Spec
            /\ WF_vars(Preparation) /\ WF_vars(Phases)
            /\ SF_vars(Resume /\ stamp.phase # "finished")

----------------------------------------------------------------------------
(* Properties                                                              *)

(* A package holds what it claims: images and boot payload built from the    *)
(* frozen commits, however the build was interrupted and resumed and what-   *)
(* ever was committed, edited or built meanwhile.  Only an edit that was     *)
(* undone before packaging can be in it.                                     *)
PackagesHoldClaims ==
  \A p \in packages :
    /\ p.images.device = p.claims["device"]
    /\ p.boot = [device |-> p.claims["device"],
                 kernel |-> p.claims["kernel"], init |-> p.images]
    /\ p.images.edited => undone

(* "Interrupted integration must be audited/recovered explicitly; no blind   *)
(* reapplication": apply-aosp-integration.sh starts on a clean checkout only. *)
IntegratedOnce == [][pc # "apply" /\ pc' = "apply" => checkout = "clean"]_vars

Reached(phases) == Recorded /\ stamp.phase \in phases

(* The phases after each piece of work. *)
AfterBoot == {"checking-release-inputs", "finished"}
AfterAosp == {"building-boot-payload"} \cup AfterBoot
AfterKernel == {"building-aosp"} \cup AfterAosp
AfterIntegration == {"integration-applied", "rebuilding-kernel"} \cup AfterKernel

(* The record never claims a phase whose results a crash could have lost: a  *)
(* resumed build does not skip work that was not done.                       *)
RecordNotAhead ==
  /\ Reached(Phase) => worktrees = stamp.commits
  /\ Reached(AfterIntegration) => /\ checkout = "integrated"
                                  /\ integrated = stamp.commits["device"]
  /\ Reached(AfterKernel) => /\ kernel = stamp.kernel
                             /\ kernel = stamp.commits["kernel"]
  /\ Reached(AfterAosp) => images # None
  /\ Reached(AfterBoot) => boot \notin {None, Partial}
  /\ Reached({"finished"}) => stamp.images # None

(* The ends that --resume does not recover: a record or preparation cut      *)
(* while it was written, an integration cut, and a boot payload that was     *)
(* begun before its phase was recorded; an edit is refused by packaging.     *)
NeedsHand ==
  /\ pc = "idle"
  /\ \/ prepare # "ready" \/ edited
     \/ stamp = Partial
     \/ Recorded /\ stamp.phase = "applying-integration"
     \/ Recorded /\ stamp.phase = "building-boot-payload" /\ boot # None

(* A recorded build finishes, by resuming it after each failure, or ends in  *)
(* one of the states that need a hand.                                       *)
BuildEnds == Recorded ~> Reached({"finished"}) \/ NeedsHand
=============================================================================

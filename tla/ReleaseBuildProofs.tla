-------------------------- MODULE ReleaseBuildProofs --------------------------
(***************************************************************************)
(* Proofs about ReleaseBuild, for any number of commits and kills: its     *)
(* types, that the record is never ahead of the work, that a package holds *)
(* what it claims, and that patches meet a clean checkout only.            *)
(*                                                                         *)
(* The record on the disk is the run's copy of an earlier moment.  The     *)
(* invariant says of both that what they claim is done, and of the copy    *)
(* which phase it may be in at each label.                                 *)
(***************************************************************************)
EXTENDS ReleaseBuild, TLAPS

(* What a record claims is done. *)
Done(a) ==
  /\ worktrees = a.commits
  /\ a.phase = "upstream-clean-audited" => checkout = "clean"
  /\ a.phase \in AfterIntegration => /\ checkout = "integrated"
                                     /\ integrated = a.commits["device"]
  /\ a.phase \in AfterKernel => kernel = a.kernel /\ kernel = a.commits["kernel"]
  /\ a.phase \in AfterAosp => images # None
  /\ a.phase \in AfterBoot => boot \notin {None, Partial}
  /\ a.phase = "finished" => a.images # None

(* A run that works on the record. *)
Working == {"save", "identity", "apply", "audit", "kernel", "link", "aosp",
            "boot", "bootImage", "inputs"}

(* The phase of the run's copy where the run is, or is about to be. *)
InPhase(label) ==
  /\ label = "identity" => audit.phase # "applying-integration"
  /\ label = "apply" => audit.phase = "applying-integration"
  /\ label = "audit" => audit.phase \in AfterIntegration
  /\ label = "kernel" => audit.phase = "rebuilding-kernel"
  /\ label = "link" => audit.phase \in AfterKernel
  /\ label = "aosp" => audit.phase = "building-aosp"
  /\ label \in {"boot", "bootImage"} => audit.phase = "building-boot-payload"
  /\ label = "inputs" => audit.phase = "checking-release-inputs"

(* A first record is made where there is none, of a clean checkout. *)
Beginning ==
  pc \in {"output", "worktrees"} =>
    /\ audit \in Audit /\ audit.phase = "upstream-clean-audited"
    /\ checkout = "clean" /\ stamp = None

CopyDone ==
  pc \in Working =>
    /\ audit \in Audit /\ Done(audit) /\ InPhase(pc)
    /\ pc = "save" => InPhase(then) /\ then \in (Working \ {"save"}) \cup {"idle"}
    /\ pc = "save" /\ then = "apply" => checkout = "clean"
    /\ pc = "apply" => stamp = audit /\ checkout \in {"clean", "patching"}

StampDone == Recorded => Done(stamp)

(* Before there is a record there is no audit directory, and a preparation  *)
(* makes the checkout before there is a record.                             *)
InOrder ==
  /\ stamp # None \/ pc \in Working \cup {"output", "worktrees"} =>
       recordDir /\ checkout \notin {"absent", "partial"}
  /\ pc = "freeze" => checkout = "absent"

(* The images are of the integrated checkout. *)
ImagesOfCheckout ==
  images # None => /\ checkout = "integrated" /\ images.device = integrated
                   /\ images.edited => edited \/ undone

IInv == /\ TypeOK /\ Beginning /\ CopyDone /\ StampDone /\ InOrder
        /\ ImagesOfCheckout /\ PackagesHoldClaims

USE DEF Goto, Refuse, Save, Enter, At, ContinueAt

----------------------------------------------------------------------------
(* Types                                                                   *)

LEMMA BuiltTyped ==
  ASSUME TypeOK, integrated \in Commit PROVE Built \in Image /\ Built # None
BY MarkerAssumption DEF Built, Image, TypeOK

(* Label by label, what the boot payload is made of is there. *)
LEMMA BootTyped ==
  ASSUME TypeOK, CopyDone, pc = "bootImage"
  PROVE  [device |-> worktrees["device"], kernel |-> kernel, init |-> images]
           \in Boot
<1>1. /\ audit \in Audit /\ worktrees = audit.commits /\ images # None
      /\ kernel = audit.commits["kernel"]
  BY DEF CopyDone, Working, Done, InPhase, AfterAosp, AfterKernel
<1>2. worktrees["device"] \in Commit /\ kernel \in Commit
  BY <1>1 DEF Audit, Frozen, Repository
<1> QED BY <1>1, <1>2 DEF Boot, TypeOK

LEMMA IntegratedTyped ==
  ASSUME CopyDone, pc = "aosp" PROVE integrated \in Commit
<1>1. audit \in Audit /\ integrated = audit.commits["device"]
  BY DEF CopyDone, Working, Done, InPhase, AfterIntegration, AfterKernel
<1> QED BY <1>1 DEF Audit, Frozen, Repository

(* The run's copy with another phase. *)
LEMMA EnterTyped ==
  ASSUME audit \in Audit, NEW phase \in Phase
  PROVE  [audit EXCEPT !.phase = phase] \in Audit
BY DEF Audit

LEMMA TypeStep ==
  /\ TypeOK /\ Beginning /\ CopyDone /\ ImagesOfCheckout /\ [Next]_vars
  => TypeOK'
<1> SUFFICES ASSUME TypeOK, Beginning, CopyDone, ImagesOfCheckout, [Next]_vars
             PROVE  TypeOK'
  OBVIOUS
<1> USE DEF TypeOK, Label, sources, record, outputs, run
<1>1. CASE UNCHANGED vars BY <1>1 DEF vars
<1>2. CASE Prepare BY <1>2 DEF Prepare
<1>3. CASE ResumePreparation BY <1>3 DEF ResumePreparation
<1>4. CASE Preparation
  BY <1>4 DEF Preparation, Freeze, Sync, Verify, ReadyToBuild
<1>5. CASE Build
  <2>1. Fresh \in Audit BY DEF Fresh, Audit, Phase
  <2> QED BY <1>5, <2>1 DEF Build
<1>6. CASE Resume
  BY <1>6 DEF Resume, Resumable, Recorded
<1>7. CASE MakeOutput BY <1>7 DEF MakeOutput
<1>8. CASE FreezeWorktrees
  <2>1. audit \in Audit BY <1>8 DEF FreezeWorktrees, Beginning
  <2>2. audit.commits \in Frozen BY <2>1 DEF Audit
  <2> QED BY <1>8, <2>1, <2>2 DEF FreezeWorktrees
<1>9. CASE WriteRecord BY <1>9 DEF WriteRecord, CopyDone, Working
<1>10. CASE CheckIdentity
  <2>1. audit \in Audit BY <1>10 DEF CheckIdentity, CopyDone, Working
  <2>2. [audit EXCEPT !.phase = "applying-integration"] \in Audit
    BY <2>1, EnterTyped DEF Phase
  <2> QED BY <1>10, <2>1, <2>2 DEF CheckIdentity
<1>11. CASE ApplyIntegration
  <2>1. audit \in Audit /\ worktrees = audit.commits
    BY <1>11 DEF ApplyIntegration, CopyDone, Working, Done
  <2>2. [audit EXCEPT !.phase = "integration-applied"] \in Audit
    BY <2>1, EnterTyped DEF Phase
  <2>3. worktrees["device"] \in Commit BY <2>1 DEF Audit, Frozen, Repository
  <2> QED BY <1>11, <2>1, <2>2, <2>3 DEF ApplyIntegration
<1>12. CASE AuditIntegration
  <2>1. audit \in Audit BY <1>12 DEF AuditIntegration, CopyDone, Working
  <2>2. [audit EXCEPT !.phase = "rebuilding-kernel"] \in Audit
    BY <2>1, EnterTyped DEF Phase
  <2> QED BY <1>12, <2>1, <2>2 DEF AuditIntegration
<1>13. CASE RebuildKernel
  <2>1. audit \in Audit /\ worktrees = audit.commits
    BY <1>13 DEF RebuildKernel, CopyDone, Working, Done
  <2>2. worktrees["kernel"] \in Commit BY <2>1 DEF Audit, Frozen, Repository
  <2>3. [audit EXCEPT !.phase = "building-aosp",
                      !.kernel = worktrees["kernel"]] \in Audit
    BY <2>1, <2>2 DEF Audit, Phase
  <2> QED BY <1>13, <2>2, <2>3 DEF RebuildKernel
<1>14. CASE LinkOutput BY <1>14 DEF LinkOutput
<1>15. CASE BuildAosp
  <2>1. audit \in Audit BY <1>15 DEF BuildAosp, CopyDone, Working
  <2>2. [audit EXCEPT !.phase = "building-boot-payload"] \in Audit
    BY <2>1, EnterTyped DEF Phase
  <2>3. Built \in Image BY <1>15, IntegratedTyped, BuiltTyped DEF BuildAosp
  <2> QED BY <1>15, <2>2, <2>3 DEF BuildAosp
<1>16. CASE MakeBootDirectory BY <1>16 DEF MakeBootDirectory
<1>17. CASE MakeBootPayload
  <2>1. audit \in Audit BY <1>17 DEF MakeBootPayload, CopyDone, Working
  <2>2. [audit EXCEPT !.phase = "checking-release-inputs"] \in Audit
    BY <2>1, EnterTyped DEF Phase
  <2> QED BY <1>17, <2>2, BootTyped DEF MakeBootPayload
<1>18. CASE CheckInputs
  <2>1. audit \in Audit BY <1>18 DEF CheckInputs, CopyDone, Working
  <2>2. [audit EXCEPT !.phase = "finished", !.images = images] \in Audit
    BY <2>1 DEF Audit, Phase
  <2> QED BY <1>18, <2>2 DEF CheckInputs
<1>19. CASE Package
  <2>1. /\ stamp \in Audit /\ boot \in Boot /\ boot.init = images
    BY <1>19 DEF Package, Recorded, OutputsAsRecorded
  <2>2. stamp.commits \in Frozen /\ images \in Image BY <2>1 DEF Audit, Boot
  <2>3. [claims |-> stamp.commits, images |-> images, boot |-> boot]
          \in [claims : Frozen, images : Image, boot : Boot]
    BY <2>1, <2>2
  <2> QED BY <1>19, <2>3 DEF Package
<1>20. CASE DeveloperCommits
  <2>1. PICK r \in Repository :
          head[r] < MaxCommit /\ head' = [head EXCEPT ![r] = @ + 1]
    BY <1>20 DEF DeveloperCommits
  <2>2. head[r] + 1 \in Commit
    BY <2>1, MaxCommitAssumption DEF Frozen, Commit
  <2>3. head' \in Frozen BY <2>1, <2>2 DEF Frozen
  <2> QED BY <1>20, <2>3 DEF DeveloperCommits
<1>21. CASE DeveloperEdits BY <1>21 DEF DeveloperEdits
<1>22. CASE DeveloperBuilds
  <2>1. integrated \in Commit
    BY <1>22 DEF DeveloperBuilds, ImagesOfCheckout, Image
  <2> QED BY <1>22, <2>1, BuiltTyped DEF DeveloperBuilds
<1>23. CASE RunDies
  BY <1>23, MaxKillsAssumption DEF RunDies
<1> QED BY <1>1, <1>2, <1>3, <1>4, <1>5, <1>6, <1>7, <1>8, <1>9, <1>10, <1>11,
           <1>12, <1>13, <1>14, <1>15, <1>16, <1>17, <1>18, <1>19, <1>20,
           <1>21, <1>22, <1>23
        DEF Next, Phases, Developers

----------------------------------------------------------------------------
(* The order of things                                                     *)

LEMMA OrderStep ==
  TypeOK /\ InOrder /\ Beginning /\ CopyDone /\ [Next]_vars => InOrder'
<1> SUFFICES ASSUME TypeOK, InOrder, Beginning, CopyDone, [Next]_vars
             PROVE  InOrder'
  OBVIOUS
<1> USE DEF InOrder, Working, sources, record, outputs, run
<1>1. CASE UNCHANGED vars BY <1>1 DEF vars
<1>2. CASE Prepare \/ ResumePreparation BY <1>2 DEF Prepare, ResumePreparation
<1>3. CASE Preparation
  BY <1>3 DEF Preparation, Freeze, Sync, Verify, ReadyToBuild
<1>4. CASE Build BY <1>4 DEF Build
<1>5. CASE Resume BY <1>5 DEF Resume, Resumable, Recorded
<1>6. CASE MakeOutput \/ FreezeWorktrees
  BY <1>6 DEF MakeOutput, FreezeWorktrees
<1>7. CASE WriteRecord BY <1>7 DEF WriteRecord, CopyDone
<1>8. CASE CheckIdentity \/ AuditIntegration \/ RebuildKernel \/ LinkOutput
           \/ BuildAosp \/ MakeBootDirectory \/ MakeBootPayload \/ CheckInputs
  BY <1>8 DEF CheckIdentity, AuditIntegration, RebuildKernel, LinkOutput,
     BuildAosp, MakeBootDirectory, MakeBootPayload, CheckInputs
<1>9. CASE ApplyIntegration BY <1>9 DEF ApplyIntegration
<1>10. CASE Package \/ Developers \/ RunDies
  BY <1>10 DEF Package, Developers, DeveloperCommits, DeveloperEdits,
     DeveloperBuilds, RunDies
<1> QED BY <1>1, <1>2, <1>3, <1>4, <1>5, <1>6, <1>7, <1>8, <1>9, <1>10
        DEF Next, Phases

(* A first record: nothing of it is on the disk yet. *)
LEMMA BeginningStep ==
  TypeOK /\ Beginning /\ CopyDone /\ InOrder /\ [Next]_vars => Beginning'
<1> SUFFICES ASSUME TypeOK, Beginning, CopyDone, InOrder, [Next]_vars,
                    pc' \in {"output", "worktrees"}
             PROVE  /\ audit' \in Audit /\ audit'.phase = "upstream-clean-audited"
                    /\ checkout' = "clean" /\ stamp' = None
  BY DEF Beginning
<1> USE DEF sources, record, outputs, run
<1>1. CASE Build
  <2>1. Fresh \in Audit /\ Fresh.phase = "upstream-clean-audited"
    BY DEF Fresh, Audit, Phase, TypeOK
  <2> QED BY <1>1, <2>1 DEF Build, InOrder
<1>2. CASE MakeOutput BY <1>2 DEF MakeOutput, Beginning
<1>3. CASE /\ UNCHANGED <<pc, audit, stamp>>
           /\ checkout' = checkout
  BY <1>3 DEF Beginning
<1>4. Build \/ MakeOutput \/ (UNCHANGED <<pc, audit, stamp>> /\ checkout' = checkout)
  <2>1. ~(Prepare \/ ResumePreparation \/ Preparation \/ Resume)
    BY DEF Prepare, ResumePreparation, Preparation, Freeze, Sync, Verify,
       ReadyToBuild, Resume
  <2>2. ~WriteRecord BY DEF WriteRecord, CopyDone, Working
  <2>3. ~(FreezeWorktrees \/ CheckIdentity \/ ApplyIntegration \/ AuditIntegration
          \/ RebuildKernel \/ LinkOutput \/ BuildAosp \/ MakeBootDirectory
          \/ MakeBootPayload \/ CheckInputs \/ RunDies)
    BY DEF FreezeWorktrees, CheckIdentity, ApplyIntegration, AuditIntegration,
       RebuildKernel, LinkOutput, BuildAosp, MakeBootDirectory, MakeBootPayload,
       CheckInputs, RunDies
  <2> QED BY <2>1, <2>2, <2>3
          DEF Next, Phases, Package, Developers, DeveloperCommits,
              DeveloperEdits, DeveloperBuilds, vars
<1> QED BY <1>1, <1>2, <1>3, <1>4

(* The images are of the checkout, and an edit in them shows, or is undone. *)
LEMMA ImagesStep ==
  /\ TypeOK /\ ImagesOfCheckout /\ CopyDone /\ InOrder /\ [Next]_vars
  => ImagesOfCheckout'
<1> SUFFICES ASSUME TypeOK, ImagesOfCheckout, CopyDone, InOrder, [Next]_vars
             PROVE  ImagesOfCheckout'
  OBVIOUS
<1> USE DEF ImagesOfCheckout, sources, record, outputs, run
<1>1. CASE UNCHANGED <<images, checkout, integrated, edited, undone>> BY <1>1
<1>2. CASE Freeze \/ Sync BY <1>2 DEF Freeze, Sync, InOrder
<1>3. CASE ApplyIntegration
  BY <1>3 DEF ApplyIntegration, CopyDone, Working
<1>4. CASE BuildAosp
  <2>1. checkout = "integrated"
    BY <1>4 DEF BuildAosp, CopyDone, Working, Done, InPhase, AfterIntegration,
       AfterKernel
  <2> QED BY <1>4, <2>1 DEF BuildAosp, Built
<1>5. CASE DeveloperBuilds BY <1>5 DEF DeveloperBuilds, Built
<1>6. CASE DeveloperEdits BY <1>6 DEF DeveloperEdits, TypeOK
<1>7. \/ UNCHANGED <<images, checkout, integrated, edited, undone>>
      \/ Freeze \/ Sync \/ ApplyIntegration \/ BuildAosp
      \/ DeveloperBuilds \/ DeveloperEdits
  BY DEF Next, Phases, Preparation, Developers, Prepare, ResumePreparation,
     Verify, ReadyToBuild, Build, Resume, MakeOutput, FreezeWorktrees,
     WriteRecord, CheckIdentity, AuditIntegration, RebuildKernel, LinkOutput,
     MakeBootDirectory, MakeBootPayload, CheckInputs, Package,
     DeveloperCommits, RunDies, vars
<1> QED BY <1>1, <1>2, <1>3, <1>4, <1>5, <1>6, <1>7

----------------------------------------------------------------------------
(* What the records claim                                                  *)

(* A step that undoes nothing of what a record claims. *)
Kept(a) ==
  /\ worktrees' = worktrees
  /\ a.phase = "upstream-clean-audited" => checkout' = checkout
  /\ a.phase \in AfterIntegration => UNCHANGED <<checkout, integrated>>
  /\ a.phase \in AfterKernel => kernel' = kernel
  /\ a.phase \in AfterAosp => images' # None
  /\ a.phase \in AfterBoot => boot' \notin {None, Partial}

LEMMA WorkKept ==
  ASSUME TypeOK, CopyDone, ImagesOfCheckout, [Next]_vars,
         NEW a, Done(a), pc # "worktrees",
         pc # "freeze", checkout # "partial",
         pc = "apply" => a.phase = "applying-integration"
  PROVE  Kept(a)
<1> USE DEF Kept, Done, sources, record, outputs, run
<1>1. CASE UNCHANGED <<worktrees, checkout, integrated, kernel, images, boot>>
  BY <1>1
<1>2. CASE Sync BY <1>2 DEF Sync
<1>3. CASE ApplyIntegration
  BY <1>3 DEF ApplyIntegration, AfterIntegration, AfterKernel, AfterAosp, AfterBoot
<1>4. CASE RebuildKernel BY <1>4 DEF RebuildKernel
<1>5. CASE BuildAosp
  <2>1. Built # None BY <1>5, IntegratedTyped, BuiltTyped DEF BuildAosp
  <2> QED BY <1>5, <2>1 DEF BuildAosp
<1>6. CASE DeveloperBuilds
  <2>1. integrated \in Commit
    BY <1>6 DEF DeveloperBuilds, ImagesOfCheckout, Image, TypeOK
  <2> QED BY <1>6, <2>1, BuiltTyped DEF DeveloperBuilds
<1>7. CASE MakeBootDirectory BY <1>7 DEF MakeBootDirectory
<1>8. CASE MakeBootPayload
  <2>1. boot' \in Boot BY <1>8, BootTyped DEF MakeBootPayload
  <2> QED BY <1>8, <2>1, MarkerAssumption DEF MakeBootPayload
<1>9. \/ UNCHANGED <<worktrees, checkout, integrated, kernel, images, boot>>
      \/ Sync \/ ApplyIntegration \/ RebuildKernel \/ BuildAosp
      \/ DeveloperBuilds \/ MakeBootDirectory \/ MakeBootPayload
  BY DEF Next, Phases, Preparation, Developers, Prepare, ResumePreparation,
     Freeze, Verify, ReadyToBuild, Build, Resume, MakeOutput, FreezeWorktrees,
     WriteRecord, CheckIdentity, AuditIntegration, LinkOutput, CheckInputs,
     Package, DeveloperCommits, DeveloperEdits, RunDies, vars
<1> QED BY <1>1, <1>2, <1>3, <1>4, <1>5, <1>6, <1>7, <1>8, <1>9

LEMMA StampStep ==
  /\ TypeOK /\ Beginning /\ CopyDone /\ StampDone /\ InOrder
  /\ ImagesOfCheckout /\ [Next]_vars
  => StampDone'
<1> SUFFICES ASSUME TypeOK, Beginning, CopyDone, StampDone, InOrder,
                    ImagesOfCheckout, [Next]_vars, Recorded'
             PROVE  Done(stamp)'
  BY DEF StampDone
<1>1. CASE WriteRecord
  <2>1. stamp' = audit /\ Done(audit)
    BY <1>1 DEF WriteRecord, CopyDone, Working, Recorded
  <2> QED BY <1>1, <2>1 DEF WriteRecord, Done, sources, outputs
<1>2. CASE stamp' = stamp
  <2>1. Recorded /\ stamp # None BY <1>2 DEF Recorded
  <2>2. Done(stamp) BY <2>1 DEF StampDone
  <2>3. /\ pc # "worktrees" /\ pc # "freeze" /\ checkout # "partial"
        /\ pc = "apply" => stamp.phase = "applying-integration"
    BY <2>1 DEF Beginning, InOrder, CopyDone, Working, InPhase
  <2>4. Kept(stamp) BY <2>2, <2>3, WorkKept
  <2> QED BY <1>2, <2>2, <2>4 DEF Done, Kept
<1>3. stamp' = stamp \/ WriteRecord
  BY DEF Next, Phases, Preparation, Developers, Prepare, ResumePreparation,
     Freeze, Sync, Verify, ReadyToBuild, Build, Resume, MakeOutput,
     FreezeWorktrees, CheckIdentity, ApplyIntegration, AuditIntegration,
     RebuildKernel, LinkOutput, BuildAosp, MakeBootDirectory, MakeBootPayload,
     CheckInputs, Package, DeveloperCommits, DeveloperEdits, DeveloperBuilds,
     RunDies, vars, record
<1> QED BY <1>1, <1>2, <1>3

LEMMA EnterFacts ==
  ASSUME audit \in Audit, NEW phase \in Phase, audit' = [audit EXCEPT !.phase = phase]
  PROVE  /\ audit' \in Audit /\ audit'.phase = phase
         /\ audit'.commits = audit.commits /\ audit'.kernel = audit.kernel
         /\ audit'.images = audit.images
BY DEF Audit

LEMMA CopyStep ==
  /\ TypeOK /\ Beginning /\ CopyDone /\ StampDone /\ InOrder
  /\ ImagesOfCheckout /\ [Next]_vars
  => CopyDone'
<1> SUFFICES ASSUME TypeOK, Beginning, CopyDone, StampDone, InOrder,
                    ImagesOfCheckout, [Next]_vars, pc' \in Working
             PROVE  /\ audit' \in Audit /\ Done(audit)' /\ InPhase(pc)'
                    /\ pc' = "save" =>
                         /\ InPhase(then)'
                         /\ then' \in (Working \ {"save"}) \cup {"idle"}
                    /\ pc' = "save" /\ then' = "apply" => checkout' = "clean"
                    /\ pc' = "apply" =>
                         stamp' = audit' /\ checkout' \in {"clean", "patching"}
  BY DEF CopyDone
<1> USE DEF sources, record, outputs, run, AfterIntegration, AfterKernel,
        AfterAosp, AfterBoot
<1>a. ASSUME pc \in Working
      PROVE  /\ audit \in Audit /\ Done(audit) /\ InPhase(pc)
             /\ pc = "save" => InPhase(then) /\ then \in (Working \ {"save"}) \cup {"idle"}
             /\ pc = "save" /\ then = "apply" => checkout = "clean"
             /\ pc = "apply" => stamp = audit /\ checkout \in {"clean", "patching"}
             /\ Kept(audit)
  <2>1. /\ Done(audit) /\ pc # "worktrees" /\ pc # "freeze" /\ checkout # "partial"
        /\ pc = "apply" => audit.phase = "applying-integration"
    BY <1>a DEF CopyDone, Working, InOrder, InPhase
  <2>2. Kept(audit) BY <2>1, WorkKept
  <2> QED BY <1>a, <2>2 DEF CopyDone
<1>1. CASE pc \in Working /\ UNCHANGED <<pc, then, audit, stamp, checkout>>
  BY <1>1, <1>a DEF Done, Kept, InPhase
<1>2. CASE Resume
  <2>1. stamp \in Audit /\ Done(stamp) /\ audit' = stamp /\ pc' = "identity"
        /\ stamp.phase # "applying-integration"
    BY <1>2 DEF Resume, Resumable, Recorded, StampDone, TypeOK
  <2> QED BY <1>2, <2>1 DEF Resume, Done, InPhase
<1>3. CASE FreezeWorktrees
  <2>1. /\ audit \in Audit /\ audit.phase = "upstream-clean-audited"
        /\ checkout = "clean" /\ audit' = audit /\ worktrees' = audit.commits
        /\ pc' = "save" /\ then' = "identity" /\ checkout' = checkout
    BY <1>3 DEF FreezeWorktrees, Beginning
  <2> QED BY <2>1 DEF Done, InPhase, Working
<1>4. CASE WriteRecord
  <2>1. pc = "save" /\ pc \in Working BY <1>4 DEF WriteRecord, Working
  <2>2. Done(audit)' BY <1>4, <2>1, <1>a DEF WriteRecord, Done
  <2>3. \/ UNCHANGED <<pc, then, audit>>
        \/ pc' = then /\ stamp' = audit /\ audit' = audit
    BY <1>4 DEF WriteRecord
  <2>4. CASE UNCHANGED <<pc, then, audit>>
    BY <1>4, <2>1, <2>2, <2>4, <1>a DEF WriteRecord, InPhase
  <2>5. CASE pc' = then /\ stamp' = audit /\ audit' = audit
    BY <1>4, <2>1, <2>2, <2>5, <1>a DEF WriteRecord, InPhase, Working
  <2> QED BY <2>3, <2>4, <2>5
<1>5. CASE CheckIdentity
  <2>1. pc = "identity" /\ pc \in Working BY <1>5 DEF CheckIdentity, Working
  <2>2. CASE audit.phase = "upstream-clean-audited"
    <3>1. audit' = [audit EXCEPT !.phase = "applying-integration"]
          /\ pc' = "save" /\ then' = "apply" /\ checkout' = checkout
          /\ worktrees' = worktrees
      BY <1>5, <2>2 DEF CheckIdentity, Working
    <3>2. /\ audit' \in Audit /\ audit'.phase = "applying-integration"
          /\ audit'.commits = audit.commits
      BY <3>1, <2>1, <1>a, EnterFacts DEF Phase
    <3> QED BY <2>1, <2>2, <3>1, <3>2, <1>a DEF Done, InPhase, Working
  <2>3. CASE audit.phase # "upstream-clean-audited"
    <3>1. pc' = "audit" /\ UNCHANGED <<audit, checkout, integrated, worktrees, kernel,
                                    images, boot>>
      BY <1>5, <2>3 DEF CheckIdentity, Working
    <3>2. audit.phase \in AfterIntegration
      BY <2>1, <2>3, <1>a DEF InPhase, Audit, Phase
    <3> QED BY <2>1, <3>1, <3>2, <1>a DEF Done, InPhase
  <2> QED BY <2>2, <2>3
<1>6. CASE ApplyIntegration
  <2>1. pc = "apply" /\ pc \in Working BY <1>6 DEF ApplyIntegration, Working
  <2>2. CASE checkout # "patching"
    BY <1>6, <2>1, <2>2, <1>a DEF ApplyIntegration, Done, InPhase
  <2>3. CASE checkout = "patching"
    <3>1. /\ audit' = [audit EXCEPT !.phase = "integration-applied"]
          /\ pc' = "save" /\ then' = "audit" /\ checkout' = "integrated"
          /\ integrated' = worktrees["device"] /\ worktrees' = worktrees
      BY <1>6, <2>3 DEF ApplyIntegration
    <3>2. /\ audit' \in Audit /\ audit'.phase = "integration-applied"
          /\ audit'.commits = audit.commits
      BY <3>1, <2>1, <1>a, EnterFacts DEF Phase
    <3> QED BY <2>1, <3>1, <3>2, <1>a DEF Done, InPhase, Working
  <2> QED BY <2>2, <2>3
<1>7. CASE AuditIntegration
  <2>1. pc = "audit" /\ pc \in Working BY <1>7 DEF AuditIntegration, Working
  <2>2. UNCHANGED <<checkout, integrated, worktrees, kernel, images, boot>>
    BY <1>7 DEF AuditIntegration
  <2>3. CASE audit.phase # "integration-applied"
    <3>1. /\ pc' = IF audit.phase = "rebuilding-kernel" THEN "kernel" ELSE "link"
          /\ audit' = audit
      BY <1>7, <2>3 DEF AuditIntegration, Working
    <3>2. audit.phase \in AfterIntegration BY <2>1, <1>a DEF InPhase
    <3>3. InPhase(pc)' BY <2>3, <3>1, <3>2 DEF InPhase
    <3>4. audit' \in Audit /\ Done(audit)' BY <2>1, <2>2, <3>1, <1>a DEF Done
    <3> QED BY <3>1, <3>3, <3>4
  <2>4. CASE audit.phase = "integration-applied"
    <3>1. /\ audit' = [audit EXCEPT !.phase = "rebuilding-kernel"]
          /\ pc' = "save" /\ then' = "kernel"
      BY <1>7, <2>4 DEF AuditIntegration, Working
    <3>2. /\ audit' \in Audit /\ audit'.phase = "rebuilding-kernel"
          /\ audit'.commits = audit.commits
      BY <3>1, <2>1, <1>a, EnterFacts DEF Phase
    <3> QED BY <2>1, <2>2, <2>4, <3>1, <3>2, <1>a DEF Done, InPhase, Working
  <2> QED BY <2>3, <2>4
<1>8. CASE RebuildKernel
  <2>1. pc = "kernel" /\ pc \in Working BY <1>8 DEF RebuildKernel, Working
  <2>2. /\ audit' = [audit EXCEPT !.phase = "building-aosp",
                                  !.kernel = worktrees["kernel"]]
        /\ pc' = "save" /\ then' = "link" /\ kernel' = worktrees["kernel"]
        /\ UNCHANGED <<checkout, integrated, worktrees>>
    BY <1>8 DEF RebuildKernel
  <2>3. worktrees["kernel"] \in Commit
    BY <2>1, <1>a DEF Done, Audit, Frozen, Repository
  <2>4. /\ audit' \in Audit /\ audit'.phase = "building-aosp"
        /\ audit'.commits = audit.commits /\ audit'.kernel = worktrees["kernel"]
    BY <2>1, <2>2, <2>3, <1>a DEF Audit, Phase
  <2> QED BY <2>1, <2>2, <2>4, <1>a DEF Done, InPhase, Working
<1>9. CASE LinkOutput
  <2>1. pc = "link" /\ pc \in Working BY <1>9 DEF LinkOutput, Working
  <2>2. /\ audit' = audit /\ pc' = "save"
        /\ UNCHANGED <<checkout, integrated, worktrees, kernel, images, boot>>
        /\ \/ audit.phase = "building-aosp" /\ then' = "aosp"
           \/ audit.phase = "building-boot-payload" /\ then' = "boot"
           \/ audit.phase = "checking-release-inputs" /\ then' = "inputs"
           \/ then' = "idle"
    BY <1>9 DEF LinkOutput
  <2> QED BY <2>1, <2>2, <1>a DEF Done, InPhase, Working
<1>10. CASE BuildAosp
  <2>1. pc = "aosp" /\ pc \in Working BY <1>10 DEF BuildAosp, Working
  <2>2. /\ audit' = [audit EXCEPT !.phase = "building-boot-payload"]
        /\ pc' = "save" /\ then' = "boot" /\ images' = Built
        /\ UNCHANGED <<checkout, integrated, worktrees, kernel, boot>>
    BY <1>10 DEF BuildAosp
  <2>3. /\ audit' \in Audit /\ audit'.phase = "building-boot-payload"
        /\ audit'.commits = audit.commits /\ audit'.kernel = audit.kernel
    BY <2>1, <2>2, <1>a, EnterFacts DEF Phase
  <2>4. Built # None BY <2>1, IntegratedTyped, BuiltTyped
  <2> QED BY <2>1, <2>2, <2>3, <2>4, <1>a DEF Done, InPhase, Working
<1>11. CASE MakeBootDirectory
  <2>1. pc = "boot" /\ pc \in Working BY <1>11 DEF MakeBootDirectory, Working
  <2>2. pc' = "bootImage"
        /\ UNCHANGED <<audit, checkout, integrated, worktrees, kernel, images>>
    BY <1>11 DEF MakeBootDirectory, Working
  <2> QED BY <2>1, <2>2, <1>a DEF Done, InPhase
<1>12. CASE MakeBootPayload
  <2>1. pc = "bootImage" /\ pc \in Working BY <1>12 DEF MakeBootPayload, Working
  <2>2. /\ audit' = [audit EXCEPT !.phase = "checking-release-inputs"]
        /\ pc' = "save" /\ then' = "inputs"
        /\ UNCHANGED <<checkout, integrated, worktrees, kernel, images>>
    BY <1>12 DEF MakeBootPayload
  <2>3. /\ audit' \in Audit /\ audit'.phase = "checking-release-inputs"
        /\ audit'.commits = audit.commits /\ audit'.kernel = audit.kernel
    BY <2>1, <2>2, <1>a, EnterFacts DEF Phase
  <2>4. boot' \notin {None, Partial}
    BY <1>12, <2>1, BootTyped, MarkerAssumption DEF MakeBootPayload
  <2> QED BY <2>1, <2>2, <2>3, <2>4, <1>a DEF Done, InPhase, Working
<1>13. CASE CheckInputs
  <2>1. pc = "inputs" /\ pc \in Working BY <1>13 DEF CheckInputs, Working
  <2>2. /\ audit' = [audit EXCEPT !.phase = "finished", !.images = images]
        /\ pc' = "save" /\ then' = "idle"
        /\ UNCHANGED <<checkout, integrated, worktrees, kernel, images, boot>>
    BY <1>13 DEF CheckInputs
  <2>3. /\ audit' \in Audit /\ audit'.phase = "finished" /\ audit'.images = images
        /\ audit'.commits = audit.commits /\ audit'.kernel = audit.kernel
    BY <2>1, <2>2, <1>a DEF Audit, Phase, TypeOK
  <2> QED BY <2>1, <2>2, <2>3, <1>a DEF Done, InPhase, Working
<1>14. \/ pc \in Working /\ UNCHANGED <<pc, then, audit, stamp, checkout>>
       \/ Resume \/ FreezeWorktrees \/ WriteRecord \/ CheckIdentity
       \/ ApplyIntegration \/ AuditIntegration \/ RebuildKernel \/ LinkOutput
       \/ BuildAosp \/ MakeBootDirectory \/ MakeBootPayload \/ CheckInputs
  BY DEF Working, Next, Phases, Preparation, Developers, Prepare, Freeze, Sync,
     ResumePreparation, Verify, ReadyToBuild, Build, MakeOutput, Package,
     DeveloperCommits, DeveloperEdits, DeveloperBuilds, RunDies, vars
<1> QED BY <1>1, <1>2, <1>3, <1>4, <1>5, <1>6, <1>7, <1>8, <1>9, <1>10, <1>11,
           <1>12, <1>13, <1>14

----------------------------------------------------------------------------
(* The packages                                                            *)

LEMMA PackagesStep ==
  /\ TypeOK /\ StampDone /\ ImagesOfCheckout /\ PackagesHoldClaims
  /\ [Next]_vars
  => PackagesHoldClaims'
<1> SUFFICES ASSUME TypeOK, StampDone, ImagesOfCheckout, PackagesHoldClaims,
                    [Next]_vars
             PROVE  PackagesHoldClaims'
  OBVIOUS
<1> USE DEF sources, record, outputs, run
<1>1. CASE Package
  <2> DEFINE new == [claims |-> stamp.commits, images |-> images, boot |-> boot]
  <2>1. /\ packages' = packages \cup {new} /\ undone' = undone
        /\ Recorded /\ stamp.phase = "finished" /\ ~edited
        /\ integrated = stamp.commits["device"] /\ boot \in Boot
        /\ boot.device = stamp.commits["device"] /\ boot.init = images
        /\ boot.kernel = kernel /\ kernel = stamp.kernel
    BY <1>1 DEF Package, SourcesAsFrozen, OutputsAsRecorded, TypeOK
  <2>2. images # None /\ kernel = stamp.commits["kernel"]
    BY <2>1 DEF StampDone, Done, AfterAosp, AfterBoot, AfterKernel
  <2>3. images.device = integrated /\ (images.edited => undone)
    BY <2>1, <2>2 DEF ImagesOfCheckout
  <2>4. boot = [device |-> stamp.commits["device"],
                kernel |-> stamp.commits["kernel"], init |-> images]
    BY <2>1, <2>2 DEF Boot
  <2>5. /\ new.images.device = new.claims["device"]
        /\ new.boot = [device |-> new.claims["device"],
                       kernel |-> new.claims["kernel"], init |-> new.images]
        /\ new.images.edited => undone'
    BY <2>1, <2>3, <2>4
  <2> HIDE DEF new
  <2> QED BY <2>1, <2>5 DEF PackagesHoldClaims
<1>2. CASE UNCHANGED packages /\ (undone => undone')
  BY <1>2 DEF PackagesHoldClaims
<1>3. Package \/ (UNCHANGED packages /\ (undone => undone'))
  BY DEF Next, Phases, Preparation, Developers, Prepare, Freeze, Sync,
     ResumePreparation, Verify, ReadyToBuild, Build, Resume, MakeOutput,
     FreezeWorktrees, WriteRecord, CheckIdentity, ApplyIntegration,
     AuditIntegration, RebuildKernel, LinkOutput, BuildAosp, MakeBootDirectory,
     MakeBootPayload, CheckInputs, DeveloperCommits, DeveloperEdits,
     DeveloperBuilds, RunDies, vars
<1> QED BY <1>1, <1>2, <1>3

----------------------------------------------------------------------------
(* The theorems                                                            *)

LEMMA IInvInit == Init => IInv
<1> SUFFICES ASSUME Init PROVE IInv
  OBVIOUS
<1>1. TypeOK
  <2>1. 1 \in Commit BY MaxCommitAssumption DEF Commit
  <2>2. head \in Frozen BY <2>1 DEF Init, Frozen
  <2>3. kills \in 0..MaxKills BY MaxKillsAssumption DEF Init
  <2> QED BY <2>2, <2>3 DEF Init, TypeOK, Label
<1> QED BY <1>1 DEF Init, IInv, Beginning, CopyDone, Working, StampDone, Recorded,
           InOrder, ImagesOfCheckout, PackagesHoldClaims

LEMMA IInvStep == IInv /\ [Next]_vars => IInv'
BY TypeStep, BeginningStep, CopyStep, StampStep, OrderStep, ImagesStep,
   PackagesStep DEF IInv

LEMMA IInvHolds == Spec => []IInv
BY IInvInit, IInvStep, PTL DEF Spec

(* The variables keep their types: the run's copy is a whole record wherever *)
(* a step of build-clean-release.py changes a field of it.                   *)
THEOREM TypeCorrect == Spec => []TypeOK
<1>1. IInv => TypeOK BY DEF IInv
<1> QED BY <1>1, IInvHolds, PTL

(* build-audit.json claims no phase whose results are not there, for any     *)
(* number of kills, commits and builds between the runs: what --resume skips *)
(* was done, and of the frozen commits.                                      *)
THEOREM RecordNeverAhead == Spec => []RecordNotAhead
<1>1. IInv => RecordNotAhead
  BY DEF IInv, StampDone, Done, RecordNotAhead, Reached
<1> QED BY <1>1, IInvHolds, PTL

(* A package holds the images and the boot payload of the commits it claims. *)
THEOREM PackagesAsClaimed == Spec => []PackagesHoldClaims
<1>1. IInv => PackagesHoldClaims BY DEF IInv
<1> QED BY <1>1, IInvHolds, PTL

(* "no blind reapplication": the integration starts on a clean checkout.     *)
THEOREM IntegratesOnce == Spec => IntegratedOnce
<1>1. IInv /\ [Next]_vars => [pc # "apply" /\ pc' = "apply" => checkout = "clean"]_vars
  <2> SUFFICES ASSUME IInv, Next, pc # "apply", pc' = "apply"
               PROVE  checkout = "clean"
    OBVIOUS
  <2>1. WriteRecord
    BY DEF Next, Phases, Preparation, Developers, Prepare, Freeze, Sync,
       ResumePreparation, Verify, ReadyToBuild, Build, Resume, MakeOutput,
       FreezeWorktrees, CheckIdentity, ApplyIntegration, AuditIntegration,
       RebuildKernel, LinkOutput, BuildAosp, MakeBootDirectory,
       MakeBootPayload, CheckInputs, Package, DeveloperCommits,
       DeveloperEdits, DeveloperBuilds, RunDies, run
  <2>2. pc = "save" /\ then = "apply" BY <2>1 DEF WriteRecord
  <2> QED BY <2>2 DEF IInv, CopyDone, Working
<1> QED BY <1>1, IInvHolds, PTL DEF Spec, IntegratedOnce
=============================================================================

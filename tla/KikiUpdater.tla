----------------------------- MODULE KikiUpdater -----------------------------
(***************************************************************************)
(* The native full-OTA updater: UpdateService.java, its main thread (the   *)
(* onCreate and UpdateEngineCallback handlers) and its single worker       *)
(* thread, over the SharedPreferences they both edit, with what they drive *)
(* outside the repository: Android's update_engine and the host's virtual  *)
(* bootloader, modelled from how the service uses them.                    *)
(*                                                                         *)
(* A step ends where another thread, a crash or update_engine can observe  *)
(* it: at each preference commit, file operation, write of `installing`    *)
(* and engine call.  clearPending() is shared by both threads, so a thread *)
(* that calls it keeps the label to return to in `then`.                   *)
(***************************************************************************)
EXTENDS Integers, Sequences

CONSTANTS
  MaxSequence,   \* highest publisher sequence of an OTA (a bound)
  MaxInbox,      \* progress messages are posted below this backlog (a bound)
  Stage,         \* identities of the private ota-UUID staging files
  NoStage,       \* no file: the "stage" preference is absent
  Crashes        \* the crashes that may occur: "process", "power"

ASSUME MaxSequenceAssumption == MaxSequence \in Nat \ {0}
ASSUME MaxInboxAssumption == MaxInbox \in Nat
ASSUME NoStageAssumption == NoStage \notin Stage

Main == "main"
Worker == "worker"
Thread == {Main, Worker}

Sequence == 1..MaxSequence
Absent == -1        \* no such file
Unverifiable == 0   \* partially written, or not an authentic package
Package == Absent..MaxSequence

VARIABLES
  (* SharedPreferences "ota", and the staging files *)
  pendingSequence, stage, rebootReady, acceptedSequence, files,
  (* fields of the UpdateService instance *)
  installing, candidate, stageFile,
  (* control: thread labels, the label clearPending returns to, the worker's *)
  (* arguments of apply(), whether engine.bind ran, the callbacks queued     *)
  pc, then, file, expected, bound, inbox,
  (* update_engine *)
  engine, payload,
  (* slots and boot: running and other slot's sequence (0: not bootable),    *)
  (* slot switch armed, first boot not yet verified, boot_verified, the      *)
  (* sequence this boot fell back from (0: no kiki_ota_rollback),            *)
  (* BOOT_COMPLETED not yet delivered, sys.kiki.ota.reboot                   *)
  running, other, armed, trial, bootVerified, failed, bootBroadcast,
  rebootRequested

prefs == <<pendingSequence, stage, rebootReady, acceptedSequence>>
fields == <<installing, candidate, stageFile>>
control == <<pc, then, file, expected, bound, inbox>>
engineVars == <<engine, payload>>
bootVars == <<running, other, armed, trial, bootVerified, failed,
              bootBroadcast, rebootRequested>>
vars == <<prefs, files, fields, control, engineVars, bootVars>>

MainLabel == {"down", "complete", "rollback", "bind", "loop", "ready",
              "discard", "forget"}
WorkerLabel == {"idle", "await", "complete", "resume", "check", "install", "copy",
                "verify", "commit", "mark", "submit", "reboot", "catch",
                "cleanup", "discard", "forget"}
Message == {"RUNNING", "NEED_REBOOT", "OK", "ERROR"}
Command == {"resume", "check", "install", "apply", "reboot", "unknown"}

Labelled(f) == /\ f \in [Thread -> MainLabel \cup WorkerLabel]
               /\ f[Main] \in MainLabel /\ f[Worker] \in WorkerLabel

(* Where clearPending() returns to. *)
MainReturn == {"down", "rollback", "bind", "loop"}
WorkerReturn == {"idle", "resume", "catch"}
Returns(f) == /\ f \in [Thread -> MainReturn \cup WorkerReturn]
              /\ f[Main] \in MainReturn /\ f[Worker] \in WorkerReturn

PrefsTyped == /\ pendingSequence \in 0..MaxSequence
              /\ stage \in Stage \cup {NoStage}
              /\ rebootReady \in BOOLEAN
              /\ acceptedSequence \in 0..MaxSequence

FieldsTyped == /\ installing \in BOOLEAN
               /\ candidate \in 0..MaxSequence
               /\ stageFile \in Stage \cup {NoStage}

ControlTyped == /\ Labelled(pc) /\ Returns(then)
                /\ file \in Stage \cup {NoStage}
                /\ expected \in 0..MaxSequence
                /\ bound \in BOOLEAN
                /\ inbox \in Seq(Message)

EngineTyped == /\ engine \in {"IDLE", "RUNNING", "NEED_REBOOT"}
               /\ payload \in 0..MaxSequence

BootTyped == /\ running \in Sequence
             /\ other \in 0..MaxSequence
             /\ failed \in 0..MaxSequence
             /\ {armed, trial, bootVerified, bootBroadcast, rebootRequested}
                  \subseteq BOOLEAN

TypeOK == /\ PrefsTyped
          /\ files \in [Stage -> Package]
          /\ FieldsTyped
          /\ ControlTyped
          /\ EngineTyped
          /\ BootTyped

(* A phone flashed with the baseline: sequence 1 in one slot, nothing in the *)
(* other, just booted; the service has not been started yet.                 *)
Init ==
  /\ pendingSequence = 0 /\ stage = NoStage /\ rebootReady = FALSE
  /\ acceptedSequence = 0 /\ files = [f \in Stage |-> Absent]
  /\ installing = FALSE /\ candidate = 0 /\ stageFile = NoStage
  /\ pc = [t \in Thread |-> IF t = Main THEN "down" ELSE "idle"]
  /\ then = [t \in Thread |-> IF t = Main THEN "down" ELSE "idle"]
  /\ file = NoStage /\ expected = 0 /\ bound = FALSE /\ inbox = <<>>
  /\ engine = "IDLE" /\ payload = 0
  /\ running = 1 /\ other = 0 /\ armed = FALSE /\ trial = FALSE
  /\ bootVerified = FALSE /\ failed = 0 /\ bootBroadcast = TRUE
  /\ rebootRequested = FALSE

----------------------------------------------------------------------------
(* Control                                                                 *)

Goto(t, label) == pc' = [pc EXCEPT ![t] = label]

(* Leave the current command: its local arguments are gone. *)
Finish(label) == Goto(Worker, label) /\ file' = NoStage /\ expected' = 0

(* Call clearPending() and return to label. *)
Clear(t, label) == Goto(t, "discard") /\ then' = [then EXCEPT ![t] = label]

(* current(), line 70 *)
Current == IF running >= acceptedSequence THEN running ELSE acceptedSequence

(* Slips in the guard, for the mutation checks. *)
BusyWhileInstalling == installing
BusyWhileReady == rebootReady

(* The guard of check, download and applyOffline. *)
Busy == installing \/ rebootReady

(* discardStage(f): delete f, and the directory that holds only it. *)
Discard(f) == files' = [g \in Stage |-> IF g = f THEN Absent ELSE files[g]]

----------------------------------------------------------------------------
(* Shared by both threads                                                  *)

(* clearPending(), first half: discardStage of the "stage" preference. *)
DiscardPending(t) ==
  /\ pc[t] = "discard"
  /\ Discard(stage)
  /\ Goto(t, "forget")
  /\ UNCHANGED <<prefs, fields, then, file, expected, bound, inbox, engineVars,
                 bootVars>>

(* clearPending(), second half: one commit forgets the transaction. *)
ForgetPending(t) ==
  /\ pc[t] = "forget"
  /\ stage' = NoStage /\ pendingSequence' = 0 /\ rebootReady' = FALSE
  /\ Goto(t, then[t])
  /\ then' = [then EXCEPT ![t] = IF t = Main THEN "down" ELSE "idle"]
  /\ UNCHANGED <<acceptedSequence, files, fields, file, expected, bound, inbox,
                 engineVars, bootVars>>

(* Slips in completeInstalled's condition: the running system is not looked  *)
(* at, its startup checks are not, the comparison is off by one.             *)
InstalledAnySystem == pendingSequence > 0 /\ bootVerified
InstalledUnverified == pendingSequence > 0 /\ running >= pendingSequence
InstalledStrictly == /\ pendingSequence > 0 /\ bootVerified
                     /\ running > pendingSequence

(* The condition of completeInstalled(), line 34. *)
Installed == /\ pendingSequence > 0
             /\ running >= pendingSequence
             /\ bootVerified

(* completeInstalled(): called by onCreate and by the resume command. *)
CompleteInstalled(t) ==
  LET next == IF t = Main THEN "rollback" ELSE "resume" IN
  /\ pc[t] = "complete"
  /\ \/ /\ Installed
        /\ acceptedSequence' = pendingSequence
        /\ Clear(t, next)
     \/ /\ ~Installed
        /\ Goto(t, next)
        /\ UNCHANGED <<acceptedSequence, then>>
  /\ UNCHANGED <<pendingSequence, stage, rebootReady, files, fields, file,
                 expected, bound, inbox, engineVars, bootVars>>

----------------------------------------------------------------------------
(* The main thread                                                         *)

(* A start request creates the service in a new process. *)
CreateService ==
  /\ pc[Main] = "down"
  /\ Goto(Main, "complete")
  /\ UNCHANGED <<prefs, files, fields, then, file, expected, bound, inbox,
                 engineVars, bootVars>>

(* Volatile state of the application: lost with its process. *)
ProcessGone ==
  /\ installing' = FALSE /\ candidate' = 0 /\ stageFile' = NoStage
  /\ pc' = [t \in Thread |-> IF t = Main THEN "down" ELSE "idle"]
  /\ then' = [t \in Thread |-> IF t = Main THEN "down" ELSE "idle"]
  /\ file' = NoStage /\ expected' = 0 /\ bound' = FALSE /\ inbox' = <<>>

(* A slip: the rollback path only resets the engine. *)
KeepFailedUpdate == Goto(Main, "bind") /\ UNCHANGED then

(* The clearPending() of the rollback path. *)
ForgetFailedUpdate == Clear(Main, "bind")

Rollback == failed # 0   \* ro.boot.kiki_ota_rollback

(* onCreate after a rollback: engine.resetStatus() cancels a waiting slot    *)
(* switch, and throws (the process dies) while a payload is being applied.   *)
ResetAfterRollback ==
  /\ pc[Main] = "rollback"
  /\ \/ /\ Rollback /\ engine # "RUNNING"
        /\ engine' = "IDLE" /\ payload' = 0 /\ armed' = FALSE
        /\ ForgetFailedUpdate
        /\ UNCHANGED <<fields, file, expected, bound, inbox>>
     \/ /\ Rollback /\ engine = "RUNNING"
        /\ ProcessGone
        /\ UNCHANGED <<engineVars, armed>>
     \/ /\ ~Rollback
        /\ Goto(Main, "bind")
        /\ UNCHANGED <<fields, then, file, expected, bound, inbox, engineVars,
                       armed>>
  /\ UNCHANGED <<prefs, files, running, other, trial, bootVerified, failed,
                 bootBroadcast, rebootRequested>>

(* A slip: an idle status taken for one to act on. *)
AnyStatusOnBind == <<engine>>

(* The status a new callback is told; an idle one is ignored, so left out. *)
StatusOnBind == IF engine = "IDLE" THEN <<>> ELSE <<engine>>

(* engine.bind(callback): update_engine posts its current status. *)
BindEngine ==
  /\ pc[Main] = "bind"
  /\ Goto(Main, "loop")
  /\ bound' = TRUE
  /\ inbox' = StatusOnBind
  /\ UNCHANGED <<prefs, files, fields, then, file, expected, engineVars, bootVars>>

Receive(m) == pc[Main] = "loop" /\ inbox # <<>> /\ Head(inbox) = m
              /\ inbox' = Tail(inbox)

(* onStatusUpdate(DOWNLOADING, VERIFYING or FINALIZING) *)
OnRunning ==
  /\ Receive("RUNNING")
  /\ installing' = TRUE
  /\ UNCHANGED <<prefs, files, candidate, stageFile, pc, then, file, expected,
                 bound, engineVars, bootVars>>

(* onStatusUpdate(UPDATED_NEED_REBOOT): installing is cleared first ... *)
OnNeedReboot ==
  /\ Receive("NEED_REBOOT")
  /\ installing' = FALSE
  /\ Goto(Main, "ready")
  /\ UNCHANGED <<prefs, files, candidate, stageFile, then, file, expected,
                 bound, engineVars, bootVars>>

(* ... and rebootReady is committed after it. *)
CommitRebootReady ==
  /\ pc[Main] = "ready"
  /\ rebootReady' = TRUE
  /\ Goto(Main, "loop")
  /\ UNCHANGED <<pendingSequence, stage, acceptedSequence, files, fields, then,
                 file, expected, bound, inbox, engineVars, bootVars>>

(* A slip: a failed payload leaves `installing` as it was. *)
OnCompleteStillInstalling ==
  /\ \/ Receive("OK") /\ UNCHANGED <<pc, then>>
     \/ Receive("ERROR") /\ Clear(Main, "loop")
  /\ UNCHANGED <<prefs, files, fields, file, expected, bound, engineVars, bootVars>>

(* onPayloadApplicationComplete(code) *)
OnComplete ==
  /\ \/ /\ Receive("OK")
        /\ UNCHANGED <<installing, pc, then>>
     \/ /\ Receive("ERROR")
        /\ installing' = FALSE
        /\ Clear(Main, "loop")
  /\ UNCHANGED <<prefs, files, candidate, stageFile, file, expected, bound,
                 engineVars, bootVars>>

----------------------------------------------------------------------------
(* The worker: one command of the executor's queue at a time               *)

(* Where the lambda of onStartCommand takes each command. *)
Entry == [resume |-> "await", check |-> "check", apply |-> "install",
          install |-> IF candidate = 0 THEN "catch" ELSE "install",
          reboot |-> "reboot", unknown |-> "catch"]

(* onStartCommand runs after onCreate has returned; "resume" comes once a   *)
(* boot, from ControlReceiver's BOOT_COMPLETED.                             *)
TakeCommand(c) ==
  /\ pc[Worker] = "idle" /\ bound
  /\ c = "resume" => bootBroadcast
  /\ bootBroadcast' = (bootBroadcast /\ c # "resume")
  /\ Goto(Worker, Entry[c])
  /\ expected' = IF c = "install" THEN candidate ELSE 0
  /\ UNCHANGED <<prefs, files, fields, then, file, bound, inbox, engineVars,
                 running, other, armed, trial, bootVerified, failed,
                 rebootRequested>>

(* resume: at most 60 polls for sys.kiki.ota.boot_verified, then go on. *)
AwaitVerification ==
  /\ pc[Worker] = "await"
  /\ Goto(Worker, "complete")
  /\ UNCHANGED <<prefs, files, fields, then, file, expected, bound, inbox,
                 engineVars, bootVars>>

(* An interrupted transaction is submitted again, from its staged file. *)
Resumable == pendingSequence > Current /\ ~Busy

ResumePending ==
  /\ pc[Worker] = "resume"
  /\ \/ Resumable /\ Goto(Worker, "verify") /\ file' = stage
     \/ ~Resumable /\ Goto(Worker, "idle") /\ UNCHANGED file
  /\ UNCHANGED <<prefs, files, fields, then, expected, bound, inbox, engineVars,
                 bootVars>>

(* check(): the highest authenticated release newer than current(), unless   *)
(* the listing cannot be read (candidate keeps its value).                   *)
Check ==
  /\ pc[Worker] = "check"
  /\ \/ Goto(Worker, "catch") /\ UNCHANGED candidate
     \/ /\ ~Busy
        /\ \E releases \in SUBSET Sequence, rejected \in BOOLEAN :
             LET newer == {s \in releases : s > Current} IN
             \/ /\ newer = {} /\ candidate' = 0
                /\ Goto(Worker, IF rejected THEN "catch" ELSE "idle")
             \/ \E best \in newer :
                  /\ \A s \in newer : s <= best
                  /\ candidate' = best
                  /\ Goto(Worker, "idle")
  /\ UNCHANGED <<prefs, files, installing, stageFile, then, file, expected,
                 bound, inbox, engineVars, bootVars>>

(* download(candidate) and applyOffline(path), up to newStage(): refused when *)
(* busy, for a bad path or when the directory cannot be made.                 *)
NewStage ==
  /\ pc[Worker] = "install"
  /\ \/ /\ Finish("catch")
        /\ UNCHANGED <<files, stageFile>>
     \/ /\ ~Busy
        /\ \E f \in Stage :
             /\ files[f] = Absent /\ f # stage
             /\ files' = [files EXCEPT ![f] = Unverifiable]
             /\ stageFile' = f /\ file' = f
             /\ Goto(Worker, "copy")
        /\ UNCHANGED expected
  /\ UNCHANGED <<prefs, installing, candidate, then, bound, inbox, engineVars,
                 bootVars>>

(* The package is copied and synced, or the copy fails half way. *)
CopyPackage ==
  /\ pc[Worker] = "copy"
  /\ \/ \E s \in Unverifiable..MaxSequence :
          files' = [files EXCEPT ![file] = s]
          /\ Goto(Worker, "verify") /\ UNCHANGED <<file, expected>>
     \/ Finish("catch") /\ UNCHANGED files
  /\ UNCHANGED <<prefs, fields, then, bound, inbox, engineVars, bootVars>>

(* A slip: a duplicate of the running system passes. *)
AcceptableDuplicate(s) == s \in Sequence /\ s >= Current /\ (expected # 0 => s = expected)

(* What apply() requires of the package's authenticated metadata. *)
Acceptable(s) == /\ s \in Sequence
                 /\ expected # 0 => s = expected
                 /\ s > Current

(* apply(), up to the commit; a missing stage is no ZIP file. *)
VerifyPackage ==
  /\ pc[Worker] = "verify"
  /\ \/ /\ file \in Stage /\ Acceptable(files[file])
        /\ Goto(Worker, "commit")
        /\ expected' = files[file] /\ UNCHANGED file
     \/ /\ ~(file \in Stage /\ Acceptable(files[file]))
        /\ Finish("catch")
  /\ UNCHANGED <<prefs, files, fields, then, bound, inbox, engineVars, bootVars>>

(* apply(): record the transaction before it is submitted. *)
CommitPending ==
  /\ pc[Worker] = "commit"
  /\ pendingSequence' = expected /\ stage' = file
  /\ Goto(Worker, "mark")
  /\ UNCHANGED <<rebootReady, acceptedSequence, files, fields, then, file,
                 expected, bound, inbox, engineVars, bootVars>>

MarkInstalling ==
  /\ pc[Worker] = "mark"
  /\ installing' = TRUE
  /\ Goto(Worker, "submit")
  /\ UNCHANGED <<prefs, files, candidate, stageFile, then, file, expected, bound,
                 inbox, engineVars, bootVars>>

(* engine.applyPayload: starts writing the inactive slot when the engine is  *)
(* idle; any refusal is a RuntimeException, on which apply() clears the      *)
(* record and rethrows.                                                      *)
SubmitPayload ==
  /\ pc[Worker] = "submit"
  /\ \/ /\ engine = "IDLE"
        /\ engine' = "RUNNING" /\ payload' = expected
        /\ other' = 0 /\ armed' = FALSE
        /\ Finish("idle")
        /\ UNCHANGED <<installing, then>>
     \/ /\ installing' = FALSE
        /\ Clear(Worker, "catch") /\ file' = NoStage /\ expected' = 0
        /\ UNCHANGED <<engineVars, other, armed>>
  /\ UNCHANGED <<prefs, files, candidate, stageFile, bound, inbox, running, trial,
                 bootVerified, failed, bootBroadcast, rebootRequested>>

(* reboot(): the host is asked to shut down and switch slots. *)
RequestReboot ==
  /\ pc[Worker] = "reboot"
  /\ \/ rebootReady /\ rebootRequested' = TRUE /\ Goto(Worker, "idle")
     \/ ~rebootReady /\ Goto(Worker, "catch") /\ UNCHANGED rebootRequested
  /\ UNCHANGED <<prefs, files, fields, then, file, expected, bound, inbox,
                 engineVars, running, other, armed, trial, bootVerified, failed,
                 bootBroadcast>>

(* A slip: the catch block only reports the failure. *)
CatchKeepsTransaction ==
  /\ pc[Worker] = "catch"
  /\ Goto(Worker, "idle")
  /\ UNCHANGED <<prefs, files, fields, then, file, expected, bound, inbox,
                 engineVars, bootVars>>

(* The catch block: a failed command abandons a transaction nobody runs. *)
CatchFailure ==
  /\ pc[Worker] = "catch"
  /\ Goto(Worker, IF Busy THEN "idle" ELSE "cleanup")
  /\ UNCHANGED <<prefs, files, fields, then, file, expected, bound, inbox,
                 engineVars, bootVars>>

CleanupStageFile ==
  /\ pc[Worker] = "cleanup"
  /\ Discard(stageFile)
  /\ Clear(Worker, "idle")
  /\ UNCHANGED <<prefs, fields, file, expected, bound, inbox, engineVars, bootVars>>

----------------------------------------------------------------------------
(* update_engine (external)                                                *)

Post(messages) == inbox' = IF bound THEN inbox \o messages ELSE inbox

EngineProgress ==
  /\ engine = "RUNNING" /\ bound /\ Len(inbox) < MaxInbox
  /\ Post(<<"RUNNING">>)
  /\ UNCHANGED <<prefs, files, fields, pc, then, file, expected, bound, engineVars,
                 bootVars>>

(* The status change and the completion are two callbacks, in either order. *)
EngineSucceed ==
  /\ engine = "RUNNING"
  /\ engine' = "NEED_REBOOT" /\ UNCHANGED payload
  /\ other' = payload /\ armed' = TRUE
  /\ Post(<<"NEED_REBOOT", "OK">>) \/ Post(<<"OK", "NEED_REBOOT">>)
  /\ UNCHANGED <<prefs, files, fields, pc, then, file, expected, bound, running,
                 trial, bootVerified, failed, bootBroadcast, rebootRequested>>

EngineFail ==
  /\ engine = "RUNNING"
  /\ engine' = "IDLE" /\ payload' = 0
  /\ Post(<<"ERROR">>)
  /\ UNCHANGED <<prefs, files, fields, pc, then, file, expected, bound, bootVars>>

----------------------------------------------------------------------------
(* Process death, power and the virtual bootloader (external)              *)

ProcessDies ==
  /\ "process" \in Crashes /\ pc[Main] # "down"
  /\ ProcessGone
  /\ UNCHANGED <<prefs, files, engineVars, bootVars>>

(* The startup checks of the running slot have passed. *)
VerifyBoot ==
  /\ ~bootVerified
  /\ bootVerified' = TRUE /\ trial' = FALSE
  /\ UNCHANGED <<prefs, files, fields, control, engineVars, running, other, armed,
                 failed, bootBroadcast, rebootRequested>>

(* The slot a restart boots: an armed new slot for a trial, which may be     *)
(* refused; the previous slot, if it is still there, when a trial did not    *)
(* verify; else the same.  A slot that failed is no longer bootable.         *)
ChooseSlot ==
  \/ /\ armed
     /\ running' = other /\ other' = running /\ trial' = TRUE /\ failed' = 0
  \/ /\ armed
     /\ failed' = other /\ other' = 0 /\ UNCHANGED <<running, trial>>
  \/ /\ ~armed /\ trial /\ other \in 1..(running - 1)
     /\ running' = other /\ other' = 0 /\ trial' = FALSE /\ failed' = running
  \/ /\ ~armed
     /\ failed' = 0 /\ UNCHANGED <<running, other, trial>>

Restart ==
  /\ rebootRequested \/ "power" \in Crashes
  /\ ChooseSlot
  /\ ProcessGone
  /\ engine' = "IDLE" /\ payload' = 0
  /\ armed' = FALSE /\ bootVerified' = FALSE /\ bootBroadcast' = TRUE
  /\ rebootRequested' = FALSE
  /\ UNCHANGED <<prefs, files>>

----------------------------------------------------------------------------
MainStep == CreateService \/ CompleteInstalled(Main) \/ ResetAfterRollback
            \/ BindEngine \/ OnRunning \/ OnNeedReboot \/ CommitRebootReady
            \/ OnComplete \/ DiscardPending(Main) \/ ForgetPending(Main)

WorkerStep == AwaitVerification \/ CompleteInstalled(Worker) \/ ResumePending
              \/ Check \/ NewStage \/ CopyPackage \/ VerifyPackage \/ CommitPending
              \/ MarkInstalling \/ SubmitPayload \/ RequestReboot \/ CatchFailure
              \/ CleanupStageFile \/ DiscardPending(Worker) \/ ForgetPending(Worker)

Environment == EngineProgress \/ EngineSucceed \/ EngineFail \/ ProcessDies
               \/ VerifyBoot \/ Restart

Next == \/ MainStep
        \/ WorkerStep
        \/ \E c \in Command : TakeCommand(c)
        \/ Environment

Spec == Init /\ [][Next]_vars

(* Fairness: the main looper and the executor's thread run while the process *)
(* lives, and update_engine finishes or gives up a payload.  Nothing is      *)
(* assumed of the user, of crashes or of the startup checks.                 *)
FairSpec == /\ Spec
            /\ WF_vars(MainStep)
            /\ WF_vars(WorkerStep)
            /\ WF_vars(EngineSucceed \/ EngineFail)

----------------------------------------------------------------------------
(* Safety                                                                  *)

(* "Duplicate updates and downgrades are not allowed": whatever crashes or  *)
(* resumes came between the check and the submission, the engine only ever  *)
(* writes, or waits to boot, a payload newer than the running system and    *)
(* than every update recorded as installed.                                 *)
NoDowngrade == engine # "IDLE" => payload > Current

(* completeInstalled records an update only once it runs for good: the       *)
(* recorded sequence is never above the running one, even after a fallback.  *)
AcceptedRuns == acceptedSequence <= running

(* After a fallback the update that failed is still newer than current(), so *)
(* the same OTA can be installed again to repair the failed slot.            *)
FailedUpdateRetryable == Rollback => failed > Current

(* No boot loop: while the device runs after a fallback, the resume command  *)
(* never resubmits an update recorded before it (the callback that clears a  *)
(* failed one of this boot may still be under way).                          *)
NoResubmitAfterRollback ==
  Rollback /\ pc[Worker] = "resume" /\ pc[Main] = "loop" => ~Resumable

(* RELEASE_0_3_ALPHA.md:60, "active duplicate submission rejected": while    *)
(* update_engine writes a payload, no other one gets past the guards.        *)
Submitting == pc[Worker] \in {"copy", "verify", "commit", "mark", "submit"}
ActiveDuplicateRejected == ~(engine = "RUNNING" /\ Submitting)

(* The status text of line 41, "Restart to finish updating": an update that  *)
(* waits for the restart has the record by which line 34 finishes it.        *)
ReadyRecorded == rebootReady => pendingSequence > 0

(* The updater keeps the two-slot promise. *)
Slots == INSTANCE SlotUpdate WITH accepted <- acceptedSequence
KeepsSlotPromise == Slots!Spec

----------------------------------------------------------------------------
(* Liveness                                                                *)

(* An interrupted update is taken up or given up: once resume finds one, it  *)
(* is submitted again or forgotten, never left to fail on every boot.        *)
ResumeDecides ==
  (pc[Worker] = "resume" /\ Resumable)
    ~> (engine = "RUNNING" \/ pendingSequence = 0 \/ rebootReady \/ ~bound)

(* The in-memory `installing` flag is never stuck: a finished or failed      *)
(* payload always reaches the callback that clears it, so the service does   *)
(* not refuse every command until its process dies.                          *)
InstallingEnds == installing ~> (~installing \/ ~bound)

(* When the startup checks have passed before resume stops waiting, the new  *)
(* system is recorded as installed and the updater accepts commands again.   *)
VerifiedUpdateCompletes ==
  \A s \in Sequence :
    (/\ pc[Worker] = "await" /\ bootVerified
     /\ pendingSequence = s /\ s <= running)
       ~> (acceptedSequence >= s /\ ~rebootReady) \/ ~bound
=============================================================================

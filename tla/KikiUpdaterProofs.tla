--------------------------- MODULE KikiUpdaterProofs ---------------------------
(***************************************************************************)
(* What holds of the updater for every number of sequences, staging files  *)
(* and kind of crash: no downgrade, no update recorded that does not run   *)
(* for good, and the two-slot promise of SlotUpdate.                       *)
(***************************************************************************)
EXTENDS KikiUpdater, TLAPS

----------------------------------------------------------------------------
(* The inductive invariant, by parts                                       *)

(* From the sequence check to the submission, current() does not overtake it. *)
CheckedStaysNewer ==
  pc[Worker] \in {"commit", "mark", "submit"} => expected > Current

(* The record is never older than what has been accepted. *)
RecordNotStale == pendingSequence > 0 => pendingSequence >= acceptedSequence

(* An idle engine holds no payload. *)
IdleEmpty == engine = "IDLE" => payload = 0

(* The slots: an armed slot is newer; the slot a trial falls back to is not  *)
(* older than what has been accepted; nothing is accepted during a trial.    *)
SlotsOrdered ==
  /\ armed => other > running
  /\ trial /\ other # 0 => other >= acceptedSequence
  /\ trial => ~bootVerified

Ordered == /\ CheckedStaysNewer /\ RecordNotStale
           /\ IdleEmpty /\ SlotsOrdered
           /\ NoDowngrade /\ AcceptedRuns /\ FailedUpdateRetryable

Inv == TypeOK /\ Ordered

----------------------------------------------------------------------------
(* What the engine posts, and what the looper leaves, is a queue of messages. *)
LEMMA Queues ==
  /\ <<>> \in Seq(Message)
  /\ <<"RUNNING">> \in Seq(Message) /\ <<"NEED_REBOOT">> \in Seq(Message)
  /\ <<"ERROR">> \in Seq(Message)
  /\ <<"NEED_REBOOT", "OK">> \in Seq(Message)
  /\ <<"OK", "NEED_REBOOT">> \in Seq(Message)
  /\ \A s \in Seq(Message) : s # <<>> => Tail(s) \in Seq(Message)
  /\ \A s, u \in Seq(Message) : s \o u \in Seq(Message)
BY DEF Message

(* The main thread and the worker are different threads. *)
LEMMA Threads == Main # Worker
BY SMT DEF Main, Worker

(* Zero, and every sequence, is a value of the sequence variables. *)
LEMMA Bounds == 0 \in 0..MaxSequence /\ \A s \in Sequence : s \in 0..MaxSequence
<1>1. MaxSequence \in Nat
  BY MaxSequenceAssumption
<1>2. QED
  BY <1>1 DEF Sequence

(* A thread that moves to one of its own labels leaves the labelling well     *)
(* formed, and so do a stutter and the death of the process.                 *)
LEMMA Labels ==
  ASSUME Labelled(pc), Returns(then)
  PROVE  /\ \A label \in MainLabel : Goto(Main, label) => Labelled(pc)'
         /\ \A label \in WorkerLabel : Goto(Worker, label) => Labelled(pc)'
         /\ \A label \in MainReturn :
              then' = [then EXCEPT ![Main] = label] => Returns(then)'
         /\ \A label \in WorkerReturn :
              then' = [then EXCEPT ![Worker] = label] => Returns(then)'
         /\ UNCHANGED pc => Labelled(pc)'
         /\ UNCHANGED then => Returns(then)'
         /\ ProcessGone => Labelled(pc)' /\ Returns(then)'
         /\ then[Main] \in MainReturn /\ then[Worker] \in WorkerReturn
<1>1. \A label \in MainLabel : Goto(Main, label) => Labelled(pc)'
  BY DEF Labelled, Goto, Main, Worker, Thread
<1>2. \A label \in WorkerLabel : Goto(Worker, label) => Labelled(pc)'
  BY DEF Labelled, Goto, Main, Worker, Thread
<1>3. \A label \in MainReturn :
        then' = [then EXCEPT ![Main] = label] => Returns(then)'
  BY DEF Returns, Main, Worker, Thread
<1>4. \A label \in WorkerReturn :
        then' = [then EXCEPT ![Worker] = label] => Returns(then)'
  BY DEF Returns, Main, Worker, Thread
<1>5. ProcessGone => Labelled(pc)' /\ Returns(then)'
  <2>1. /\ "down" \in MainLabel /\ "idle" \in WorkerLabel
       /\ "down" \in MainReturn /\ "idle" \in WorkerReturn
    BY DEF MainLabel, WorkerLabel, MainReturn, WorkerReturn
  <2>2. QED
    BY <2>1 DEF ProcessGone, Labelled, Returns, Main, Worker, Thread
<1>6. QED
  BY <1>1, <1>2, <1>3, <1>4, <1>5 DEF Labelled, Returns

(* What a step leaves alone keeps its type. *)
LEMMA Kept ==
  ASSUME TypeOK
  PROVE  /\ UNCHANGED prefs => PrefsTyped'
         /\ UNCHANGED fields => FieldsTyped'
         /\ UNCHANGED control => ControlTyped'
         /\ UNCHANGED engineVars => EngineTyped'
         /\ UNCHANGED bootVars => BootTyped'
         /\ UNCHANGED files => (files \in [Stage -> Package])'
  BY DEF TypeOK, prefs, fields, control, engineVars, bootVars, PrefsTyped,
         FieldsTyped, ControlTyped, EngineTyped, BootTyped, Labelled, Returns

(* The variables keep their types; the slots' order is needed for a restart, *)
(* which runs what was in the other slot.                                    *)
LEMMA TypeStep == TypeOK /\ SlotsOrdered /\ [Next]_vars => TypeOK'
<1> SUFFICES ASSUME TypeOK, SlotsOrdered, [Next]_vars PROVE TypeOK'
  OBVIOUS
<1> USE DEF TypeOK
<1>1. CASE CreateService
  <2>1. Labelled(pc)' /\ Returns(then)'
    BY <1>1, Labels DEF ControlTyped, CreateService, MainLabel
  <2>2. ControlTyped'
    BY <1>1, <2>1, Queues, Bounds DEF CreateService, ControlTyped
  <2>3. QED
    BY <1>1, <2>1, <2>2, Kept DEF CreateService
<1>2. CASE CompleteInstalled(Main)
  <2>1. Labelled(pc)' /\ Returns(then)'
    BY <1>2, Labels
    DEF ControlTyped, CompleteInstalled, Clear, MainLabel, MainReturn
  <2>2. PrefsTyped'
    BY <1>2, Bounds DEF CompleteInstalled, Installed, Clear, PrefsTyped, prefs
  <2>3. ControlTyped'
    BY <1>2, <2>1, Queues, Bounds
    DEF CompleteInstalled, Installed, Clear, ControlTyped
  <2>4. QED
    BY <1>2, <2>1, <2>2, <2>3, Kept DEF CompleteInstalled
<1>3. CASE ResetAfterRollback
  <2>1. Labelled(pc)' /\ Returns(then)'
    BY <1>3, Labels
    DEF ControlTyped, ResetAfterRollback, ForgetFailedUpdate, Clear, MainLabel,
        MainReturn
  <2>2. FieldsTyped'
    BY <1>3, Bounds
    DEF ResetAfterRollback, ForgetFailedUpdate, Clear, ProcessGone, FieldsTyped,
        fields
  <2>3. ControlTyped'
    BY <1>3, <2>1, Queues, Bounds
    DEF ResetAfterRollback, ForgetFailedUpdate, Clear, ProcessGone, ControlTyped
  <2>4. EngineTyped'
    BY <1>3, Bounds
    DEF ResetAfterRollback, ForgetFailedUpdate, Clear, ProcessGone, EngineTyped,
        engineVars
  <2>5. BootTyped'
    BY <1>3, Bounds
    DEF ResetAfterRollback, ForgetFailedUpdate, Clear, ProcessGone, BootTyped,
        bootVars
  <2>6. QED
    BY <1>3, <2>1, <2>2, <2>3, <2>4, <2>5, Kept DEF ResetAfterRollback
<1>4. CASE BindEngine
  <2>1. Labelled(pc)' /\ Returns(then)'
    BY <1>4, Labels DEF ControlTyped, BindEngine, MainLabel
  <2>2. ControlTyped'
    BY <1>4, <2>1, Queues, Bounds
    DEF BindEngine, StatusOnBind, EngineTyped, ControlTyped
  <2>3. QED
    BY <1>4, <2>1, <2>2, Kept DEF BindEngine
<1>5. CASE OnRunning
  <2>1. Labelled(pc)' /\ Returns(then)'
    BY <1>5, Labels DEF ControlTyped, OnRunning, MainLabel
  <2>2. FieldsTyped'
    BY <1>5, Bounds DEF OnRunning, Receive, FieldsTyped, fields
  <2>3. ControlTyped'
    BY <1>5, <2>1, Queues, Bounds DEF OnRunning, Receive, ControlTyped
  <2>4. QED
    BY <1>5, <2>1, <2>2, <2>3, Kept DEF OnRunning
<1>6. CASE OnNeedReboot
  <2>1. Labelled(pc)' /\ Returns(then)'
    BY <1>6, Labels DEF ControlTyped, OnNeedReboot, MainLabel
  <2>2. FieldsTyped'
    BY <1>6, Bounds DEF OnNeedReboot, Receive, FieldsTyped, fields
  <2>3. ControlTyped'
    BY <1>6, <2>1, Queues, Bounds DEF OnNeedReboot, Receive, ControlTyped
  <2>4. QED
    BY <1>6, <2>1, <2>2, <2>3, Kept DEF OnNeedReboot
<1>7. CASE CommitRebootReady
  <2>1. Labelled(pc)' /\ Returns(then)'
    BY <1>7, Labels DEF ControlTyped, CommitRebootReady, MainLabel
  <2>2. PrefsTyped'
    BY <1>7, Bounds DEF CommitRebootReady, PrefsTyped, prefs
  <2>3. ControlTyped'
    BY <1>7, <2>1, Queues, Bounds DEF CommitRebootReady, ControlTyped
  <2>4. QED
    BY <1>7, <2>1, <2>2, <2>3, Kept DEF CommitRebootReady
<1>8. CASE OnComplete
  <2>1. Labelled(pc)' /\ Returns(then)'
    BY <1>8, Labels DEF ControlTyped, OnComplete, Clear, MainLabel, MainReturn
  <2>2. FieldsTyped'
    BY <1>8, Bounds DEF OnComplete, Receive, Clear, FieldsTyped, fields
  <2>3. ControlTyped'
    BY <1>8, <2>1, Queues, Bounds DEF OnComplete, Receive, Clear, ControlTyped
  <2>4. QED
    BY <1>8, <2>1, <2>2, <2>3, Kept DEF OnComplete
<1>9. CASE DiscardPending(Main)
  <2>1. Labelled(pc)' /\ Returns(then)'
    BY <1>9, Labels DEF ControlTyped, DiscardPending, MainLabel
  <2>2. (files \in [Stage -> Package])'
    BY <1>9, MaxSequenceAssumption
    DEF DiscardPending, Discard, Package, Absent, Unverifiable
  <2>3. ControlTyped'
    BY <1>9, <2>1, Queues, Bounds DEF DiscardPending, Discard, ControlTyped
  <2>4. QED
    BY <1>9, <2>1, <2>2, <2>3, Kept DEF DiscardPending
<1>10. CASE ForgetPending(Main)
  <2>1. Labelled(pc)' /\ Returns(then)'
    BY <1>10, Labels DEF ControlTyped, ForgetPending, MainLabel, MainReturn
  <2>2. PrefsTyped'
    BY <1>10, Bounds DEF ForgetPending, PrefsTyped, prefs
  <2>3. ControlTyped'
    BY <1>10, <2>1, Queues, Bounds DEF ForgetPending, ControlTyped
  <2>4. QED
    BY <1>10, <2>1, <2>2, <2>3, Kept DEF ForgetPending
<1>11. CASE AwaitVerification
  <2>1. Labelled(pc)' /\ Returns(then)'
    BY <1>11, Labels DEF ControlTyped, AwaitVerification, WorkerLabel
  <2>2. ControlTyped'
    BY <1>11, <2>1, Queues, Bounds DEF AwaitVerification, ControlTyped
  <2>3. QED
    BY <1>11, <2>1, <2>2, Kept DEF AwaitVerification
<1>12. CASE CompleteInstalled(Worker)
  <2>1. Labelled(pc)' /\ Returns(then)'
    BY <1>12, Labels, Threads
    DEF ControlTyped, CompleteInstalled, Clear, WorkerLabel, WorkerReturn
  <2>2. PrefsTyped'
    BY <1>12, Bounds DEF CompleteInstalled, Installed, Clear, PrefsTyped, prefs
  <2>3. ControlTyped'
    BY <1>12, <2>1, Queues, Bounds
    DEF CompleteInstalled, Installed, Clear, ControlTyped
  <2>4. QED
    BY <1>12, <2>1, <2>2, <2>3, Kept DEF CompleteInstalled
<1>13. CASE ResumePending
  <2>1. Labelled(pc)' /\ Returns(then)'
    BY <1>13, Labels DEF ControlTyped, ResumePending, WorkerLabel
  <2>2. ControlTyped'
    BY <1>13, <2>1, Queues, Bounds DEF ResumePending, PrefsTyped, ControlTyped
  <2>3. QED
    BY <1>13, <2>1, <2>2, Kept DEF ResumePending
<1>14. CASE Check
  <2>1. Labelled(pc)' /\ Returns(then)'
    BY <1>14, Labels DEF ControlTyped, Check, WorkerLabel
  <2>2. FieldsTyped'
    BY <1>14, Bounds DEF Check, Sequence, FieldsTyped, fields
  <2>3. ControlTyped'
    BY <1>14, <2>1, Queues, Bounds DEF Check, Sequence, ControlTyped
  <2>4. QED
    BY <1>14, <2>1, <2>2, <2>3, Kept DEF Check
<1>15. CASE NewStage
  <2>1. Labelled(pc)' /\ Returns(then)'
    BY <1>15, Labels DEF ControlTyped, NewStage, Finish, WorkerLabel
  <2>2. (files \in [Stage -> Package])'
    BY <1>15, MaxSequenceAssumption
    DEF NewStage, Finish, Package, Absent, Unverifiable
  <2>3. FieldsTyped'
    BY <1>15, Bounds DEF NewStage, Finish, FieldsTyped, fields
  <2>4. ControlTyped'
    BY <1>15, <2>1, Queues, Bounds DEF NewStage, Finish, ControlTyped
  <2>5. QED
    BY <1>15, <2>1, <2>2, <2>3, <2>4, Kept DEF NewStage
<1>16. CASE CopyPackage
  <2>1. Labelled(pc)' /\ Returns(then)'
    BY <1>16, Labels DEF ControlTyped, CopyPackage, Finish, WorkerLabel
  <2>2. (files \in [Stage -> Package])'
    BY <1>16, MaxSequenceAssumption
    DEF CopyPackage, Finish, Package, Absent, Unverifiable
  <2>3. ControlTyped'
    BY <1>16, <2>1, Queues, Bounds DEF CopyPackage, Finish, ControlTyped
  <2>4. QED
    BY <1>16, <2>1, <2>2, <2>3, Kept DEF CopyPackage
<1>17. CASE VerifyPackage
  <2>1. Labelled(pc)' /\ Returns(then)'
    BY <1>17, Labels DEF ControlTyped, VerifyPackage, Finish, WorkerLabel
  <2>2. ControlTyped'
    BY <1>17, <2>1, Queues, Bounds
    DEF VerifyPackage, Acceptable, Finish, Sequence, ControlTyped
  <2>3. QED
    BY <1>17, <2>1, <2>2, Kept DEF VerifyPackage
<1>18. CASE CommitPending
  <2>1. Labelled(pc)' /\ Returns(then)'
    BY <1>18, Labels DEF ControlTyped, CommitPending, WorkerLabel
  <2>2. PrefsTyped'
    BY <1>18, Bounds DEF CommitPending, PrefsTyped, prefs, ControlTyped
  <2>3. ControlTyped'
    BY <1>18, <2>1, Queues, Bounds DEF CommitPending, ControlTyped
  <2>4. QED
    BY <1>18, <2>1, <2>2, <2>3, Kept DEF CommitPending
<1>19. CASE MarkInstalling
  <2>1. Labelled(pc)' /\ Returns(then)'
    BY <1>19, Labels DEF ControlTyped, MarkInstalling, WorkerLabel
  <2>2. FieldsTyped'
    BY <1>19, Bounds DEF MarkInstalling, FieldsTyped, fields
  <2>3. ControlTyped'
    BY <1>19, <2>1, Queues, Bounds DEF MarkInstalling, ControlTyped
  <2>4. QED
    BY <1>19, <2>1, <2>2, <2>3, Kept DEF MarkInstalling
<1>20. CASE SubmitPayload
  <2>1. Labelled(pc)' /\ Returns(then)'
    BY <1>20, Labels
    DEF ControlTyped, SubmitPayload, Finish, Clear, WorkerLabel, WorkerReturn
  <2>2. FieldsTyped'
    BY <1>20, Bounds DEF SubmitPayload, Finish, Clear, FieldsTyped, fields
  <2>3. ControlTyped'
    BY <1>20, <2>1, Queues, Bounds
    DEF SubmitPayload, Finish, Clear, ControlTyped
  <2>4. EngineTyped'
    BY <1>20, Bounds
    DEF SubmitPayload, Finish, Clear, EngineTyped, engineVars, ControlTyped
  <2>5. BootTyped'
    BY <1>20, Bounds DEF SubmitPayload, Finish, Clear, BootTyped, bootVars
  <2>6. QED
    BY <1>20, <2>1, <2>2, <2>3, <2>4, <2>5, Kept DEF SubmitPayload
<1>21. CASE RequestReboot
  <2>1. Labelled(pc)' /\ Returns(then)'
    BY <1>21, Labels DEF ControlTyped, RequestReboot, WorkerLabel
  <2>2. ControlTyped'
    BY <1>21, <2>1, Queues, Bounds DEF RequestReboot, ControlTyped
  <2>3. BootTyped'
    BY <1>21, Bounds DEF RequestReboot, BootTyped, bootVars
  <2>4. QED
    BY <1>21, <2>1, <2>2, <2>3, Kept DEF RequestReboot
<1>22. CASE CatchFailure
  <2>1. Labelled(pc)' /\ Returns(then)'
    BY <1>22, Labels DEF ControlTyped, CatchFailure, WorkerLabel
  <2>2. ControlTyped'
    BY <1>22, <2>1, Queues, Bounds DEF CatchFailure, ControlTyped
  <2>3. QED
    BY <1>22, <2>1, <2>2, Kept DEF CatchFailure
<1>23. CASE CleanupStageFile
  <2>1. Labelled(pc)' /\ Returns(then)'
    BY <1>23, Labels
    DEF ControlTyped, CleanupStageFile, Clear, WorkerLabel, WorkerReturn
  <2>2. (files \in [Stage -> Package])'
    BY <1>23, MaxSequenceAssumption
    DEF CleanupStageFile, Discard, Package, Absent, Unverifiable
  <2>3. ControlTyped'
    BY <1>23, <2>1, Queues, Bounds
    DEF CleanupStageFile, Discard, Clear, ControlTyped
  <2>4. QED
    BY <1>23, <2>1, <2>2, <2>3, Kept DEF CleanupStageFile
<1>24. CASE DiscardPending(Worker)
  <2>1. Labelled(pc)' /\ Returns(then)'
    BY <1>24, Labels, Threads DEF ControlTyped, DiscardPending, WorkerLabel
  <2>2. (files \in [Stage -> Package])'
    BY <1>24, MaxSequenceAssumption
    DEF DiscardPending, Discard, Package, Absent, Unverifiable
  <2>3. ControlTyped'
    BY <1>24, <2>1, Queues, Bounds DEF DiscardPending, Discard, ControlTyped
  <2>4. QED
    BY <1>24, <2>1, <2>2, <2>3, Kept DEF DiscardPending
<1>25. CASE ForgetPending(Worker)
  <2>1. Labelled(pc)' /\ Returns(then)'
    BY <1>25, Labels, Threads
    DEF ControlTyped, ForgetPending, WorkerLabel, WorkerReturn
  <2>2. PrefsTyped'
    BY <1>25, Bounds DEF ForgetPending, PrefsTyped, prefs
  <2>3. ControlTyped'
    BY <1>25, <2>1, Queues, Bounds DEF ForgetPending, ControlTyped
  <2>4. QED
    BY <1>25, <2>1, <2>2, <2>3, Kept DEF ForgetPending
<1>26. CASE EngineProgress
  <2>1. Labelled(pc)' /\ Returns(then)'
    BY <1>26, Labels DEF ControlTyped, EngineProgress, Post, WorkerLabel
  <2>2. ControlTyped'
    BY <1>26, <2>1, Queues, Bounds DEF EngineProgress, Post, ControlTyped
  <2>3. QED
    BY <1>26, <2>1, <2>2, Kept DEF EngineProgress
<1>27. CASE EngineSucceed
  <2>1. Labelled(pc)' /\ Returns(then)'
    BY <1>27, Labels DEF ControlTyped, EngineSucceed, Post, WorkerLabel
  <2>2. ControlTyped'
    BY <1>27, <2>1, Queues, Bounds DEF EngineSucceed, Post, ControlTyped
  <2>3. EngineTyped'
    BY <1>27, Bounds DEF EngineSucceed, Post, EngineTyped, engineVars
  <2>4. BootTyped'
    BY <1>27, Bounds DEF EngineSucceed, Post, BootTyped, bootVars, EngineTyped
  <2>5. QED
    BY <1>27, <2>1, <2>2, <2>3, <2>4, Kept DEF EngineSucceed
<1>28. CASE EngineFail
  <2>1. Labelled(pc)' /\ Returns(then)'
    BY <1>28, Labels DEF ControlTyped, EngineFail, Post, WorkerLabel
  <2>2. ControlTyped'
    BY <1>28, <2>1, Queues, Bounds DEF EngineFail, Post, ControlTyped
  <2>3. EngineTyped'
    BY <1>28, Bounds DEF EngineFail, Post, EngineTyped, engineVars
  <2>4. QED
    BY <1>28, <2>1, <2>2, <2>3, Kept DEF EngineFail
<1>29. CASE ProcessDies
  <2>1. Labelled(pc)' /\ Returns(then)'
    BY <1>29, Labels DEF ControlTyped, ProcessDies, WorkerLabel
  <2>2. FieldsTyped'
    BY <1>29, Bounds DEF ProcessDies, ProcessGone, FieldsTyped, fields
  <2>3. ControlTyped'
    BY <1>29, <2>1, Queues, Bounds DEF ProcessDies, ProcessGone, ControlTyped
  <2>4. QED
    BY <1>29, <2>1, <2>2, <2>3, Kept DEF ProcessDies
<1>30. CASE VerifyBoot
  <2>1. BootTyped'
    BY <1>30, Bounds DEF VerifyBoot, BootTyped, bootVars
  <2>2. QED
    BY <1>30, <2>1, Kept DEF VerifyBoot, control
<1>31. CASE Restart
  <2>1. Labelled(pc)' /\ Returns(then)'
    BY <1>31, Labels DEF ControlTyped, Restart, WorkerLabel
  <2>2. FieldsTyped'
    BY <1>31, Bounds DEF Restart, ProcessGone, ChooseSlot, FieldsTyped, fields
  <2>3. ControlTyped'
    BY <1>31, <2>1, Queues, Bounds
    DEF Restart, ProcessGone, ChooseSlot, ControlTyped
  <2>4. EngineTyped'
    BY <1>31, Bounds
    DEF Restart, ProcessGone, ChooseSlot, EngineTyped, engineVars
  <2>5. BootTyped'
    <3>1. ChooseSlot => (running \in Sequence /\ other \in 0..MaxSequence)'
      BY MaxSequenceAssumption, Bounds
      DEF BootTyped, ChooseSlot, SlotsOrdered, Sequence
    <3>2. ChooseSlot => (failed \in 0..MaxSequence /\ trial \in BOOLEAN)'
      BY MaxSequenceAssumption, Bounds DEF BootTyped, ChooseSlot
    <3>3. QED
      BY <1>31, <3>1, <3>2 DEF BootTyped, Restart
  <2>6. QED
    BY <1>31, <2>1, <2>2, <2>3, <2>4, <2>5, Kept DEF Restart
<1>32. ASSUME NEW c \in Command, TakeCommand(c) PROVE TypeOK'
  <2>1. Labelled(pc)' /\ Returns(then)'
    BY <1>32, Labels DEF ControlTyped, TakeCommand, Entry, Command, WorkerLabel
  <2>2. ControlTyped'
    BY <1>32, <2>1, Bounds DEF ControlTyped, FieldsTyped, TakeCommand
  <2>3. BootTyped'
    BY <1>32 DEF BootTyped, TakeCommand
  <2>4. QED
    BY <1>32, <2>2, <2>3, Kept DEF TakeCommand
<1>33. CASE UNCHANGED vars
  BY <1>33, Kept DEF vars
<1>34. QED
  BY <1>1, <1>2, <1>3, <1>4, <1>5, <1>6, <1>7, <1>8, <1>9, <1>10, <1>11,
     <1>12, <1>13, <1>14, <1>15, <1>16, <1>17, <1>18, <1>19, <1>20, <1>21,
     <1>22, <1>23, <1>24, <1>25, <1>26, <1>27, <1>28, <1>29, <1>30, <1>31,
     <1>32, <1>33
  DEF Next, MainStep, WorkerStep, Environment
----------------------------------------------------------------------------
(* The order of the sequences                                              *)

LEMMA Ints ==
  TypeOK => /\ pendingSequence \in Int /\ acceptedSequence \in Int
            /\ expected \in Int /\ payload \in Int
            /\ running \in Int /\ other \in Int /\ failed \in Int
            /\ running >= 1 /\ expected <= MaxSequence
BY MaxSequenceAssumption
   DEF TypeOK, PrefsTyped, ControlTyped, EngineTyped, BootTyped, Sequence

(* Where a step leaves the worker. *)
LEMMA WorkerMoves ==
  ASSUME TypeOK
  PROVE  /\ \A label : Goto(Main, label) => pc'[Worker] = pc[Worker]
         /\ \A label : Goto(Worker, label) => pc'[Worker] = label
         /\ ProcessGone => pc'[Worker] = "idle"
  BY DEF TypeOK, ControlTyped, Labelled, Goto, ProcessGone, Main, Worker, Thread

Compared == <<pendingSequence, acceptedSequence, engine, payload, running, other,
              armed, trial, bootVerified, failed>>

(* A step that changes no sequence keeps their order, unless it takes the    *)
(* worker past the sequence check.                                           *)
LEMMA Quiet ==
  ASSUME Ordered, UNCHANGED Compared,
         \/ pc'[Worker] \notin {"commit", "mark", "submit"}
         \/ /\ pc'[Worker] = pc[Worker] \/ pc[Worker] \in {"commit", "mark"}
            /\ UNCHANGED expected
  PROVE  Ordered'
  BY DEF Ordered, Compared, CheckedStaysNewer, RecordNotStale, IdleEmpty,
         SlotsOrdered,
         NoDowngrade, AcceptedRuns, FailedUpdateRetryable, Rollback, Current

(* completeInstalled, on either thread, records what runs and is verified. *)
LEMMA CompleteOrdered ==
  ASSUME Inv, NEW t \in {Main, Worker}, CompleteInstalled(t)
  PROVE  Ordered'
<1>1. CASE UNCHANGED acceptedSequence
  <2>1. pc'[Worker] \in {pc[Worker], "discard", "resume"} /\ UNCHANGED expected
    BY WorkerMoves, Threads DEF Inv, CompleteInstalled, Clear
  <2>2. UNCHANGED Compared
    BY <1>1 DEF CompleteInstalled, Compared, engineVars, bootVars
  <2>3. QED
    BY <2>1, <2>2, Quiet DEF Inv
<1>2. CASE Installed /\ acceptedSequence' = pendingSequence
  <2>1. pc'[Worker] \in {pc[Worker], "discard", "resume"} /\ UNCHANGED expected
    BY WorkerMoves, Threads DEF Inv, CompleteInstalled, Clear
  <2>2. UNCHANGED <<pendingSequence, engine, payload, running, other, armed, trial,
                    bootVerified, failed>>
    BY DEF CompleteInstalled, engineVars, bootVars
  <2>3. CheckedStaysNewer'
    BY <1>2, <2>1, <2>2, Ints
    DEF Inv, Ordered, CheckedStaysNewer, AcceptedRuns, Installed, Current
  <2>4. NoDowngrade' /\ FailedUpdateRetryable' /\ AcceptedRuns'
        /\ RecordNotStale' /\ IdleEmpty'
    BY <1>2, <2>2, Ints
    DEF Inv, Ordered, NoDowngrade, FailedUpdateRetryable, Rollback, RecordNotStale,
        IdleEmpty,         AcceptedRuns, Installed, Current
  <2>5. SlotsOrdered'
    BY <1>2, <2>2 DEF Inv, Ordered, SlotsOrdered, Installed
  <2>6. QED
    BY <2>3, <2>4, <2>5 DEF Ordered
<1>3. QED
  BY <1>1, <1>2 DEF CompleteInstalled

(* Every step keeps the order. *)
LEMMA OrderStep == Inv /\ [Next]_vars => Ordered'
<1> SUFFICES ASSUME Inv, [Next]_vars PROVE Ordered'
  OBVIOUS
<1> USE DEF Inv
<1>1. CASE CreateService
  BY <1>1, Quiet, WorkerMoves
  DEF CreateService, Compared, prefs, engineVars, bootVars
<1>2. CASE CompleteInstalled(Main)
  BY <1>2, CompleteOrdered
<1>3. CASE ResetAfterRollback
  <2>1. pc'[Worker] \in {pc[Worker], "idle"} /\ (pc'[Worker] # "idle" => UNCHANGED expected)
    BY <1>3, WorkerMoves DEF ResetAfterRollback, ForgetFailedUpdate, Clear
  <2>2. /\ UNCHANGED <<pendingSequence, acceptedSequence, running, other, trial,
                       bootVerified, failed>>
        /\ armed' = armed \/ armed' = FALSE
        /\ (engine' = "IDLE" /\ payload' = 0) \/ UNCHANGED engineVars
    BY <1>3 DEF ResetAfterRollback, prefs
  <2>3. QED
    BY <2>1, <2>2
    DEF Ordered, CheckedStaysNewer, RecordNotStale, IdleEmpty, SlotsOrdered,
       NoDowngrade, AcceptedRuns, FailedUpdateRetryable, Rollback, Current, engineVars
<1>4. CASE BindEngine
  BY <1>4, Quiet, WorkerMoves
  DEF BindEngine, Compared, prefs, engineVars, bootVars
<1>5. CASE OnRunning
  BY <1>5, Quiet DEF OnRunning, Compared, prefs, engineVars, bootVars
<1>6. CASE OnNeedReboot
  BY <1>6, Quiet, WorkerMoves
  DEF OnNeedReboot, Receive, Compared, prefs, engineVars, bootVars
<1>7. CASE CommitRebootReady
  BY <1>7, Quiet, WorkerMoves
  DEF CommitRebootReady, Compared, prefs, engineVars, bootVars
<1>8. CASE OnComplete
  BY <1>8, Quiet, WorkerMoves
  DEF OnComplete, Receive, Clear, Compared, prefs, engineVars, bootVars
<1>9. CASE DiscardPending(Main)
  BY <1>9, Quiet, WorkerMoves
  DEF DiscardPending, Compared, prefs, engineVars, bootVars
<1>10. CASE ForgetPending(Main)
  <2>1. pc'[Worker] \in {pc[Worker]} \cup WorkerReturn /\ UNCHANGED expected
    BY <1>10, WorkerMoves DEF ForgetPending, TypeOK, ControlTyped, Returns
  <2>2. /\ pendingSequence' = 0
        /\ UNCHANGED <<acceptedSequence, engine, payload, running, other, armed,
                       trial, bootVerified, failed>>
    BY <1>10 DEF ForgetPending, engineVars, bootVars
  <2>3. QED
    BY <2>1, <2>2
    DEF Ordered, CheckedStaysNewer, RecordNotStale, IdleEmpty, SlotsOrdered,
       NoDowngrade, AcceptedRuns, FailedUpdateRetryable, Rollback, Current, WorkerReturn
<1>11. CASE AwaitVerification
  BY <1>11, Quiet, WorkerMoves
  DEF AwaitVerification, Compared, prefs, engineVars, bootVars
<1>12. CASE CompleteInstalled(Worker)
  BY <1>12, CompleteOrdered
<1>13. CASE ResumePending
  BY <1>13, Quiet, WorkerMoves
  DEF ResumePending, Compared, prefs, engineVars, bootVars
<1>14. CASE Check
  BY <1>14, Quiet, WorkerMoves DEF Check, Compared, prefs, engineVars, bootVars
<1>15. CASE NewStage
  BY <1>15, Quiet, WorkerMoves
  DEF NewStage, Finish, Compared, prefs, engineVars, bootVars
<1>16. CASE CopyPackage
  BY <1>16, Quiet, WorkerMoves
  DEF CopyPackage, Finish, Compared, prefs, engineVars, bootVars
<1>17. CASE VerifyPackage
  <2>1. \/ pc'[Worker] = "catch"
        \/ pc'[Worker] = "commit" /\ Acceptable(expected')
    BY <1>17, WorkerMoves DEF VerifyPackage, Finish, Acceptable, Current
  <2>2. UNCHANGED Compared
    BY <1>17 DEF VerifyPackage, Compared, prefs, engineVars, bootVars
  <2>3. QED
    BY <2>1, <2>2
    DEF Compared, Ordered, CheckedStaysNewer, RecordNotStale, IdleEmpty,
        SlotsOrdered,
       NoDowngrade, AcceptedRuns, FailedUpdateRetryable, Rollback, Current, Acceptable
<1>18. CASE CommitPending
  <2>1. pc[Worker] = "commit" /\ pc'[Worker] = "mark" /\ UNCHANGED expected
    BY <1>18, WorkerMoves DEF CommitPending
  <2>2. /\ pendingSequence' = expected
        /\ UNCHANGED <<acceptedSequence, engine, payload, running, other, armed,
                       trial, bootVerified, failed>>
    BY <1>18 DEF CommitPending, engineVars, bootVars
  <2>3. QED
    BY <2>1, <2>2, Ints
    DEF Ordered, CheckedStaysNewer, RecordNotStale, IdleEmpty, SlotsOrdered,
       NoDowngrade, AcceptedRuns, FailedUpdateRetryable, Rollback, Current
<1>19. CASE MarkInstalling
  BY <1>19, Quiet, WorkerMoves
  DEF MarkInstalling, Compared, prefs, engineVars, bootVars
<1>20. CASE SubmitPayload
  <2>1. CASE UNCHANGED engine
    <3>1. pc'[Worker] \in {"idle", "discard"} /\ UNCHANGED Compared
      BY <1>20, <2>1, WorkerMoves
      DEF SubmitPayload, Finish, Clear, Compared, prefs, engineVars
    <3>2. QED
      BY <3>1, Quiet
  <2>2. CASE engine' = "RUNNING" /\ engine = "IDLE"
    <3>1. pc[Worker] = "submit" /\ pc'[Worker] = "idle"
      BY <1>20, <2>2, WorkerMoves DEF SubmitPayload, Finish, engineVars
    <3>2. /\ payload' = expected /\ other' = 0 /\ ~armed'
          /\ UNCHANGED <<pendingSequence, acceptedSequence, running, trial,
                         bootVerified, failed>>
      BY <1>20, <2>2 DEF SubmitPayload, prefs, engineVars
    <3>3. QED
      BY <2>2, <3>1, <3>2, Ints
      DEF Ordered, CheckedStaysNewer, RecordNotStale, IdleEmpty, SlotsOrdered,
         NoDowngrade, AcceptedRuns, FailedUpdateRetryable, Rollback, Current
  <2>3. QED
    BY <1>20, <2>1, <2>2 DEF SubmitPayload, engineVars
<1>21. CASE RequestReboot
  BY <1>21, Quiet, WorkerMoves
  DEF RequestReboot, Compared, prefs, engineVars, bootVars
<1>22. CASE CatchFailure
  BY <1>22, Quiet, WorkerMoves
  DEF CatchFailure, Compared, prefs, engineVars, bootVars
<1>23. CASE CleanupStageFile
  BY <1>23, Quiet, WorkerMoves
  DEF CleanupStageFile, Clear, Compared, prefs, engineVars, bootVars
<1>24. CASE DiscardPending(Worker)
  BY <1>24, Quiet, WorkerMoves
  DEF DiscardPending, Compared, prefs, engineVars, bootVars
<1>25. CASE ForgetPending(Worker)
  <2>1. pc'[Worker] \in {pc[Worker]} \cup WorkerReturn /\ UNCHANGED expected
    BY <1>25, WorkerMoves DEF ForgetPending, TypeOK, ControlTyped, Returns
  <2>2. /\ pendingSequence' = 0
        /\ UNCHANGED <<acceptedSequence, engine, payload, running, other, armed,
                       trial, bootVerified, failed>>
    BY <1>25 DEF ForgetPending, engineVars, bootVars
  <2>3. QED
    BY <2>1, <2>2
    DEF Ordered, CheckedStaysNewer, RecordNotStale, IdleEmpty, SlotsOrdered,
       NoDowngrade, AcceptedRuns, FailedUpdateRetryable, Rollback, Current, WorkerReturn
<1>26. CASE EngineProgress
  BY <1>26, Quiet DEF EngineProgress, Compared, prefs, engineVars, bootVars
<1>27. CASE EngineSucceed
  <2>1. /\ engine = "RUNNING" /\ engine' = "NEED_REBOOT"
        /\ other' = payload /\ armed'
        /\ UNCHANGED <<pendingSequence, acceptedSequence, payload, running, trial,
                       bootVerified, failed, pc, expected>>
    BY <1>27 DEF EngineSucceed, prefs
  <2>2. QED
    BY <2>1, Ints
    DEF Ordered, CheckedStaysNewer, RecordNotStale, IdleEmpty, SlotsOrdered,
       NoDowngrade, AcceptedRuns, FailedUpdateRetryable, Rollback, Current
<1>28. CASE EngineFail
  <2>1. /\ engine' = "IDLE" /\ payload' = 0
        /\ UNCHANGED <<pendingSequence, acceptedSequence, running, other, armed,
                       trial, bootVerified, failed, pc, expected>>
    BY <1>28 DEF EngineFail, prefs, bootVars
  <2>2. QED
    BY <2>1
    DEF Ordered, CheckedStaysNewer, RecordNotStale, IdleEmpty, SlotsOrdered,
       NoDowngrade, AcceptedRuns, FailedUpdateRetryable, Rollback, Current
<1>29. CASE ProcessDies
  BY <1>29, Quiet, WorkerMoves
  DEF ProcessDies, Compared, prefs, engineVars, bootVars
<1>30. CASE VerifyBoot
  <2>1. /\ ~trial'
        /\ UNCHANGED <<pendingSequence, acceptedSequence, engine, payload, running,
                       other, armed, failed, pc, expected>>
    BY <1>30 DEF VerifyBoot, prefs, engineVars, control
  <2>2. QED
    BY <2>1
    DEF Ordered, CheckedStaysNewer, RecordNotStale, IdleEmpty, SlotsOrdered,
       NoDowngrade, AcceptedRuns, FailedUpdateRetryable, Rollback, Current
<1>31. CASE Restart
  <2>1. /\ pc'[Worker] = "idle" /\ engine' = "IDLE" /\ payload' = 0
        /\ ~armed' /\ ~bootVerified'
        /\ UNCHANGED <<pendingSequence, acceptedSequence>>
    BY <1>31, WorkerMoves DEF Restart, prefs
  <2>2. CheckedStaysNewer' /\ RecordNotStale' /\ IdleEmpty' /\ NoDowngrade'
    BY <2>1
    DEF Ordered, CheckedStaysNewer, RecordNotStale, IdleEmpty, NoDowngrade
  <2>3. SlotsOrdered' /\ AcceptedRuns' /\ FailedUpdateRetryable'
    BY <1>31, <2>1, Ints
    DEF Restart, ChooseSlot, Ordered, SlotsOrdered, AcceptedRuns,
       FailedUpdateRetryable, Rollback, Current
  <2>4. QED
    BY <2>2, <2>3 DEF Ordered
<1>32. ASSUME NEW c \in Command, TakeCommand(c) PROVE Ordered'
  <2>1. pc'[Worker] = Entry[c]
    BY <1>32, WorkerMoves DEF TakeCommand
  <2>2. Entry[c] \notin {"commit", "mark", "submit"}
    BY DEF Command, Entry
  <2>3. UNCHANGED Compared
    BY <1>32 DEF TakeCommand, Compared, prefs, engineVars
  <2>4. QED
    BY <2>1, <2>2, <2>3, Quiet
<1>33. CASE UNCHANGED vars
  BY <1>33, Quiet DEF vars, Compared, prefs, control, engineVars, bootVars
<1>34. QED
  BY <1>1, <1>2, <1>3, <1>4, <1>5, <1>6, <1>7, <1>8, <1>9, <1>10, <1>11,
     <1>12, <1>13, <1>14, <1>15, <1>16, <1>17, <1>18, <1>19, <1>20, <1>21,
     <1>22, <1>23, <1>24, <1>25, <1>26, <1>27, <1>28, <1>29, <1>30, <1>31,
     <1>32, <1>33
  DEF Next, MainStep, WorkerStep, Environment

LEMMA Initially == Init => Inv
<1> SUFFICES ASSUME Init PROVE Inv
  OBVIOUS
<1>1. Labelled(pc) /\ Returns(then)
  BY DEF Init, Labelled, Returns, MainLabel, WorkerLabel, MainReturn,
         WorkerReturn,
         Main, Worker, Thread
<1>2. files \in [Stage -> Package]
  BY MaxSequenceAssumption DEF Init, Package, Absent
<1>3. TypeOK
  <2>1. PrefsTyped /\ FieldsTyped /\ EngineTyped
    BY Bounds DEF Init, PrefsTyped, FieldsTyped, EngineTyped
  <2>2. ControlTyped
    BY <1>1, Bounds, Queues DEF Init, ControlTyped
  <2>3. 1 \in Sequence
    BY MaxSequenceAssumption DEF Sequence
  <2>4. BootTyped
    BY <2>3, Bounds DEF Init, BootTyped
  <2>5. QED
    BY <1>2, <2>1, <2>2, <2>4 DEF TypeOK
<1>4. pc[Worker] = "idle"
  BY DEF Init, Main, Worker, Thread
<1>5. Ordered
  BY <1>4
  DEF Init, Ordered, CheckedStaysNewer, RecordNotStale, IdleEmpty, SlotsOrdered,
     NoDowngrade, AcceptedRuns, FailedUpdateRetryable, Rollback, Current
<1>6. QED
  BY <1>3, <1>5 DEF Inv

THEOREM Invariance == Spec => []Inv
<1>1. Inv /\ [Next]_vars => Inv'
  BY TypeStep, OrderStep DEF Inv, Ordered
<1>2. QED
  BY Initially, <1>1, PTL DEF Spec

----------------------------------------------------------------------------
(* What every behaviour of the updater satisfies                           *)

(* Every variable keeps its type, for any bound on the sequences. *)
THEOREM TypeCorrect == Spec => []TypeOK
BY Invariance, PTL DEF Inv

(* Duplicate updates and downgrades never reach update_engine, whatever      *)
(* threads, crashes and resumed transactions come between apply()'s sequence *)
(* check and the submission.                                                 *)
THEOREM NeverDowngrades == Spec => []NoDowngrade
BY Invariance, PTL DEF Inv, Ordered

(* completeInstalled never records an update the device can still fall back  *)
(* from.                                                                     *)
THEOREM AcceptedAlwaysRuns == Spec => []AcceptedRuns
BY Invariance, PTL DEF Inv, Ordered

(* An update that failed its trial stays newer than current(): the same OTA  *)
(* can repair the slot.                                                      *)
THEOREM FailedStaysRetryable == Spec => []FailedUpdateRetryable
BY Invariance, PTL DEF Inv, Ordered

----------------------------------------------------------------------------
(* The two-slot promise                                                    *)

(* A step that leaves the slots, the record and the payload alone stutters. *)
LEMMA Stutters ==
  ASSUME UNCHANGED <<acceptedSequence, payload, running, other, armed, trial,
                     bootVerified>>
  PROVE  [Slots!Next]_(Slots!slotVars)
  BY DEF Slots!slotVars

(* completeInstalled accepts what runs, and never an older update again. *)
LEMMA CompleteRefines ==
  ASSUME Inv, NEW t \in Thread, CompleteInstalled(t)
  PROVE  [Slots!Next]_(Slots!slotVars)
<1>1. CASE Installed /\ acceptedSequence' = pendingSequence
  <2>1. pendingSequence \in 1..MaxSequence
    BY <1>1, MaxSequenceAssumption DEF Inv, TypeOK, PrefsTyped, Installed
  <2>2. Slots!Accept(pendingSequence)
    BY <1>1, <2>1
    DEF Inv, Ordered, RecordNotStale, Installed, CompleteInstalled,
       engineVars, bootVars, Slots!Accept
  <2>3. QED
    BY <2>1, <2>2 DEF Slots!Next
<1>2. CASE UNCHANGED acceptedSequence
  BY <1>2, Stutters DEF CompleteInstalled, engineVars, bootVars
<1>3. QED
  BY <1>1, <1>2 DEF CompleteInstalled

(* Every step of the updater is a step of SlotUpdate, or a stutter. *)
LEMMA RefinementStep == Inv /\ [Next]_vars => [Slots!Next]_(Slots!slotVars)
<1> SUFFICES ASSUME Inv, [Next]_vars PROVE [Slots!Next]_(Slots!slotVars)
  OBVIOUS
<1> USE DEF Inv
<1>1. CASE CreateService
  BY <1>1, Stutters DEF CreateService, prefs, engineVars, bootVars
<1>2. CASE CompleteInstalled(Main)
  BY <1>2, CompleteRefines DEF Main, Worker, Thread
<1>3. CASE ResetAfterRollback
  <2>1. CASE payload' = 0 /\ ~armed'
    <3>1. Slots!Abandon
      BY <1>3, <2>1 DEF ResetAfterRollback, prefs, Slots!Abandon
    <3>2. QED
      BY <3>1 DEF Slots!Next
  <2>2. CASE UNCHANGED <<engineVars, armed>>
    BY <1>3, <2>2, Stutters DEF ResetAfterRollback, prefs, engineVars
  <2>3. QED
    BY <1>3, <2>1, <2>2 DEF ResetAfterRollback
<1>4. CASE BindEngine
  BY <1>4, Stutters DEF BindEngine, prefs, engineVars, bootVars
<1>5. CASE OnRunning
  BY <1>5, Stutters DEF OnRunning, prefs, engineVars, bootVars
<1>6. CASE OnNeedReboot
  BY <1>6, Stutters DEF OnNeedReboot, prefs, engineVars, bootVars
<1>7. CASE CommitRebootReady
  BY <1>7, Stutters DEF CommitRebootReady, prefs, engineVars, bootVars
<1>8. CASE OnComplete
  BY <1>8, Stutters DEF OnComplete, prefs, engineVars, bootVars
<1>9. CASE DiscardPending(Main)
  BY <1>9, Stutters DEF DiscardPending, prefs, engineVars, bootVars
<1>10. CASE ForgetPending(Main)
  BY <1>10, Stutters DEF ForgetPending, prefs, engineVars, bootVars
<1>11. CASE AwaitVerification
  BY <1>11, Stutters DEF AwaitVerification, prefs, engineVars, bootVars
<1>12. CASE CompleteInstalled(Worker)
  BY <1>12, CompleteRefines DEF Main, Worker, Thread
<1>13. CASE ResumePending
  BY <1>13, Stutters DEF ResumePending, prefs, engineVars, bootVars
<1>14. CASE Check
  BY <1>14, Stutters DEF Check, prefs, engineVars, bootVars
<1>15. CASE NewStage
  BY <1>15, Stutters DEF NewStage, prefs, engineVars, bootVars
<1>16. CASE CopyPackage
  BY <1>16, Stutters DEF CopyPackage, prefs, engineVars, bootVars
<1>17. CASE VerifyPackage
  BY <1>17, Stutters DEF VerifyPackage, prefs, engineVars, bootVars
<1>18. CASE CommitPending
  BY <1>18, Stutters DEF CommitPending, prefs, engineVars, bootVars
<1>19. CASE MarkInstalling
  BY <1>19, Stutters DEF MarkInstalling, prefs, engineVars, bootVars
<1>20. CASE SubmitPayload
  <2>1. CASE engine' = "RUNNING" /\ engine = "IDLE"
    <3>1. Slots!Begin(expected)
      BY <1>20, <2>1, Ints DEF SubmitPayload, prefs, engineVars, Ordered,
         CheckedStaysNewer, IdleEmpty, Current, Slots!Begin
    <3>2. expected \in 1..MaxSequence
      BY <1>20, <2>1, Ints, MaxSequenceAssumption DEF SubmitPayload, Ordered,
         CheckedStaysNewer, Current
    <3>3. QED
      BY <3>1, <3>2 DEF Slots!Next
  <2>2. CASE UNCHANGED <<engineVars, other, armed>>
    BY <1>20, <2>2, Stutters DEF SubmitPayload, prefs, engineVars
  <2>3. QED
    BY <1>20, <2>1, <2>2 DEF SubmitPayload
<1>21. CASE RequestReboot
  BY <1>21, Stutters DEF RequestReboot, prefs, engineVars, bootVars
<1>22. CASE CatchFailure
  BY <1>22, Stutters DEF CatchFailure, prefs, engineVars, bootVars
<1>23. CASE CleanupStageFile
  BY <1>23, Stutters DEF CleanupStageFile, prefs, engineVars, bootVars
<1>24. CASE DiscardPending(Worker)
  BY <1>24, Stutters DEF DiscardPending, prefs, engineVars, bootVars
<1>25. CASE ForgetPending(Worker)
  BY <1>25, Stutters DEF ForgetPending, prefs, engineVars, bootVars
<1>26. CASE EngineProgress
  BY <1>26, Stutters DEF EngineProgress, prefs, engineVars, bootVars
<1>27. CASE EngineSucceed
  <2>1. Slots!Written
    BY <1>27, Ints DEF EngineSucceed, prefs, Ordered, NoDowngrade, Current,
       Slots!Written
  <2>2. QED
    BY <2>1 DEF Slots!Next
<1>28. CASE EngineFail
  <2>1. Slots!Abandon
    BY <1>28 DEF EngineFail, prefs, bootVars, Slots!Abandon
  <2>2. QED
    BY <2>1 DEF Slots!Next
<1>29. CASE ProcessDies
  BY <1>29, Stutters DEF ProcessDies, prefs, engineVars, bootVars
<1>30. CASE VerifyBoot
  <2>1. Slots!Verify
    BY <1>30 DEF VerifyBoot, prefs, engineVars, Slots!Verify
  <2>2. QED
    BY <2>1 DEF Slots!Next
<1>31. CASE Restart
  <2>1. Slots!Boot
    BY <1>31 DEF Restart, ChooseSlot, prefs, Slots!Boot
  <2>2. QED
    BY <2>1 DEF Slots!Next
<1>32. ASSUME NEW c \in Command, TakeCommand(c)
       PROVE  [Slots!Next]_(Slots!slotVars)
  BY <1>32, Stutters DEF TakeCommand, prefs, engineVars
<1>33. CASE UNCHANGED vars
  BY <1>33, Stutters DEF vars, prefs, engineVars, bootVars
<1>34. QED
  BY <1>1, <1>2, <1>3, <1>4, <1>5, <1>6, <1>7, <1>8, <1>9, <1>10, <1>11,
     <1>12, <1>13, <1>14, <1>15, <1>16, <1>17, <1>18, <1>19, <1>20, <1>21,
     <1>22, <1>23, <1>24, <1>25, <1>26, <1>27, <1>28, <1>29, <1>30, <1>31,
     <1>32, <1>33
  DEF Next, MainStep, WorkerStep, Environment

(* The updater, threads, crashes and all, implements SlotUpdate. *)
THEOREM Refinement == Spec => KeepsSlotPromise
<1>1. Init => Slots!Init
  BY DEF Init, Slots!Init
<1>2. QED
  BY Invariance, <1>1, RefinementStep, PTL
  DEF Spec, KeepsSlotPromise, Slots!Spec

----------------------------------------------------------------------------
(* After a fallback nothing is submitted again                             *)

(* The looper runs once onCreate has returned: the main thread is in a       *)
(* callback, or in the clearPending() of one.                                *)
Clearing == {"discard", "forget"}
Looping == \/ pc[Main] \in {"loop", "ready"}
           \/ pc[Main] \in Clearing /\ then[Main] = "loop"

(* The service is bound exactly while the looper runs, and only then has     *)
(* commands; a rollback has cleared the record before it binds.              *)
BoundLoops == /\ bound <=> Looping
              /\ ~bound => pc[Worker] = "idle"
              /\ Rollback /\ pc[Main] = "bind" => pendingSequence = 0

(* From then on a record is of an update under way, or of one that waits for *)
(* the restart, unless a thread is about to say which or to clear it.        *)
Claimed ==
  Rollback /\ bound /\ pendingSequence > 0 =>
    \/ installing \/ rebootReady
    \/ pc[Main] \in {"ready"} \cup Clearing
    \/ pc[Worker] \in {"mark"} \cup Clearing

LEMMA ThreadMoves ==
  ASSUME TypeOK
  PROVE  /\ \A l : Goto(Main, l) => pc'[Main] = l /\ pc'[Worker] = pc[Worker]
         /\ \A l : Goto(Worker, l) => pc'[Worker] = l /\ pc'[Main] = pc[Main]
         /\ \A l : then' = [then EXCEPT ![Main] = l] => then'[Main] = l
         /\ \A l : then' = [then EXCEPT ![Worker] = l] => then'[Main] = then[Main]
         /\ ProcessGone => pc'[Main] = "down" /\ pc'[Worker] = "idle" /\ ~bound'
BY DEF TypeOK, ControlTyped, Labelled, Returns, Goto, ProcessGone, Main, Worker, Thread

(* A process that is gone has no looper and no commands. *)
LEMMA GoneQuiet == ASSUME TypeOK, ProcessGone PROVE BoundLoops' /\ Claimed'
BY ThreadMoves DEF BoundLoops, Claimed, Looping, Clearing

(* The worker leaves the main thread where it is; what it records it claims. *)
LEMMA WorkerClaims ==
  ASSUME BoundLoops, Claimed, bound, pc'[Main] = pc[Main], then'[Main] = then[Main],
         bound' = bound, failed' = failed,
         \/ pendingSequence' = 0 \/ installing' = TRUE
         \/ pc'[Worker] \in {"mark"} \cup Clearing
         \/ /\ UNCHANGED <<pendingSequence, installing, rebootReady>>
            /\ pc[Worker] \notin {"mark"} \cup Clearing
  PROVE  BoundLoops' /\ Claimed'
<1>1. BoundLoops' BY DEF BoundLoops, Looping, Clearing
<1>2. Claimed' BY DEF Claimed, Rollback
<1> QED BY <1>1, <1>2

(* Before the service is bound the worker has no command. *)
LEMMA MainStarts ==
  ASSUME BoundLoops, ~bound, ~bound', ~Looping', pc'[Worker] = pc[Worker],
         Rollback' /\ pc'[Main] = "bind" => pendingSequence' = 0
  PROVE  BoundLoops' /\ Claimed'
BY DEF BoundLoops, Claimed

(* The looper's callbacks. *)
LEMMA MainLoops ==
  ASSUME BoundLoops, Claimed, bound, bound', Looping', pc'[Worker] = pc[Worker],
         failed' = failed,
         \/ pendingSequence' = 0 \/ rebootReady' = TRUE \/ installing' = TRUE
         \/ pc'[Main] \in {"ready"} \cup Clearing
         \/ /\ UNCHANGED <<pendingSequence, installing, rebootReady>>
            /\ pc[Main] \notin {"ready"} \cup Clearing
  PROVE  BoundLoops' /\ Claimed'
<1>1. BoundLoops' BY DEF BoundLoops, Looping, Clearing
<1>2. Claimed' BY DEF Claimed, Rollback
<1> QED BY <1>1, <1>2

LEMMA ClaimedStep ==
  TypeOK /\ BoundLoops /\ Claimed /\ [Next]_vars => BoundLoops' /\ Claimed'
<1> SUFFICES ASSUME TypeOK, BoundLoops, Claimed, [Next]_vars
             PROVE  BoundLoops' /\ Claimed'
  OBVIOUS
<1>w. pc[Worker] # "idle" => bound BY DEF BoundLoops
<1>l. bound <=> Looping BY DEF BoundLoops
<1>t. then[Main] \in MainReturn /\ pc[Main] \in MainLabel
  BY DEF TypeOK, ControlTyped, Labelled, Returns
<1>1. CASE CreateService
  <2>1. ~bound /\ bound' = bound /\ pc'[Main] = "complete" /\ pc'[Worker] = pc[Worker]
    BY <1>1, <1>l, ThreadMoves DEF CreateService, Looping, Clearing
  <2> QED BY <2>1, MainStarts DEF Looping, Clearing
<1>2. CASE CompleteInstalled(Main)
  <2>1. /\ ~bound /\ bound' = bound
        /\ \/ pc'[Main] = "rollback"
           \/ pc'[Main] = "discard" /\ then'[Main] = "rollback"
        /\ pc'[Worker] = pc[Worker]
    BY <1>2, <1>l, ThreadMoves DEF CompleteInstalled, Clear, Looping, Clearing
  <2> QED BY <2>1, MainStarts DEF Looping, Clearing
<1>3. CASE ResetAfterRollback
  <2>1. CASE ProcessGone BY <2>1, GoneQuiet
  <2>2. CASE ~ProcessGone
    <3>1. /\ ~bound /\ bound' = bound /\ failed' = failed /\ pc'[Worker] = pc[Worker]
          /\ \/ pc'[Main] = "bind" /\ ~Rollback
             \/ pc'[Main] = "discard" /\ then'[Main] = "bind"
      BY <1>3, <1>l, <2>2, ThreadMoves
      DEF ResetAfterRollback, ForgetFailedUpdate, Clear, Looping, Clearing
    <3> QED BY <3>1, MainStarts DEF Looping, Clearing, Rollback
  <2> QED BY <2>1, <2>2
<1>4. CASE BindEngine
  <2>1. /\ pc[Main] = "bind" /\ bound' /\ pc'[Main] = "loop" /\ failed' = failed
        /\ pendingSequence' = pendingSequence
    BY <1>4, ThreadMoves DEF BindEngine, prefs, bootVars
  <2>2. Rollback' => pendingSequence' = 0 BY <2>1 DEF BoundLoops, Rollback
  <2> QED BY <2>1, <2>2 DEF BoundLoops, Looping, Claimed
<1>5. CASE OnRunning
  <2>1. /\ Looping' /\ bound /\ bound' /\ pc' = pc /\ failed' = failed /\ installing' = TRUE
    BY <1>5, <1>l DEF OnRunning, Receive, Looping, bootVars
  <2> QED BY <2>1, MainLoops
<1>6. CASE OnNeedReboot
  <2>1. /\ bound /\ bound' /\ failed' = failed /\ pc'[Main] = "ready"
        /\ pc'[Worker] = pc[Worker]
    BY <1>6, <1>l, ThreadMoves DEF OnNeedReboot, Receive, Looping, bootVars
  <2> QED BY <2>1, MainLoops DEF Looping
<1>7. CASE CommitRebootReady
  <2>1. /\ bound /\ bound' /\ failed' = failed /\ pc'[Main] = "loop"
        /\ pc'[Worker] = pc[Worker] /\ rebootReady' = TRUE
    BY <1>7, <1>l, ThreadMoves DEF CommitRebootReady, Looping, bootVars
  <2> QED BY <2>1, MainLoops DEF Looping
<1>8. CASE OnComplete
  <2>1. /\ bound /\ bound' /\ failed' = failed /\ pc[Main] = "loop"
        /\ pc'[Worker] = pc[Worker]
        /\ \/ pc'[Main] = "discard" /\ then'[Main] = "loop"
           \/ pc' = pc /\ UNCHANGED <<pendingSequence, installing, rebootReady>>
    BY <1>8, <1>l, ThreadMoves
    DEF OnComplete, Receive, Clear, Looping, prefs, bootVars
  <2> QED BY <2>1, MainLoops DEF Looping, Clearing
<1>9. CASE DiscardPending(Main)
  <2>1. /\ pc[Main] = "discard" /\ pc'[Main] = "forget" /\ then' = then /\ bound' = bound
        /\ failed' = failed /\ pc'[Worker] = pc[Worker]
    BY <1>9, ThreadMoves DEF DiscardPending, bootVars
  <2>2. Looping' <=> Looping BY <2>1 DEF Looping, Clearing
  <2>3. CASE bound BY <1>l, <2>1, <2>2, <2>3, MainLoops DEF Clearing
  <2>4. CASE ~bound BY <1>l, <2>1, <2>2, <2>4, MainStarts
  <2> QED BY <2>3, <2>4
<1>10. CASE ForgetPending(Main)
  <2>1. /\ pc[Main] = "forget" /\ pc'[Main] = then[Main] /\ bound' = bound
        /\ failed' = failed /\ pc'[Worker] = pc[Worker] /\ pendingSequence' = 0
    BY <1>10, ThreadMoves DEF ForgetPending, bootVars
  <2>2. Looping' <=> Looping
    BY <1>t, <2>1 DEF Looping, Clearing, MainReturn
  <2>3. CASE bound BY <1>l, <2>1, <2>2, <2>3, MainLoops
  <2>4. CASE ~bound BY <1>l, <2>1, <2>2, <2>4, MainStarts
  <2> QED BY <2>3, <2>4
<1>11. CASE AwaitVerification
  BY <1>11, <1>w, ThreadMoves, WorkerClaims
  DEF AwaitVerification, prefs, fields, bootVars, Clearing
<1>12. CASE CompleteInstalled(Worker)
  <2>1. /\ pc[Worker] = "complete" /\ pc'[Main] = pc[Main] /\ then'[Main] = then[Main]
        /\ UNCHANGED <<pendingSequence, installing, rebootReady, bound, failed>>
    BY <1>12, ThreadMoves, Threads DEF CompleteInstalled, Clear, fields, bootVars
  <2> QED BY <1>w, <2>1, WorkerClaims DEF Clearing
<1>13. CASE ResumePending
  BY <1>13, <1>w, ThreadMoves, WorkerClaims
  DEF ResumePending, prefs, fields, bootVars, Clearing
<1>14. CASE Check
  BY <1>14, <1>w, ThreadMoves, WorkerClaims
  DEF Check, prefs, bootVars, Clearing
<1>15. CASE NewStage
  BY <1>15, <1>w, ThreadMoves, WorkerClaims
  DEF NewStage, Finish, prefs, bootVars, Clearing
<1>16. CASE CopyPackage
  BY <1>16, <1>w, ThreadMoves, WorkerClaims
  DEF CopyPackage, Finish, prefs, fields, bootVars, Clearing
<1>17. CASE VerifyPackage
  BY <1>17, <1>w, ThreadMoves, WorkerClaims
  DEF VerifyPackage, Finish, prefs, fields, bootVars, Clearing
<1>18. CASE CommitPending
  BY <1>18, <1>w, ThreadMoves, WorkerClaims DEF CommitPending, bootVars
<1>19. CASE MarkInstalling
  BY <1>19, <1>w, ThreadMoves, WorkerClaims DEF MarkInstalling, bootVars
<1>20. CASE SubmitPayload
  <2>1. /\ pc[Worker] = "submit" /\ pc'[Main] = pc[Main] /\ then'[Main] = then[Main]
        /\ UNCHANGED <<pendingSequence, rebootReady, bound, failed>>
        /\ installing' = installing \/ pc'[Worker] = "discard"
    BY <1>20, ThreadMoves DEF SubmitPayload, Finish, Clear, prefs
  <2> QED BY <1>w, <2>1, WorkerClaims DEF Clearing
<1>21. CASE RequestReboot
  BY <1>21, <1>w, ThreadMoves, WorkerClaims
  DEF RequestReboot, prefs, fields, Clearing
<1>22. CASE CatchFailure
  BY <1>22, <1>w, ThreadMoves, WorkerClaims
  DEF CatchFailure, prefs, fields, bootVars, Clearing
<1>23. CASE CleanupStageFile
  BY <1>23, <1>w, ThreadMoves, WorkerClaims
  DEF CleanupStageFile, Clear, bootVars, Clearing
<1>24. CASE DiscardPending(Worker)
  BY <1>24, <1>w, ThreadMoves, WorkerClaims DEF DiscardPending, bootVars, Clearing
<1>25. CASE ForgetPending(Worker)
  <2>1. /\ pc[Worker] = "forget" /\ pc'[Main] = pc[Main] /\ then'[Main] = then[Main]
        /\ pendingSequence' = 0 /\ UNCHANGED <<bound, failed>>
    BY <1>25, ThreadMoves, Threads DEF ForgetPending, bootVars
  <2> QED BY <1>w, <2>1, WorkerClaims
<1>26. CASE ProcessDies BY <1>26, GoneQuiet DEF ProcessDies
<1>27. CASE Restart BY <1>27, GoneQuiet DEF Restart
<1>28. CASE \/ UNCHANGED vars \/ EngineProgress \/ EngineSucceed \/ EngineFail
            \/ VerifyBoot
  <2>1. UNCHANGED <<pc, then, bound, failed, pendingSequence, installing, rebootReady>>
    BY <1>28
    DEF vars, EngineProgress, EngineSucceed, EngineFail, VerifyBoot, prefs, fields,
        control, bootVars
  <2> QED BY <2>1 DEF BoundLoops, Claimed, Looping, Rollback
<1>29. ASSUME NEW c \in Command, TakeCommand(c) PROVE BoundLoops' /\ Claimed'
  BY <1>29, ThreadMoves, WorkerClaims DEF TakeCommand, prefs, fields, Clearing
<1> QED BY <1>1, <1>2, <1>3, <1>4, <1>5, <1>6, <1>7, <1>8, <1>9, <1>10, <1>11,
           <1>12, <1>13, <1>14, <1>15, <1>16, <1>17, <1>18, <1>19, <1>20, <1>21,
           <1>22, <1>23, <1>24, <1>25, <1>26, <1>27, <1>28, <1>29
        DEF Next, MainStep, WorkerStep, Environment

(* No boot loop: an update that failed its trial is not submitted again by   *)
(* the boot that fell back from it, whatever threads and crashes come        *)
(* between onCreate's clearPending() and the resume command.                 *)
THEOREM NeverResubmits == Spec => []NoResubmitAfterRollback
<1>1. Init => BoundLoops /\ Claimed
  BY DEF Init, BoundLoops, Claimed, Looping, Clearing, Rollback, Main, Worker, Thread
<1>2. TypeOK /\ BoundLoops /\ Claimed => NoResubmitAfterRollback
  <2> SUFFICES ASSUME TypeOK, BoundLoops, Claimed, Rollback, Resumable,
                      pc[Worker] = "resume", pc[Main] = "loop"
               PROVE  FALSE
    BY DEF NoResubmitAfterRollback
  <2>1. bound BY DEF BoundLoops, Looping
  <2>2. pendingSequence > 0 /\ ~installing /\ ~rebootReady
    BY Ints DEF Resumable, Busy, Current
  <2> QED BY <2>1, <2>2 DEF Claimed, Clearing
<1> QED BY <1>1, <1>2, ClaimedStep, TypeCorrect, PTL DEF Spec
=============================================================================

------------------------- MODULE UpdaterHistoryProofs -------------------------
(***************************************************************************)
(* The two guarantees of UpdaterHistory for every number of sequences,     *)
(* staging files and kind of crash: an announced trial keeps the slot to   *)
(* fall back to, and only a payload that outlived the updater's process    *)
(* can meet a second submission.                                           *)
(***************************************************************************)
EXTENDS UpdaterHistory, KikiUpdaterProofs

----------------------------------------------------------------------------
(* The inductive invariant, by parts                                       *)

(* As long as an announced boot is on trial no payload is under way or       *)
(* waits, no thread clears the record, and rebootReady turns commands away.  *)
Undisturbed ==
  /\ rebootReady /\ ~armed /\ failed = 0 /\ engine = "IDLE" /\ other # 0
  /\ inbox = <<>>
  /\ pc[Main] \notin Clearing
  /\ pc[Worker] \notin Clearing \cup {"cleanup"} /\ ~Submitting

AnnouncedUndisturbed == announced => trial /\ Undisturbed

Contains(messages, m) == \E i \in DOMAIN messages : messages[i] = m
AtMostOnce(messages, m) ==
  \A i, j \in DOMAIN messages : messages[i] = m /\ messages[j] = m => i = j

(* The messages of a payload: its success is the engine's last word; of its  *)
(* failure there is one word at a time.                                      *)
Told ==
  /\ ~bound => inbox = <<>>
  /\ Contains(inbox, "NEED_REBOOT") => engine = "NEED_REBOOT"
  /\ ~orphaned => AtMostOnce(inbox, "ERROR")

(* As long as the process has outlived every payload, installing covers one  *)
(* from its submission to the callback that ends it.                         *)
Covered ==
  ~orphaned =>
    /\ engine = "RUNNING" => /\ bound /\ installing /\ ~Submitting
                             /\ ~Contains(inbox, "ERROR")
    /\ Contains(inbox, "ERROR") => engine = "IDLE" /\ installing /\ ~Submitting
    /\ pc[Worker] = "submit" /\ engine = "IDLE" => installing

HistoryInv == /\ Inv /\ BoundLoops /\ Claimed
              /\ AnnouncedUndisturbed /\ Told /\ Covered

----------------------------------------------------------------------------
(* The trial boot                                                          *)

LEMMA SlotsStay == ASSUME [Next]_vars, ~Restart PROVE running' = running
BY DEF Next, MainStep, WorkerStep, Environment, vars, bootVars, CreateService,
       CompleteInstalled, ResetAfterRollback, BindEngine, OnRunning, OnNeedReboot,
       CommitRebootReady, OnComplete, DiscardPending, ForgetPending,
       AwaitVerification, ResumePending, Check, NewStage, CopyPackage,
       VerifyPackage, CommitPending, MarkInstalling, SubmitPayload, RequestReboot,
       CatchFailure, CleanupStageFile, EngineProgress, EngineSucceed, EngineFail,
       ProcessDies, VerifyBoot, TakeCommand

(* A restart announces a trial only by starting it, with rebootReady kept.   *)
LEMMA RestartAnnounced ==
  ASSUME Inv, AnnouncedUndisturbed, Restart, announced' = AnnouncedTrial
  PROVE  AnnouncedUndisturbed'
<1>1. /\ engine' = "IDLE" /\ ~armed' /\ rebootReady' = rebootReady /\ inbox' = <<>>
      /\ pc'[Main] = "down" /\ pc'[Worker] = "idle"
  BY ThreadMoves DEF Restart, ProcessGone, Inv, prefs
<1>2. SUFFICES ASSUME announced' PROVE trial' /\ rebootReady /\ failed' = 0 /\ other' # 0
  BY <1>1 DEF AnnouncedUndisturbed, Undisturbed, Clearing, Submitting
<1>3. CASE running' = running
  <2>1. announced /\ trial' BY <1>2, <1>3 DEF AnnouncedTrial
  <2>2. trial /\ Undisturbed BY <2>1 DEF AnnouncedUndisturbed
  <2> QED BY <2>1, <2>2 DEF Restart, ChooseSlot, Undisturbed
<1>4. CASE running' # running
  <2>1. rebootReady /\ trial' BY <1>2, <1>4 DEF AnnouncedTrial
  <2>2. running >= 1 BY Ints DEF Inv
  <2>3. running' = other /\ other' = running /\ failed' = 0
    BY <1>4, <2>1 DEF Restart, ChooseSlot
  <2> QED BY <2>1, <2>2, <2>3
<1> QED BY <1>3, <1>4

LEMMA UndisturbedStep ==
  ASSUME Inv, trial, Undisturbed, [Next]_vars, ~Restart, trial'
  PROVE  Undisturbed'
<1> USE DEF Inv
<1>v. ~bootVerified BY DEF Ordered, SlotsOrdered
<1>b. Busy BY DEF Undisturbed, Busy
<1>1. ASSUME UNCHANGED <<rebootReady, armed, failed, engine, other, inbox>>,
             pc'[Main] \notin Clearing,
             pc'[Worker] \notin Clearing \cup {"cleanup", "copy", "verify", "commit",
                                              "mark", "submit"}
      PROVE  Undisturbed'
  BY <1>1 DEF Undisturbed, Submitting
<1>2. ASSUME UNCHANGED <<rebootReady, armed, failed, engine, other, inbox>>,
             pc' = pc
      PROVE  Undisturbed'
  BY <1>2 DEF Undisturbed, Submitting
<1>p. /\ pc[Main] \notin Clearing
      /\ pc[Worker] \notin Clearing \cup {"cleanup", "copy", "verify", "commit",
                                        "mark", "submit"}
  BY DEF Undisturbed, Submitting
<1>3. CASE CreateService
  BY <1>1, <1>3, <1>p, ThreadMoves
  DEF CreateService, prefs, engineVars, bootVars, Clearing
<1>4. CASE CompleteInstalled(Main)
  <2>1. pc'[Main] = "rollback" /\ pc'[Worker] = pc[Worker]
    BY <1>4, <1>v, ThreadMoves, Threads DEF CompleteInstalled, Installed
  <2> QED BY <1>1, <1>4, <1>p, <2>1 DEF CompleteInstalled, engineVars, bootVars, Clearing
<1>5. CASE ResetAfterRollback
  <2>1. ~Rollback BY DEF Undisturbed, Rollback
  <2> QED BY <1>1, <1>5, <1>p, <2>1, ThreadMoves
          DEF ResetAfterRollback, engineVars, prefs, Clearing
<1>6. CASE BindEngine
  <2>1. inbox' = inbox BY <1>6 DEF BindEngine, StatusOnBind, Undisturbed
  <2> QED BY <1>1, <1>6, <1>p, <2>1, ThreadMoves
          DEF BindEngine, engineVars, prefs, bootVars, Clearing
<1>7. CASE OnRunning \/ OnNeedReboot \/ OnComplete
  BY <1>7 DEF OnRunning, OnNeedReboot, OnComplete, Receive, Undisturbed
<1>8. CASE CommitRebootReady
  <2>1. rebootReady' = rebootReady BY <1>8 DEF CommitRebootReady, Undisturbed
  <2> QED BY <1>1, <1>8, <1>p, <2>1, ThreadMoves
          DEF CommitRebootReady, engineVars, bootVars, Clearing
<1>9. CASE \E t \in {Main, Worker} : DiscardPending(t) \/ ForgetPending(t)
  BY <1>9, <1>p DEF DiscardPending, ForgetPending, Clearing
<1>10. CASE CopyPackage \/ VerifyPackage \/ CommitPending \/ MarkInstalling
            \/ SubmitPayload \/ CleanupStageFile
  BY <1>10, <1>p
  DEF CopyPackage, VerifyPackage, CommitPending, MarkInstalling, SubmitPayload,
      CleanupStageFile
<1>11. CASE AwaitVerification
  BY <1>1, <1>11, <1>p, ThreadMoves
  DEF AwaitVerification, prefs, engineVars, bootVars, Clearing
<1>12. CASE CompleteInstalled(Worker)
  <2>1. pc'[Worker] = "resume" /\ pc'[Main] = pc[Main]
    BY <1>12, <1>v, ThreadMoves, Threads DEF CompleteInstalled, Installed
  <2> QED BY <1>1, <1>12, <1>p, <2>1 DEF CompleteInstalled, engineVars, bootVars, Clearing
<1>13. CASE ResumePending
  BY <1>1, <1>13, <1>b, <1>p, ThreadMoves
  DEF ResumePending, Resumable, prefs, engineVars, bootVars, Clearing
<1>14. CASE Check
  BY <1>1, <1>14, <1>b, <1>p, ThreadMoves DEF Check, prefs, engineVars, bootVars, Clearing
<1>15. CASE NewStage
  BY <1>1, <1>15, <1>b, <1>p, ThreadMoves
  DEF NewStage, Finish, prefs, engineVars, bootVars, Clearing
<1>16. CASE RequestReboot
  BY <1>1, <1>16, <1>p, ThreadMoves DEF RequestReboot, prefs, engineVars, Clearing
<1>17. CASE CatchFailure
  BY <1>1, <1>17, <1>b, <1>p, ThreadMoves
  DEF CatchFailure, prefs, engineVars, bootVars, Clearing
<1>18. ASSUME NEW c \in Command, TakeCommand(c) PROVE Undisturbed'
  <2>1. Entry[c] \notin Clearing \cup {"cleanup", "copy", "verify", "commit",
                                       "mark", "submit"}
    BY DEF Command, Entry, Clearing
  <2>2. pc'[Worker] = Entry[c] /\ pc'[Main] = pc[Main]
    BY <1>18, ThreadMoves DEF TakeCommand
  <2> QED BY <1>1, <1>18, <1>p, <2>1, <2>2 DEF TakeCommand, prefs, engineVars
<1>19. CASE EngineProgress \/ EngineSucceed \/ EngineFail
  BY <1>19 DEF EngineProgress, EngineSucceed, EngineFail, Undisturbed
<1>20. CASE ProcessDies
  <2>1. inbox' = inbox BY <1>20 DEF ProcessDies, ProcessGone, Undisturbed
  <2> QED BY <1>1, <1>20, <2>1, ThreadMoves
          DEF ProcessDies, prefs, engineVars, bootVars, Clearing
<1>21. CASE VerifyBoot BY <1>21 DEF VerifyBoot
<1>22. CASE UNCHANGED vars
  BY <1>2, <1>22 DEF vars, prefs, control, engineVars, bootVars
<1> QED BY <1>3, <1>4, <1>5, <1>6, <1>7, <1>8, <1>9, <1>10, <1>11, <1>12, <1>13,
           <1>14, <1>15, <1>16, <1>17, <1>18, <1>19, <1>20, <1>21, <1>22
        DEF Next, MainStep, WorkerStep, Environment

LEMMA AnnouncedStep ==
  ASSUME Inv, AnnouncedUndisturbed, [Next]_vars, announced' = AnnouncedTrial
  PROVE  AnnouncedUndisturbed'
<1>1. CASE Restart BY <1>1, RestartAnnounced
<1>2. CASE ~Restart
  <2>1. SUFFICES ASSUME announced' PROVE trial' /\ Undisturbed'
    BY DEF AnnouncedUndisturbed
  <2>2. announced /\ trial' BY <1>2, <2>1, SlotsStay DEF AnnouncedTrial
  <2> QED BY <1>2, <2>2, UndisturbedStep DEF AnnouncedUndisturbed
<1> QED BY <1>1, <1>2

----------------------------------------------------------------------------
(* Messages                                                                *)

LEMMA Nothing == ASSUME NEW m PROVE ~Contains(<<>>, m) /\ AtMostOnce(<<>>, m)
BY DEF Contains, AtMostOnce

LEMMA Taken ==
  ASSUME NEW s \in Seq(Message), s # <<>>
  PROVE  /\ Contains(s, Head(s))
         /\ \A m : Contains(Tail(s), m) => Contains(s, m)
         /\ \A m : AtMostOnce(s, m) =>
              /\ AtMostOnce(Tail(s), m)
              /\ Head(s) = m => ~Contains(Tail(s), m)
<1>1. /\ Len(s) \in Nat /\ Len(s) >= 1 /\ DOMAIN s = 1..Len(s)
      /\ DOMAIN Tail(s) = 1..(Len(s) - 1) /\ Head(s) = s[1]
      /\ \A i \in 1..(Len(s) - 1) : Tail(s)[i] = s[i + 1]
  OBVIOUS
<1>2. \A i \in DOMAIN Tail(s) : i + 1 \in DOMAIN s /\ i + 1 # 1 /\ 1 \in DOMAIN s
  BY <1>1
<1>3. \A i, j \in DOMAIN Tail(s) : i + 1 = j + 1 => i = j BY <1>1
<1>4. 1 \in DOMAIN s BY <1>1
<1>5. ASSUME NEW m, AtMostOnce(s, m) PROVE AtMostOnce(Tail(s), m)
  BY <1>1, <1>2, <1>3, <1>5 DEF AtMostOnce
<1>6. ASSUME NEW m, AtMostOnce(s, m), Head(s) = m PROVE ~Contains(Tail(s), m)
  BY <1>1, <1>2, <1>4, <1>6 DEF AtMostOnce, Contains
<1>7. ASSUME NEW m, Contains(Tail(s), m) PROVE Contains(s, m)
  BY <1>1, <1>2, <1>7 DEF Contains
<1> QED BY <1>1, <1>4, <1>5, <1>6, <1>7 DEF Contains

LEMMA Added ==
  ASSUME NEW s \in Seq(Message), NEW u \in Seq(Message)
  PROVE  /\ \A m : Contains(s \o u, m) <=> Contains(s, m) \/ Contains(u, m)
         /\ \A m : AtMostOnce(s, m) /\ ~Contains(u, m) => AtMostOnce(s \o u, m)
         /\ \A m : AtMostOnce(u, m) /\ ~Contains(s, m) => AtMostOnce(s \o u, m)
<1> DEFINE w == s \o u
<1>1. /\ Len(s) \in Nat /\ Len(u) \in Nat /\ DOMAIN s = 1..Len(s) /\ DOMAIN u = 1..Len(u)
      /\ DOMAIN w = 1..(Len(s) + Len(u))
      /\ \A i \in 1..Len(s) : w[i] = s[i]
      /\ \A i \in 1..Len(u) : w[i + Len(s)] = u[i]
  OBVIOUS
<1>2. \A i \in DOMAIN w : \/ i \in DOMAIN s /\ w[i] = s[i]
                          \/ \E k \in DOMAIN u : i = k + Len(s) /\ w[i] = u[k]
  <2> SUFFICES ASSUME NEW i \in DOMAIN w, i \notin DOMAIN s
               PROVE  \E k \in DOMAIN u : i = k + Len(s) /\ w[i] = u[k]
    BY <1>1
  <2>1. i - Len(s) \in DOMAIN u /\ i = (i - Len(s)) + Len(s) BY <1>1
  <2> QED BY <1>1, <2>1
<1>3. /\ \A i \in DOMAIN s : i \in DOMAIN w /\ w[i] = s[i]
      /\ \A k \in DOMAIN u : k + Len(s) \in DOMAIN w /\ w[k + Len(s)] = u[k]
  BY <1>1
<1> HIDE DEF w
<1>4. \A m : Contains(w, m) <=> Contains(s, m) \/ Contains(u, m)
  BY <1>2, <1>3 DEF Contains
<1>5. \A m : AtMostOnce(s, m) /\ ~Contains(u, m) => AtMostOnce(w, m)
  BY <1>2 DEF Contains, AtMostOnce
<1>6. \A m : AtMostOnce(u, m) /\ ~Contains(s, m) => AtMostOnce(w, m)
  BY <1>2 DEF Contains, AtMostOnce
<1> QED BY <1>4, <1>5, <1>6 DEF w

LEMMA Posted ==
  ASSUME NEW a, NEW b
  PROVE  /\ \A m : Contains(<<a>>, m) <=> a = m
         /\ \A m : Contains(<<a, b>>, m) <=> a = m \/ b = m
         /\ \A m : AtMostOnce(<<a>>, m)
<1>1. DOMAIN <<a>> = {1} /\ <<a>>[1] = a OBVIOUS
<1>2. DOMAIN <<a, b>> = {1, 2} /\ <<a, b>>[1] = a /\ <<a, b>>[2] = b OBVIOUS
<1> QED BY <1>1, <1>2 DEF Contains, AtMostOnce

----------------------------------------------------------------------------
(* One payload at a time                                                   *)

(* Nothing has been told to a process that is gone, and it submits nothing.  *)
LEMMA GoneCovered ==
  ASSUME TypeOK, ProcessGone, ~orphaned' => engine' # "RUNNING"
  PROVE  Told' /\ Covered'
<1>1. inbox' = <<>> /\ pc'[Worker] = "idle" BY ThreadMoves DEF ProcessGone
<1> QED BY <1>1, Nothing DEF Told, Covered

(* Steps that leave the messages and the engine alone. *)
LEMMA StillCovered ==
  ASSUME Told, Covered, UNCHANGED <<inbox, engine, bound>>, orphaned => orphaned',
         ~orphaned' =>
           /\ Submitting' => Submitting \/ ~Busy
           /\ installing' = installing \/ installing' = TRUE \/ Submitting
           /\ pc'[Worker] = "submit" =>
                \/ installing' = TRUE
                \/ pc[Worker] = "submit" /\ installing' = installing
  PROVE  Told' /\ Covered'
<1>1. Told' BY DEF Told
<1>2. Covered'
  <2>1. SUFFICES ASSUME ~orphaned' PROVE
          /\ engine = "RUNNING" => /\ bound /\ installing' /\ ~Submitting'
                                   /\ ~Contains(inbox, "ERROR")
          /\ Contains(inbox, "ERROR") => engine = "IDLE" /\ installing' /\ ~Submitting'
          /\ pc'[Worker] = "submit" /\ engine = "IDLE" => installing'
    BY DEF Covered
  <2>2. /\ engine = "RUNNING" => /\ bound /\ installing /\ ~Submitting
                                 /\ ~Contains(inbox, "ERROR")
        /\ Contains(inbox, "ERROR") => engine = "IDLE" /\ installing /\ ~Submitting
        /\ pc[Worker] = "submit" /\ engine = "IDLE" => installing
    BY <2>1 DEF Covered
  <2> QED BY <2>1, <2>2 DEF Busy
<1> QED BY <1>1, <1>2

LEMMA CoveredStep ==
  ASSUME Inv, BoundLoops, Told, Covered, [Next]_vars, orphaned' = OutlivesProcess
  PROVE  Told' /\ Covered'
<1> USE DEF Inv
<1>q. inbox \in Seq(Message) BY DEF TypeOK, ControlTyped
<1>w. pc[Worker] # "idle" => bound BY DEF BoundLoops
<1>1. CASE Restart BY <1>1, GoneCovered DEF Restart
<1>2. CASE ProcessGone /\ pc[Main] # "down" /\ engine' = engine /\ ~Restart
  BY <1>2, ThreadMoves, GoneCovered DEF OutlivesProcess
<1>o. ASSUME ~Restart PROVE orphaned => orphaned' BY <1>o DEF OutlivesProcess
<1>3. CASE CreateService
  <2>1. pc'[Worker] = pc[Worker] BY <1>3, ThreadMoves DEF CreateService
  <2> QED BY <1>1, <1>3, <1>o, <2>1, StillCovered
          DEF CreateService, fields, engineVars, Submitting
<1>4. CASE CompleteInstalled(Main) \/ DiscardPending(Main) \/ ForgetPending(Main)
           \/ CommitRebootReady
  <2>1. pc'[Worker] = pc[Worker]
    BY <1>4, ThreadMoves, Threads
    DEF CompleteInstalled, DiscardPending, ForgetPending, CommitRebootReady, Clear
  <2> QED BY <1>1, <1>4, <1>o, <2>1, StillCovered
          DEF CompleteInstalled, DiscardPending, ForgetPending, CommitRebootReady,
              fields, engineVars, Submitting
<1>5. CASE ResetAfterRollback /\ ~Restart
  <2>1. CASE ProcessGone
    <3>1. engine' \in {"IDLE", engine}
      BY <1>5 DEF ResetAfterRollback, engineVars
    <3>2. pc[Main] # "down" BY <1>5 DEF ResetAfterRollback
    <3>3. CASE engine' = "IDLE" BY <2>1, <3>3, GoneCovered
    <3> QED BY <1>2, <1>5, <2>1, <3>1, <3>2, <3>3
  <2>2. CASE ~ProcessGone
    <3>1. /\ pc'[Worker] = pc[Worker] /\ ~bound /\ UNCHANGED <<inbox, bound, installing>>
          /\ engine' = "IDLE" \/ engine' = engine
      BY <1>5, <2>2, ThreadMoves
      DEF ResetAfterRollback, ForgetFailedUpdate, Clear, engineVars, fields,
          BoundLoops, Looping, Clearing
    <3>2. inbox = <<>> /\ pc[Worker] = "idle" BY <3>1 DEF Told, BoundLoops
    <3>3. engine' = "RUNNING" /\ ~orphaned' => FALSE
      BY <1>5, <1>o, <3>1 DEF Covered
    <3> QED BY <3>1, <3>2, <3>3, Nothing DEF Told, Covered
  <2> QED BY <2>1, <2>2
<1>6. CASE BindEngine /\ ~Restart
  <2>1. /\ pc[Main] = "bind" /\ pc'[Worker] = pc[Worker] /\ ~bound /\ bound' = TRUE
        /\ inbox' = StatusOnBind /\ engine' = engine /\ installing' = installing
    BY <1>6, ThreadMoves DEF BindEngine, BoundLoops, Looping, Clearing, engineVars, fields
  <2>2. pc[Worker] = "idle" BY <2>1 DEF BoundLoops
  <2>3. ~orphaned' => engine # "RUNNING" BY <1>6, <1>o, <2>1 DEF Covered
  <2>4. /\ ~Contains(StatusOnBind, "ERROR") /\ AtMostOnce(StatusOnBind, "ERROR")
        /\ Contains(StatusOnBind, "NEED_REBOOT") => engine = "NEED_REBOOT"
    BY Posted, Nothing DEF StatusOnBind, TypeOK, EngineTyped
  <2> QED BY <2>1, <2>2, <2>3, <2>4 DEF Told, Covered
<1>7. ASSUME NEW m, Receive(m)
      PROVE  /\ Contains(inbox, m) /\ inbox' = Tail(inbox) /\ bound
             /\ \A k : Contains(inbox', k) => Contains(inbox, k)
             /\ \A k : AtMostOnce(inbox, k) => AtMostOnce(inbox', k)
             /\ AtMostOnce(inbox, m) => ~Contains(inbox', m)
  BY <1>7, <1>q, Taken DEF Receive, BoundLoops, Looping
<1>8. CASE OnRunning /\ ~Restart
  <2>1. /\ Receive("RUNNING") /\ installing' = TRUE
        /\ UNCHANGED <<pc, bound, engine>>
    BY <1>8 DEF OnRunning, engineVars
  <2> QED BY <1>7, <1>8, <1>o, <2>1 DEF Told, Covered, Submitting
<1>9. CASE OnNeedReboot /\ ~Restart
  <2>1. /\ Receive("NEED_REBOOT") /\ pc'[Worker] = pc[Worker]
        /\ UNCHANGED <<bound, engine>>
    BY <1>9, ThreadMoves DEF OnNeedReboot, engineVars
  <2>2. engine = "NEED_REBOOT" BY <1>7, <2>1 DEF Told
  <2>3. ~orphaned' => ~Contains(inbox', "ERROR")
    BY <1>7, <1>9, <1>o, <2>1, <2>2 DEF Covered
  <2> QED BY <1>7, <1>9, <1>o, <2>1, <2>2, <2>3 DEF Told, Covered
<1>10. CASE OnComplete /\ ~Restart
  <2>1. CASE Receive("OK") /\ UNCHANGED <<installing, pc, then>>
    <3>1. UNCHANGED <<bound, engine>> BY <1>10 DEF OnComplete, engineVars
    <3> QED BY <1>7, <1>10, <1>o, <2>1, <3>1 DEF Told, Covered, Submitting
  <2>2. CASE Receive("ERROR") /\ Clear(Main, "loop")
    <3>1. pc'[Worker] = pc[Worker] /\ UNCHANGED <<bound, engine>>
      BY <1>10, <2>2, ThreadMoves DEF OnComplete, Clear, engineVars
    <3>2. ~orphaned' => ~orphaned /\ engine = "IDLE" /\ ~Submitting
      BY <1>7, <1>10, <1>o, <2>2 DEF Covered
    <3>3. ~orphaned' => ~Contains(inbox', "ERROR")
      BY <1>7, <2>2, <3>2 DEF Told
    <3> QED BY <1>7, <2>2, <3>1, <3>2, <3>3 DEF Told, Covered, Submitting
  <2> QED BY <1>10, <2>1, <2>2 DEF OnComplete
<1>11. CASE \/ AwaitVerification \/ CompleteInstalled(Worker) \/ Check \/ RequestReboot
            \/ CatchFailure \/ CleanupStageFile \/ DiscardPending(Worker)
            \/ ForgetPending(Worker)
  <2>1. then[Worker] \in WorkerReturn BY DEF TypeOK, ControlTyped, Returns
  <2>2. pc'[Worker] \notin {"copy", "verify", "commit", "mark", "submit"}
    BY <1>11, <2>1, ThreadMoves, Threads
    DEF AwaitVerification, CompleteInstalled, Check, RequestReboot, CatchFailure,
        CleanupStageFile, DiscardPending, ForgetPending, Clear, WorkerReturn
  <2>3. UNCHANGED <<inbox, engine, bound, installing>>
    BY <1>11
    DEF AwaitVerification, CompleteInstalled, Check, RequestReboot, CatchFailure,
        CleanupStageFile, DiscardPending, ForgetPending, fields, engineVars
  <2> QED BY <1>1, <1>o, <2>2, <2>3, StillCovered DEF Submitting
<1>12. CASE ResumePending \/ NewStage \/ CopyPackage \/ VerifyPackage \/ CommitPending
  <2>1. UNCHANGED <<inbox, engine, bound, installing>>
    BY <1>12
    DEF ResumePending, NewStage, CopyPackage, VerifyPackage, CommitPending, fields,
        engineVars
  <2>2. pc'[Worker] # "submit" /\ (Submitting' => Submitting \/ ~Busy)
    BY <1>12, ThreadMoves
    DEF ResumePending, NewStage, CopyPackage, VerifyPackage, CommitPending, Resumable,
        Finish, Submitting
  <2> QED BY <1>1, <1>o, <2>1, <2>2, StillCovered
<1>13. CASE MarkInstalling
  <2>1. UNCHANGED <<inbox, engine, bound>> /\ installing' = TRUE /\ Submitting
    BY <1>13 DEF MarkInstalling, engineVars, Submitting
  <2> QED BY <1>1, <1>o, <2>1, StillCovered
<1>14. CASE SubmitPayload /\ ~Restart
  <2>0. pc[Worker] = "submit" /\ UNCHANGED <<inbox, bound>> /\ bound
    BY <1>14, <1>w DEF SubmitPayload
  <2>1. CASE engine = "IDLE" /\ engine' = "RUNNING" /\ installing' = installing
             /\ Finish("idle")
    <3>1. pc'[Worker] = "idle" BY <2>1, ThreadMoves DEF Finish
    <3>2. ~orphaned' => installing /\ ~Contains(inbox, "ERROR")
      BY <1>14, <1>o, <2>0, <2>1 DEF Covered, Submitting
    <3> QED BY <1>14, <1>o, <2>0, <2>1, <3>1, <3>2 DEF Told, Covered, Submitting
  <2>2. CASE installing' = FALSE /\ Clear(Worker, "catch") /\ engine' = engine
    <3>1. pc'[Worker] = "discard" BY <2>2, ThreadMoves DEF Clear
    <3> QED BY <1>1, <1>o, <2>0, <2>2, <3>1, StillCovered DEF Submitting
  <2> QED BY <1>14, <2>1, <2>2 DEF SubmitPayload, engineVars
<1>15. ASSUME NEW c \in Command, TakeCommand(c) PROVE Told' /\ Covered'
  <2>1. pc'[Worker] \notin {"copy", "verify", "commit", "mark", "submit"}
    BY <1>15, ThreadMoves DEF TakeCommand, Command, Entry
  <2>2. UNCHANGED <<inbox, engine, bound, installing>>
    BY <1>15 DEF TakeCommand, fields, engineVars
  <2> QED BY <1>1, <1>o, <2>1, <2>2, StillCovered DEF Submitting
<1>16. ASSUME NEW u \in Seq(Message), Post(u)
       PROVE  /\ \A m : Contains(inbox', m) => Contains(inbox, m) \/ Contains(u, m)
              /\ \A m : AtMostOnce(inbox, m) /\ ~Contains(u, m) => AtMostOnce(inbox', m)
              /\ \A m : AtMostOnce(u, m) /\ ~Contains(inbox, m) => AtMostOnce(inbox', m)
              /\ ~bound => inbox' = inbox
  BY <1>16, <1>q, Added, Nothing DEF Post, AtMostOnce, Contains
<1>17. CASE EngineProgress /\ ~Restart
  <2>1. Post(<<"RUNNING">>) /\ UNCHANGED <<pc, installing, bound, engine>>
    BY <1>17 DEF EngineProgress, fields, engineVars
  <2>2. /\ \A m \in {"ERROR", "NEED_REBOOT"} : ~Contains(<<"RUNNING">>, m)
    BY Posted
  <2> QED BY <1>16, <1>17, <1>o, <2>1, <2>2, Queues DEF Told, Covered, Submitting
<1>18. CASE EngineSucceed /\ ~Restart
  <2>1. /\ engine = "RUNNING" /\ engine' = "NEED_REBOOT"
        /\ UNCHANGED <<pc, installing, bound>>
    BY <1>18 DEF EngineSucceed, fields
  <2>2. PICK u \in {<<"NEED_REBOOT", "OK">>, <<"OK", "NEED_REBOOT">>} : Post(u)
    BY <1>18 DEF EngineSucceed
  <2>3. u \in Seq(Message) /\ ~Contains(u, "ERROR")
    <3>1. ~Contains(<<"NEED_REBOOT", "OK">>, "ERROR") BY Posted
    <3>2. ~Contains(<<"OK", "NEED_REBOOT">>, "ERROR")
      <4>1. \A m : Contains(<<"OK", "NEED_REBOOT">>, m) <=> "OK" = m \/ "NEED_REBOOT" = m
        BY Posted
      <4> QED BY <4>1
    <3> QED BY <2>2, <3>1, <3>2, Queues
  <2>4. ~orphaned' => ~Contains(inbox', "ERROR")
    BY <1>16, <1>18, <1>o, <2>1, <2>2, <2>3 DEF Covered
  <2> QED BY <1>16, <1>18, <1>o, <2>1, <2>2, <2>3, <2>4 DEF Told, Covered
<1>19. CASE EngineFail /\ ~Restart
  <2>1. /\ engine = "RUNNING" /\ engine' = "IDLE" /\ Post(<<"ERROR">>)
        /\ UNCHANGED <<pc, installing, bound>>
    BY <1>19 DEF EngineFail, fields
  <2>2. ~Contains(<<"ERROR">>, "NEED_REBOOT") /\ AtMostOnce(<<"ERROR">>, "ERROR")
    BY Posted
  <2>3. ~orphaned' => installing /\ ~Submitting /\ ~Contains(inbox, "ERROR")
    BY <1>19, <1>o, <2>1 DEF Covered
  <2>4. ~Contains(inbox', "NEED_REBOOT")
    BY <1>16, <2>1, <2>2, Queues DEF Told
  <2>5. ~orphaned' => AtMostOnce(inbox', "ERROR")
    BY <1>16, <2>1, <2>2, <2>3, Queues
  <2>6. ~bound' => inbox' = <<>> BY <1>16, <2>1, Queues DEF Told
  <2> QED BY <2>1, <2>3, <2>4, <2>5, <2>6 DEF Told, Covered, Submitting
<1>20. CASE ProcessDies /\ ~Restart
  BY <1>2, <1>20 DEF ProcessDies, engineVars
<1>21. CASE VerifyBoot \/ UNCHANGED vars
  <2>1. UNCHANGED <<inbox, engine, bound, installing, pc>>
    BY <1>21 DEF VerifyBoot, vars, fields, control, engineVars
  <2> QED BY <1>1, <1>o, <2>1, StillCovered DEF Submitting
<1> QED BY <1>1, <1>3, <1>4, <1>5, <1>6, <1>8, <1>9, <1>10, <1>11, <1>12, <1>13,
           <1>14, <1>15, <1>17, <1>18, <1>19, <1>20, <1>21
        DEF Next, MainStep, WorkerStep, Environment

----------------------------------------------------------------------------
(* The theorems                                                            *)

LEMMA HistoryInvStep == HistoryInv /\ [HistoryNext]_<<vars, history>> => HistoryInv'
<1> SUFFICES ASSUME HistoryInv, [HistoryNext]_<<vars, history>> PROVE HistoryInv'
  OBVIOUS
<1> USE DEF HistoryInv
<1>1. CASE HistoryNext
  <2>0. [Next]_vars BY <1>1 DEF HistoryNext
  <2>1. Inv' BY <2>0, TypeStep, OrderStep DEF Inv, Ordered
  <2>2. BoundLoops' /\ Claimed' BY <2>0, ClaimedStep DEF Inv
  <2>3. AnnouncedUndisturbed' BY <1>1, <2>0, AnnouncedStep DEF HistoryNext
  <2>4. Told' /\ Covered' BY <1>1, <2>0, CoveredStep DEF HistoryNext
  <2> QED BY <2>1, <2>2, <2>3, <2>4
<1>2. CASE UNCHANGED <<vars, history>>
  <2>0. [Next]_vars BY <1>2
  <2>1. Inv' BY <2>0, TypeStep, OrderStep DEF Inv, Ordered
  <2>2. BoundLoops' /\ Claimed' BY <2>0, ClaimedStep DEF Inv
  <2>3. UNCHANGED <<pc, inbox, engine, armed, failed, other, trial, bound, installing,
                    rebootReady, announced, orphaned>>
    BY <1>2 DEF vars, prefs, fields, control, engineVars, bootVars, history
  <2>4. AnnouncedUndisturbed' BY <2>3 DEF AnnouncedUndisturbed, Undisturbed, Submitting
  <2>5. Told' /\ Covered' BY <2>3 DEF Told, Covered, Submitting
  <2> QED BY <2>1, <2>2, <2>4, <2>5
<1> QED BY <1>1, <1>2

LEMMA HistoryInvariance == HistorySpec => []HistoryInv
<1>1. HistoryInit => HistoryInv
  <2> SUFFICES ASSUME HistoryInit PROVE HistoryInv OBVIOUS
  <2>1. Init /\ ~announced /\ ~orphaned BY DEF HistoryInit
  <2>2. Inv BY <2>1, Initially
  <2>3. inbox = <<>> /\ pc[Worker] = "idle" /\ pc[Main] = "down" /\ ~bound
        /\ engine = "IDLE"
    BY <2>1 DEF Init, Main, Worker, Thread
  <2>4. BoundLoops /\ Claimed BY <2>3 DEF BoundLoops, Claimed, Looping, Clearing
  <2>5. AnnouncedUndisturbed BY <2>1 DEF AnnouncedUndisturbed
  <2>6. Told /\ Covered BY <2>3, Nothing DEF Told, Covered
  <2> QED BY <2>2, <2>4, <2>5, <2>6 DEF HistoryInv
<1> QED BY <1>1, HistoryInvStep, PTL DEF HistorySpec

(* Once a trial boot has been announced, no command, callback, crash or      *)
(* restart on the way to its verification has the slot to fall back to       *)
(* overwritten.                                                              *)
THEOREM KeepsFallback == HistorySpec => []FallbackPreserved
<1>1. HistoryInv => FallbackPreserved
  BY DEF HistoryInv, AnnouncedUndisturbed, Undisturbed, FallbackPreserved
<1> QED BY <1>1, HistoryInvariance, PTL

(* While update_engine writes a payload no other one is past the guards,     *)
(* unless the process that submitted it has died.                            *)
THEOREM RejectsDuplicates == HistorySpec => []DuplicateOnlyOfOrphan
<1>1. HistoryInv => DuplicateOnlyOfOrphan
  BY DEF HistoryInv, Covered, DuplicateOnlyOfOrphan, ActiveDuplicateRejected
<1> QED BY <1>1, HistoryInvariance, PTL
=============================================================================

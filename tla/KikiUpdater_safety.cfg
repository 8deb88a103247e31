SPECIFICATION HistorySpec
CONSTANTS
  MaxSequence = 3
  MaxInbox = 1
  Stage = {f1, f2}
  NoStage = NoStage
  Crashes = {"process", "power"}
SYMMETRY StageSymmetry
INVARIANTS
  TypeOK
  NoDowngrade
  AcceptedRuns
  FailedUpdateRetryable
  NoResubmitAfterRollback
  FallbackPreserved
  DuplicateOnlyOfOrphan
PROPERTY KeepsSlotPromise

SPECIFICATION Spec
CONSTANTS
  MaxSequence = 2
  MaxInbox = 1
  Stage = {f1, f2}
  NoStage = NoStage
  Crashes = {}
INVARIANT ReadyRecorded

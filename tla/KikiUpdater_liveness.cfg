SPECIFICATION FairSpec
CONSTANTS
  MaxSequence = 2
  MaxInbox = 1
  Stage = {f1}
  NoStage = NoStage
  Crashes = {"process", "power"}
PROPERTIES
  ResumeDecides
  InstallingEnds
  VerifiedUpdateCompletes

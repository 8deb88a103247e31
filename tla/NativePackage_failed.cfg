SPECIFICATION Spec
CONSTANTS
  MaxBuild = 3
  SequenceOf <- Sequences
  TestedBuild = 2
  MaxKills = 1
  MaxChanges = 0
  None = None
  Partial = Partial
INVARIANT FailedContainerCompletable
CHECK_DEADLOCK FALSE

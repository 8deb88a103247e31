SPECIFICATION Spec
CONSTANTS
  MaxBuild = 3
  SequenceOf <- Sequences
  TestedBuild = 2
  MaxKills = 2
  MaxChanges = 3
  None = None
  Partial = Partial
INVARIANTS
  TypeOK
  DeliveredAsAudited
  PublishedAsTested
PROPERTY EvidenceKept
CHECK_DEADLOCK FALSE

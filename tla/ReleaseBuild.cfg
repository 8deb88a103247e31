SPECIFICATION FairSpec
CONSTANTS
  MaxCommit = 2
  MaxKills = 3
  None = None
  Partial = Partial
INVARIANTS
  TypeOK
  PackagesHoldClaims
  RecordNotAhead
PROPERTIES
  IntegratedOnce
  BuildEnds
CHECK_DEADLOCK FALSE

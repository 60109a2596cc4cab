SPECIFICATION FairSpec
CONSTANTS
  Days = 2
  Queue = 2
  MaxRecords = 3
  MaxLives = 2
INVARIANT
  ChainTells
PROPERTIES
  Lands
  ImplementsTrail
CHECK_DEADLOCK FALSE

SPECIFICATION FairSpec
CONSTANTS
  Models = {small}
  Loads = 1
  Rooms = {0, 3}
  MaxStarts = 3
  Restarts = 1
  Window = 1
  LoadTimeout = 1
  None = None
INVARIANT
  StopWins
PROPERTIES
  StartsAreRationed
  EngineSettles
CHECK_DEADLOCK FALSE

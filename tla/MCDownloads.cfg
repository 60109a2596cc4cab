SPECIFICATION MCSpec
CONSTANTS
  large = large
  small = small
  weights = weights
  tiny = tiny
  seeing = seeing
  language = language
  vision = vision
  None = None
  Models <- MCModels
  Files <- MCFiles
  FilesOf <- MCFilesOf
  Bringable <- MCBringable
  Size <- MCSize
  Attempts = 2
INVARIANTS
  LineServed
  NoGhosts
  FilesAreTrue
PROPERTY
  StopIsHeeded

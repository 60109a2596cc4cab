SPECIFICATION Spec
CONSTANTS
    None = None
    HostApi <- MCHostApi
    IdOrder <- MCIdOrder
    Manifest <- MCManifest
    Catalog <- MCCatalog
    Shipped <- MCShipped
    SetAside = {}
    Policy <- MCPolicy
    MaxNow = 1
    MaxBoots = 2
INVARIANT
  LockIsTheSet
PROPERTIES
  NoSilentWidening
  InstalledHoldsTogether
CHECK_DEADLOCK FALSE

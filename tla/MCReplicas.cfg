CONSTANTS
  p1 = p1
  p2 = p2
  p3 = p3
  Peers = {p1, p2, p3}
  MaxReplicas = 2
  MaxEvents = 2
SPECIFICATION Spec
INVARIANTS
  SettledIsSame
  EditsAndUndosStay
SYMMETRY Same
CHECK_DEADLOCK FALSE

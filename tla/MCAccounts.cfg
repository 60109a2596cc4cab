SPECIFICATION AccountsSpec
CONSTANTS
  u1 = u1
  u2 = u2
  a1 = a1
  anna = anna
  ben = ben
  team = team
  board = board
  picture = picture
  None = None
  Users = {u1, u2}
  Addresses = {a1}
  Roles = {"admin", "member"}
  AccountFailures = 2
  AccountLock = 1
  MostDoublings = 1
  AddressFailures = 4
  AddressWindow = 1
  AddressLock = 1
  LinkLife = 2
  SessionLife = 3
  RevalidateEvery = 1
  MaxLinks = 2
  MaxSessions = 2
  MaxSockets = 1
  MaxCalls = 1
  Budgets <- SomeBudgets
  People = {anna, ben}
  Shared = {team}
  Harnesses = {board}
  Files = {picture}
  Tightenings <- SomeTightenings
  Given = {1, 4}
  Rooms <- SomeRooms
INVARIANTS
  EndedIsOver
  GuessesArePaced
  AccessIsDecided
  DiskIsAnswered
SYMMETRY Alike
CHECK_DEADLOCK FALSE

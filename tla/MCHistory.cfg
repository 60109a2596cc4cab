SPECIFICATION Spec
CONSTANTS
  ann = ann
  board = board
  plan = plan
  blank = blank
  some = some
  Users <- MCUsers
  Docs <- MCDocs
  MayEdit <- MCMayEdit
  ProposalDocs <- MCDocs
  Contents <- MCContents
  Empty = blank
  UndoWindow = 2
  RunWindow = 2
  MaxCommits = 3
  MaxTime = 2
INVARIANTS
  HistoryHolds
  RedoRetraces
PROPERTY
  DropLeavesNone
SYMMETRY MCSymmetry

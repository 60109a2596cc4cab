SPECIFICATION DeskSpec
CONSTANTS
  Keys = {"board", "plan"}
  Foreign = {"plan"}
  MaxEdits = 3
  MaxAsked = 3
  Workspaces = {"home", "team"}
  Home = "home"
  Files = {"a", "b"}
  MOST_PER_MESSAGE = 2
  MaxTicks = 2
  MaxSaid = 2
INVARIANTS
  WindowIsTrue
  ChatsAreKept
  RepliesAreTrue
  TextsAreRead
PROPERTIES
  HeldStays
  ReadingIsSound
CHECK_DEADLOCK FALSE

SPECIFICATION HostSpec
CONSTANTS
  MIB = 4
  Users = {"anna", "ben"}
  Slug <- Slugs
  MaxGrants = 1
  EventsPerUser = 1
  Askers = {"anna"}
  Openers <- Views
  MaxWork = 5
  Windows = {"a1", "a2", "b1"}
  UserOf <- WhoseWindow
  Teams = {"t1", "t2"}
  Ttl = 2
  MaxNow = 5
  Urls <- SomeUrls
  FirstMode = "ask"
  Ceiling = "online"
  Allow <- Allowlist
  Block <- Blocklist
  Intranet <- InnerRange
  SearchUrl <- SearchPage
  NetCaps <- SomeNetCaps
  Elsewhere <- RedirectedTo
  MaxRequests = 2
  MaxBytes = 3
  Pages = {2}
  MaxLog = 2
  MaxAsked = 2
  MaxSkipped = 2
  MaxCalls = 4
  Order <- BoardThenPlans
  Packages <- SomePackages
  Builtins <- CoreOwn
  Callers <- SomeCallers
  Guests <- SomeGuests
  ToolBudget = 6
  ContextBudget = 5
  FocusedTokens = 4
  PinnedTokens = 2
  MarkerTokens = 1
  MaxVersion = 2
  MaxSteps = 3
  Passes <- KitPasses
  Counting = FALSE
  Vision = TRUE
  MayDownload = TRUE
  MaxLooks = 4
  OldDocs = {"board"}
  OldChats = {"c1", "c2"}
  MaxStarts = 3
  MaxWords = 2
  MaxMissed = 2
INVARIANTS
  ServerKeepsApart
  CompanyIsCurrent
  NothingLeavesUnasked
  HarnessesAreHeld
  MeasuredIsKept
  ValuesDecide
PROPERTY
  MigrationKeeps
CHECK_DEADLOCK FALSE

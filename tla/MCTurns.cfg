SPECIFICATION FairSpec
CONSTANTS
  ann = ann
  bob = bob
  team = team
  home = home
  Users <- MCUsers
  Workspaces <- MCWorkspaces
  MayEnter <- MCMayEnter
  Chats <- MCChats
  Slots = 1
  MaxAgentSteps = 1
  MaxTurns = 2
  MaxCalls = 1
INVARIANTS
  WorkConserved
  OneAnswerAtATime
  ApprovalsAreLive
  RunIsTheAnswers
PROPERTY
  AnswersEnd

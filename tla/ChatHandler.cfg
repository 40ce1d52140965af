CONSTANTS
  c1 = c1
  c2 = c2
  Chats = {c1, c2}
  Turns <- MCTurns
  Symbols = {"XAU", "BTC"}
  DefaultSymbol = "XAU"
  Scenarios <- MCScenarios
  Replies = {"trade", "blank", "dump"}
  NumMsgs = 3
  MaxTurns = 3
  SessionTTL = 2
  GreetedTTL = 3
  AlertActivityWindow = 2
  MaxNow = 8
  Budget = 1
SPECIFICATION FairSpec
INVARIANTS
  TypeOK
  SilenceLeavesNoTrace
  ResetHolds
  WelcomesApart
  HistoryWellFormed
  HistoryIsOneConversation
  SubscribersSpoke
  OptOutHolds
PROPERTIES
  FollowUpKeepsSymbol
  EveryMessageHandled
CHECK_DEADLOCK FALSE

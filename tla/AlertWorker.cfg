SPECIFICATION Spec
CONSTANTS
  c1 = c1
  c2 = c2
  Chats <- MCChats
  Events = {"cpi", "cpiLate", "nfp", "pmi"}
  Time <- MCTime
  Impact <- MCImpact
  PreMin = 4
  ActivePre = 2
  ActivePost = 4
  RecoverPost = 8
  Tiers = {2, 4}
  Lookahead = 5
  SentTTL = 4
  ScanSpan = 1
  MaxNow = 12
  MaxFaults = 1
  MaxChanges = 1
CHECK_DEADLOCK FALSE
SYMMETRY Symmetric
INVARIANTS
  PushedOnce
  NobodyIsMissed
  SentBounded
  WarnedMeansPaused
PROPERTIES
  WarningsTighten

SPECIFICATION Spec
CONSTANTS
  MaxVersions = 5
  MaxBubbles = 3
CHECK_DEADLOCK FALSE
INVARIANTS
  FinishShowsReply

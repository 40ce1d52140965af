SPECIFICATION FairSpec
CONSTANTS
  NumUpdates = 5
  Silent = {2}
  Cap = 1
  BatchSize = 2
  MaxBackoff = 30
  MaxCrashes = 1
INVARIANTS
  InOrderOnce
  ConfirmedIsAccountedFor
PROPERTIES
  EveryUpdateHandled

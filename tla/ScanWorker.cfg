CONSTANTS
  u1 = u1
  u2 = u2
  NoList = NoList
  Users = {u1, u2}
  Allowlists <- MCAllowlists
  Payloads <- MCPayloads
  Canonical <- MCCanonical
  Risk = 5
  Interval = 5
  LLMTimeout = 1
  SendTimeout = 1
  Retention = 4
  PruneEvery = 5
  BatchSize = 2
  MaxRows = 3
  MaxPurgeFailures = 1
  MaxNow = 20
  MaxRestarts = 1
SPECIFICATION Spec
INVARIANTS
  EveryBarScannedOnce
  EachCardOnce
  CardRiskIsTheBudget
  RetentionHolds
ACTION_CONSTRAINT
  OneAtATime
CHECK_DEADLOCK FALSE

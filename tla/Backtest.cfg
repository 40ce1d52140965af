CONSTANTS
  deepseek = deepseek
  claude = claude
  Models = {deepseek, claude}
  ChunkCap = 1
  ErrCap = 1
  CandleBudget = 2
  Window <- MCWindow
  WalkBars = 4
  Offsets <- MCOffsets
  Nows <- MCNows
  AnswerLengths = {0, 1, 2}
  TradeLength = 2
  MaxRuns = 2
  MaxFaults = 1
SPECIFICATION FairSpec
INVARIANTS
  StreamContract
  CacheStandsIn
  NoHindsight
PROPERTIES
  RunEnds
CHECK_DEADLOCK FALSE

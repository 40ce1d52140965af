SPECIFICATION Spec
CONSTANTS
  Readers <- MCReaders
  Poller = "poller"
  Scanner = "scanner"
  Schedule <- MCSchedule
  RefreshTTL = 5
  HotRefreshTTL = 2
  HotWindow = 5
  MaxNow = 11
INVARIANTS
  SingleFlight
  PollNeverSilent
  RunUpFresh
PROPERTIES
  NeverGoesBack

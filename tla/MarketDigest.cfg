SPECIFICATION Spec
CONSTANTS
    Shapes <- MCShapes
    Histories <- MCHistories
    Readings <- MCReadings
    Decisions <- MCDecisions
    TF = "M15"
    EntryTF = "M15"
    FetchLimit = 7
    LeftRight = 1
    PivotLimitEntry = 3
    PivotLimitM5 = 3
    PivotLimitH1 = 2
    RangeScanWindow = 4
    BOSScanWindow = 4
    FVGScanWindow = 4
    PatternLookback = 2
    TrendBars = 3
    ExtremeBars = 3
    MirrorPrice = 28
    MaxBars = 5
    RegimeBars = 1
CONSTRAINT OneAtATime
INVARIANTS
    TypeOK
    SwingsAgree
    Mirrored
PROPERTIES
    NeverRepaints
    StructureNeverRegresses
    VerdictIsFinal
    NeverAgainstTheBias
CHECK_DEADLOCK FALSE

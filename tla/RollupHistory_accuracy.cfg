SPECIFICATION HistoryFairSpec
CONSTANTS
    Nil = Nil
    NoRow = NoRow
    Values <- TwoValues
    Hour = 2
    HalfDay = 2
    Day = 4
    Lookback = 4
    RetainMinute = 4
    Start = 2
    MaxTime = 9
    MaxUpserts = 2
    MaxFailures = 1
INVARIANTS
    HistoryTypeOK
    SeenBucketsAccurate
PROPERTIES
    CoveredBucketsBecomeAccurate
    BeforeCutoffPreserved

SPECIFICATION Spec
CONSTANTS
    Nil = Nil
    NoRow = NoRow
    Values <- TwoValues
    Hour = 2
    HalfDay = 2
    Day = 4
    Lookback = 3
    RetainMinute = 4
    Start = 2
    MaxTime = 8
    MaxUpserts = 2
    MaxFailures = 1
PROPERTIES
    RebuildsOnlyCompleteBuckets

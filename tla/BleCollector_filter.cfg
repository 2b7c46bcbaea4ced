SPECIFICATION Spec
CONSTANTS
    Nil = Nil
    temperature = temperature
    lux = lux
    Devices = {d1}
    Metrics <- MCMetrics
    Threshold <- MCThreshold
    Values <- MCValues
    Sensible <- MCSensible
    Advertisements <- MCAdvertisements
    HistorySize = 2
    MinAccepted = 1
    ConfirmWindow = 1
    MaxTime = 3
    MaxReadings = 3
    MaxFaults = 2
INVARIANTS
    TypeOK
    NoSampleLost
    RowsAreMedians
PROPERTIES
    SpikeNeedsFollowUpOrRetry
VIEW WithoutStatus

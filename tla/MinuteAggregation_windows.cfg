SPECIFICATION FairSpec
CONSTANTS
    Nil = Nil
    battery = battery
    temperature = temperature
    Devices = {d1, d2}
    PolledDevices = {d1}
    HistoryDevices = {d1}
    Metrics <- MCMetrics
    Battery = battery
    Values <- TwoValues
    Advertisements <- TemperatureOnly
    MaxDelay = 1
    TelemetryMaxAge = 1
    MaxTime = 1
    MaxMessages = 2
    MaxPolls = 1
    MaxFailures = 1
    MaxDisconnects = 1
    MaxSignals = 1
    MaxCrashes = 1
INVARIANTS
    TypeOK
    EveryReadingKept
    PollSuccessMeansStored
    SingleWindowRowsAreMedians
PROPERTIES
    NothingErased
    WindowsGetFlushed


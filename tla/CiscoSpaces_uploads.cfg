SPECIFICATION Spec
CONSTANTS
    Nil = Nil
    temperature = temperature
    humidity = humidity
    Devices = {d1}
    Metrics <- MCMetrics
    Temperature = temperature
    Humidity = humidity
    Values <- MCValues
    Plausible <- MCPlausible
    SuspectHumidity = 100
    Telemetry <- MCTelemetry
    MaxDrop = 3
    SampleWindow = 2
    FieldFreshness = 2
    UploadInterval = 2
    Minute = 2
    MaxSkew = 2
    MaxTime = 5
    MaxEvents = 5
    MaxFailures = 1
    MaxRestarts = 1
CHECK_DEADLOCK FALSE
INVARIANTS
    TypeOK
    MediansAreCurrent
    RowsUploadedOnce

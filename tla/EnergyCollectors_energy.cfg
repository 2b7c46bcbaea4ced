SPECIFICATION Spec
CONSTANTS
    Nil = Nil
    Fetched = {"apcupsd"}
    Echonet = "echonet"
    Eojs = {"solar", "battery"}
    MetricsOf <- MCMetricsOf
    Export <- MCExport
    FirstTid = 0
    Tids = 3
    Retention = 0
    BatchSize = 2
    MaxTime = 1
    MaxPolls = 2
    MaxInfs = 1
    MaxFrames = 1
    MaxFaults = 1
    MaxImports = 2
VIEW WithoutStatus
CHECK_DEADLOCK FALSE
INVARIANTS
    TypeOK
    SuccessIsStored
    ImportIsWhole
PROPERTIES
    LateAnswersSkipped

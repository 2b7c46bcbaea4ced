SPECIFICATION Spec
CONSTANTS
    Nil = Nil
    m1 = m1
    m2 = m2
    Workers = {w1}
    Devices <- TwoDevices
    Values <- HotCold
    RuleConfigs <- HeldMoved
    RetainMinute = 3
    RetainEvents = 3
    MaxRules = 1
    MaxTime = 2
    MaxFailures = 0
    MaxCrashes = 0
    MaxDrops = 0
PROPERTIES
    DurationMeasuredOnDevice

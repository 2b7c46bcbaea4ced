SPECIFICATION FairSpec
CONSTANTS
    Nil = Nil
    m1 = m1
    m2 = m2
    Workers = {w1, w2}
    Devices <- OneDevice
    Values <- JustHot
    RuleConfigs <- OnOff
    RetainMinute = 2
    RetainEvents = 2
    MaxRules = 1
    MaxTime = 1
    MaxFailures = 0
    MaxCrashes = 1
    MaxDrops = 0
INVARIANTS
    SingleEvaluator
PROPERTIES
    DisabledAlertResolves
    EveryReadingEvaluated

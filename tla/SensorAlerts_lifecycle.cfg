SPECIFICATION Spec
CONSTANTS
    Nil = Nil
    m1 = m1
    m2 = m2
    Workers = {w1}
    Devices <- OneDevice
    Values <- HotCold
    RuleConfigs <- HeldOrOff
    RetainMinute = 1
    RetainEvents = 1
    MaxRules = 1
    MaxTime = 2
    MaxFailures = 1
    MaxCrashes = 0
    MaxDrops = 1
INVARIANTS
    TypeOK
    EventsMatchState
    EventsAlternate
    FiringAlertHasEvent
    ResolvedAfterFired
    StatesWellFormed
PROPERTIES
    FiringEndsByEvent
    ImplementsLifecycle
VIEW NewestRows

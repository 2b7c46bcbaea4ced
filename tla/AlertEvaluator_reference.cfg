SPECIFICATION HistorySpec
CONSTANTS
    Nil = Nil
    Rules <- TestRules
    RuleValues <- TestValues
    MaxNow = 4
    MaxSeen = 4
INVARIANTS
    StatusMatchesHistory
    PendingSinceStartsRun

SPECIFICATION FairSpec
CONSTANTS
    Nil = Nil
    ble = ble
    spaces1 = spaces1
    spaces2 = spaces2
    Devices = {d1}
    Procs <- MCProcs
    Source <- MCSource
    Spaces = "cisco_spaces"
    StaleAfter = 1
INVARIANTS
    TypeOK
    OneFirehoseWriter
PROPERTIES
    WritesOnlyByOwner
    OwnerChangesByOperator
    SilenceShows
    DownStreamShows

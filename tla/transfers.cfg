SPECIFICATION TransfersSpec
CONSTANTS
    Ranges = {k1, k2}
    Callers = {a, b}
    None = None
    MaxBytes = 2
    ChunkEvents = {"fetch_fails", "hang_up", "disk_full", "remove_fails", "restart"}
    Channels = {c1}
    Self = Self
    MaxId = 3
    Page = 2
    MaxLoops = 2
    MaxTexts = 2
    MaxStops = 1
    ImportEvents = {"store_fails", "delete", "switch"}
INVARIANTS
    TransfersTypeOK
    OneFetchPerRange
    FollowersAreAwaited
    NeverOvercounts
    ImportedOnce
    NothingPassedOver
PROPERTIES
    PutWithinBudget
    CallersReturn
    NoReimport
    OnlyTextHidesFiles
CHECK_DEADLOCK FALSE

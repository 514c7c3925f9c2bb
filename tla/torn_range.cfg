SPECIFICATION ChunkSpec
CONSTANTS
    Ranges = {k1}
    Callers = {a}
    None = None
    MaxBytes = 2
    ChunkEvents = {"restart"}
INVARIANTS RangesAreWhole
CHECK_DEADLOCK FALSE

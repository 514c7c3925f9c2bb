SPECIFICATION ServicesSpec
CONSTANTS
    Dirs = {dir1, dir2}
    Leaves = {leaf1, leaf2}
    Data = {x1, x2}
    Hole = Hole
    NumHandles = 2
    NumBlocks = 1
    MaxRenames = 1
    NumMounters = 2
    NumAttempts = 2
    MaxUnmounts = 1
    NumProcesses = 3
    MaxSaves = 1
    Askers = {asker1, asker2}
    NumLogins = 2
INVARIANTS
    ServicesTypeOK
    SavedOrKept
    StatusTellsTheTruth
PROPERTIES
    MountEnds
    CancelReturns
CHECK_DEADLOCK FALSE

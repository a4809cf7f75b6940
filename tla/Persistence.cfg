SPECIFICATION Spec
CONSTANTS
    p1 = p1
    p2 = p2
    t1 = t1
    t2 = t2
    None = None
    Processes <- MCProcesses
    Tasks <- MCTasks
    Offsets <- UtcAndEast
    Limit = 1
    MaxClock = 1
    MaxCheckpoints = 2
    MaxSaves = 2
    MaxAudit = 1
INVARIANTS
    StoredOnce
    FreshLoad
PROPERTIES
    LoadsMonotonic
SYMMETRY MCSymmetry
CHECK_DEADLOCK FALSE

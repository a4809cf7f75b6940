SPECIFICATION Spec
CONSTANTS
    p1 = p1
    p2 = p2
    t1 = t1
    t2 = t2
    None = None
    Processes <- Nobody
    Tasks <- OneTask
    Offsets <- UtcOnly
    Limit = 2
    MaxClock = 3
    MaxCheckpoints = 0
    MaxSaves = 1
    MaxAudit = 4
INVARIANTS
    RecentMeansNewest
CHECK_DEADLOCK FALSE

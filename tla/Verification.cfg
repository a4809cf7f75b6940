SPECIFICATION Spec
CONSTANTS
    None = None
    i1 = i1
    i2 = i2
    v1 = v1
    v2 = v2
    Ids <- MCIds
    Values <- MCValues
    Scores <- MCScores
    Cases <- MCCases
    MaxPolls = 2
INVARIANTS
    SatisfiedIsSeen
    UnsatisfiedIsDefinite
    AbortOnFullSight
PROPERTIES
    StaysSatisfied
CHECK_DEADLOCK FALSE

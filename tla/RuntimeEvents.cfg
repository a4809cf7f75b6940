SPECIFICATION Spec
CONSTANTS
    k1 = k1
    k2 = k2
    r1 = r1
    r2 = r2
    NoKey = NoKey
    Keys <- MCKeys
    RegionIds <- MCRegions
    Contents <- MCContents
    MaxEvents = 5
INVARIANTS
    SourcesAccountedFor
    OneEntryPerKey
    EntriesAnswerSources
PROPERTIES
    ImplementsIntake
CHECK_DEADLOCK FALSE

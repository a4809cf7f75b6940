SPECIFICATION Spec
CONSTANTS
    c1 = c1
    c2 = c2
    Callers <- MCCallers
    Harnesses <- MCHarnesses
    MaxRuns = 3
INVARIANTS
    CompletedRunExact
    MissingExplained
    OwnRecovery
PROPERTIES
    RunReturns
CHECK_DEADLOCK FALSE

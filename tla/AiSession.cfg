CONSTANTS
    CandidateIds = {1, 2, 3, 4, 5}
    Labels = {"button", "tab"}
    Names = {"ok", "cancel"}
    Policy <- MCPolicy
    MaxRetries = 2
    Replies <- MCReplies
    Screens <- MCScreens
    ViewSignals = {"available", "partial", "absent"}
    PlannerContracts <- MCPlannerContracts
    ResolverContracts <- MCResolverContracts
    LiveAllowed = TRUE
    MaxFrames = 2
SPECIFICATION Spec
INVARIANTS
    OverrideJustified
    OrderIrrelevant
    RetryDiscipline
    StepsWithinSummary
PROPERTIES
    AnswersFitScreen
    LookEnds
CHECK_DEADLOCK FALSE

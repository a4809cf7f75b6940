SPECIFICATION Spec
CONSTANTS
    CandidateIds = {1, 2}
    Classes = {"button_like", "other"}
    MaxScore = 3
    ClickScore = 2
    MaxRank = 2
    Places = {"left", "right", "line"}
    Degenerate = {"line"}
    Scenarios <- MCScenarios
    Configs <- MCConfigs
    Policies <- MCPolicies
    Screens <- MCScreens
    MaxRuns = 2
    MaxToggles = 2
INVARIANTS
    TypeOK
    ClickJustified
    ClicksReported
    VerifiedAcrossClick
    StagesAgree
    CompletedMeansVerified
PROPERTIES
    FollowsTable
    HaltHonoured
CHECK_DEADLOCK FALSE

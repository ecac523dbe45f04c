SPECIFICATION PackageSpec
CONSTANTS
    Listed <- MCListed
    IntLevels <- MCIntLevels
    Compared <- MCCompared
    MaxLeaves = 3
    Tests <- MCTests
    Calls <- MCCalls
    Problems <- MCProblems
    Questions <- MCQuestions
    MayOverlap <- MCMayOverlap
    Solution <- MCSolution
    c1 = c1
    c2 = c2
INVARIANTS
    DiagramExact
    CompletionExact
    CacheSound
PROPERTY
    ImplementsQuery
CHECK_DEADLOCK FALSE

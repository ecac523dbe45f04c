SPECIFICATION FairSpec
CONSTANTS
    NumValues <- UniformValues
    Relations <- UniformRelations
    ConstraintSets <- TwoForbiddenPairs
    SeedSets <- UniformSeeds
    ReplaceDontCare = TRUE
INVARIANTS
    TypeOK
    TestsExtendable
    CoveredMarksSound
    ValidMarksSound
    ListsPartitionTests
    ProgressExact
PROPERTIES
    ValuesKept
    ResultDelivered

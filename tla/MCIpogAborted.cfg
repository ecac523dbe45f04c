SPECIFICATION Spec
CONSTANTS
    NumValues <- UniformValues
    Relations <- UniformRelations
    ConstraintSets <- TwoForbiddenPairs
    SeedSets <- NoSeeds
    ReplaceDontCare = TRUE
INVARIANTS
    ReportedParametersAreComplete

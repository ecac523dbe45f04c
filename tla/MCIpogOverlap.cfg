SPECIFICATION Spec
CONSTANTS
    NumValues <- OverlapValues
    Relations <- OverlapRelations
    ConstraintSets <- NoConstraints
    SeedSets <- NoSeeds
    ReplaceDontCare = TRUE
INVARIANTS
    ProcessedWithinTarget

SPECIFICATION MapsSpec
CONSTANTS
    NumValues <- MixedValues
    Relations <- MixedRelations
    ConstraintSets <- MixedConstraints
    SeedSets <- MixedSeeds
    ReplaceDontCare = FALSE
    WordBits = 4
INVARIANTS
    ProcessedParametersCovered
    MissingExact
    SomeRelationAtParameter
    MapsExact
PROPERTY
    ImplementsJob

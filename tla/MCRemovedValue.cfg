SPECIFICATION Spec
CONSTANTS
    NumValues <- RemovedValues
    Relations <- RemovedRelations
    ConstraintSets <- NoConstraints
    SeedSets = {}
    KeptValues <- RemovedKept
    TestSets <- RemovedTests
INVARIANT InvalidTestsReported

SPECIFICATION Spec
CONSTANTS
    NumValues <- SharedValues
    Relations <- SharedRelations
    ConstraintSets <- SharedConstraints
    SeedSets = {}
    KeptValues <- SharedKept
    TestSets <- SharedTests
INVARIANTS MeasuredProgress FunctorCountsExact
PROPERTY ImplementsMeasurement

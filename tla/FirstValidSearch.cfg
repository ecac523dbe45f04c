SPECIFICATION FairSpec
CONSTANTS
    MaxTests = 6
    LeafSize = 2
INVARIANTS
    TypeOK
    FirstTestReturned
    TestsUntouched
    PointerMatchesIndex
PROPERTIES
    ImplementsAnswer
    SearchEnds

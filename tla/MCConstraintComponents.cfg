SPECIFICATION Spec
CONSTANTS
    Params <- MCParams
    Dom <- MCDom
    Inputs <- MCInputs
    Exprs <- MCExprs
    Plain <- MCPlain
    Depth <- MCDepth
    Eval <- EvalAll
    IntParams <- MCIntParams
    Listings <- MCListings
    DiagramAdmits <- AdmitsAll
    CollectedParams <- CollectAll
    Resolve <- ResolveAll
    Flat <- FlattenAll
    Simplified <- SimplifyAll
INVARIANTS
    TypeOK
    NoAllowedTestLost
    ComponentsIndependent
    ValidityExact
    ValidValuesExact
    CompletionsAllowed
PROPERTIES
    SetUpEnds

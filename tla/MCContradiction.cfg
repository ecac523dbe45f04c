SPECIFICATION Spec
CONSTANTS
    Params <- MCParams
    Dom <- MCDom
    Inputs <- MCContradiction
    Exprs <- MCExprs
    Plain <- MCPlain
    Depth <- MCDepth
    Eval <- EvalAll
    IntParams <- MCIntParams
    Listings <- MCListings
    DiagramAdmits <- AdmitsAll
    CollectedParams <- CollectAll
    Resolve <- ResolveAll
    Flat <- FlattenAll
    Simplified <- SimplifyAll
INVARIANTS
    GeneratedTestsSatisfyConstraints

\* Coherent tree with orders 1-3, no pruning: FindMCS levels, inclusion-exclusion cut after
\* nsums 2, and the rare event and MCUB approximations.
CONSTANTS
    Primaries <- CoherentPrimaries
    Gates <- CoherentGates
    Top = "top"
    GateDef <- CoherentDef
    Prob <- CoherentProb
    Denom = 2
    LimitOrder = 5
    NSums = 2
    ApproxArgs = {"no", "rare", "mcub"}
    AnalysisArgs = {"default"}
    ProbRequestedArgs = {TRUE}
    AnalyzeCalls = 1
SPECIFICATION Spec
\* Analyze returns: the final state has no successor.
CHECK_DEADLOCK FALSE
INVARIANTS
    MCSMinimal
    TruncationBound
    RareUpperBound
    McubUpperBound

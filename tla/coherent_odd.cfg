\* Coherent tree with four minimal cut sets, no pruning: inclusion-exclusion cut
\* after nsums 3, an odd number of sums.
CONSTANTS
    Primaries <- CoherentPrimaries
    Gates <- CoherentGates
    Top = "top"
    GateDef <- CoherentDef
    Prob <- CoherentProb
    Denom = 2
    LimitOrder = 5
    NSums = 3
    ApproxArgs = {"no"}
    AnalysisArgs = {"default"}
    ProbRequestedArgs = {TRUE}
    AnalyzeCalls = 1
SPECIFICATION Spec
\* Analyze returns: the final state has no successor.
CHECK_DEADLOCK FALSE
INVARIANTS
    TruncationBound

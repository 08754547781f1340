\* Coherent tree with limit 2: the pruned result is exactly the minimal sets of order 2 or less.
CONSTANTS
    Primaries <- CoherentPrimaries
    Gates <- CoherentGates
    Top = "top"
    GateDef <- CoherentDef
    Prob <- CoherentProb
    Denom = 4
    LimitOrder = 2
    NSums = 7
    ApproxArgs = {"no"}
    AnalysisArgs = {"default"}
    ProbRequestedArgs = {FALSE}
    AnalyzeCalls = 1
SPECIFICATION Spec
\* Analyze returns: the final state has no successor.
CHECK_DEADLOCK FALSE
INVARIANTS
    TypeOK
PROPERTIES
    MCSRefinement

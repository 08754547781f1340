\* Rare event total and Monte Carlo terms when Analyze is called twice on one object.
CONSTANTS
    Primaries <- N1Primaries
    Gates <- N1Gates
    Top = "top"
    GateDef <- N1Def
    Prob <- NProb
    Denom = 4
    LimitOrder = 3
    NSums = 10
    ApproxArgs = {"rare"}
    AnalysisArgs = {"default", "mc"}
    ProbRequestedArgs = {TRUE}
    AnalyzeCalls = 2
SPECIFICATION Spec
\* Analyze returns: the final state has no successor.
CHECK_DEADLOCK FALSE
INVARIANTS
    TotalsOfThisCall

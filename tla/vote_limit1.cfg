\* Spec scenario D on a 2-of-3 vote over gates: limit 1 leaves no cut set.
CONSTANTS
    Primaries <- VoteGatedPrimaries
    Gates <- VoteGatedGates
    Top = "top"
    GateDef <- VoteGatedDef
    Prob <- VoteGatedProb
    Denom = 4
    LimitOrder = 1
    NSums = 10
    ApproxArgs = {"no"}
    AnalysisArgs = {"default"}
    ProbRequestedArgs = {TRUE}
    AnalyzeCalls = 1
SPECIFICATION Spec
\* Analyze returns: the final state has no successor.
CHECK_DEADLOCK FALSE
INVARIANTS
    CoherentExact

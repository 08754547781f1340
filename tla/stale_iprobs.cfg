\* Analyze without probabilities, then with them, on the same object: iprobs_ grows.
CONSTANTS
    Primaries <- N1Primaries
    Gates <- N1Gates
    Top = "top"
    GateDef <- N1Def
    Prob <- NProb
    Denom = 4
    LimitOrder = 3
    NSums = 10
    ApproxArgs = {"no"}
    AnalysisArgs = {"default"}
    ProbRequestedArgs = {FALSE, TRUE}
    AnalyzeCalls = 2
SPECIFICATION Spec
\* Analyze returns: the final state has no successor.
CHECK_DEADLOCK FALSE
INVARIANTS
    ExactProbability

\* Non-coherent tree 1, exact quantification, Analyze called twice on the same object.
CONSTANTS
    Primaries <- N1Primaries
    Gates <- N1Gates
    Top = "top"
    GateDef <- N1Def
    Prob <- NProb
    Denom = 4
    LimitOrder = 3
    NSums = 10
    ApproxArgs = {"no"}
    AnalysisArgs = {"default"}
    ProbRequestedArgs = {TRUE}
    AnalyzeCalls = 2
SPECIFICATION Spec
\* Analyze returns: the final state has no successor.
CHECK_DEADLOCK FALSE
INVARIANTS
    MCSSound
    MCSComplete
    ExactProbability

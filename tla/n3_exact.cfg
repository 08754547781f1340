\* Non-coherent tree 3: XOR, NOT, INHIBIT, NULL expansions, Monte Carlo terms, and termination.
CONSTANTS
    Primaries <- N3Primaries
    Gates <- N3Gates
    Top = "top"
    GateDef <- N3Def
    Prob <- NProb
    Denom = 4
    LimitOrder = 3
    NSums = 10
    ApproxArgs = {"no"}
    AnalysisArgs = {"default", "mc"}
    ProbRequestedArgs = {TRUE}
    AnalyzeCalls = 1
SPECIFICATION Spec
\* Analyze returns: the final state has no successor.
CHECK_DEADLOCK FALSE
INVARIANTS
    MCSSound
    MCSComplete
    MCTermsExact
PROPERTIES
    Termination

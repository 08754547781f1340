\* Non-coherent tree 2: INHIBIT, VOTE, NULL, AND, NAND expansions under both polarities;
\* Analyze called twice, checked against the abstract MCS analysis.
CONSTANTS
    Primaries <- N2Primaries
    Gates <- N2Gates
    Top = "top"
    GateDef <- N2Def
    Prob <- NProb
    Denom = 4
    LimitOrder = 3
    NSums = 10
    ApproxArgs = {"no"}
    AnalysisArgs = {"default"}
    ProbRequestedArgs = {TRUE}
    AnalyzeCalls = 2
SPECIFICATION Spec
\* Analyze returns: the final state has no successor.
CHECK_DEADLOCK FALSE
INVARIANTS
    MCSSound
    MCSComplete
PROPERTIES
    MCSRefinement

\* Three gates, a basic event and a house event; formulas of one or two arguments.
CONSTANTS
    GateOrder <- MCGateOrder
    BasicEvents = {"e1"}
    HouseEvents = {"h"}
    MaxArgs = 2
    LeafWidth = 14
    Space = 2
    NoGate = NoGate
SPECIFICATION Spec
INVARIANTS
    SceneCurrent
    TransferScheme
    NoOverlap

SPECIFICATION Spec
CHECK_DEADLOCK FALSE
CONSTANTS
    Faults = {"lose"}
    MaxFaults = 2
    Reference = 3
    HandshakeZ = 0
    Refused = {"relative", "z", "absolute"}
    Distance = 2
    Hop = 1
    Cycles = 2
    HopCycles = 1
    SweepCycles = 1
    SelectorCycles = 1
    Tries = {1, 2}
    PromptsSettle = FALSE
    MaxRetransmits = 2
INVARIANTS
    TypeOK
    SingleKeepsReference
    EndsWhereReported
    MovesAreUnwound
    HopsEndAtBase
PROPERTIES
    CarriageMovesClear

SPECIFICATION Spec
CHECK_DEADLOCK FALSE
CONSTANTS
    Faults = {}
    MaxFaults = 0
    Reference = 3
    HandshakeZ = 0
    Refused = {}
    Distance = 2
    Hop = 1
    Cycles = 1
    HopCycles = 1
    SweepCycles = 1
    SelectorCycles = 1
    Tries = {2}
    PromptsSettle = TRUE
    MaxRetransmits = 2
INVARIANTS
    NeverPastReference

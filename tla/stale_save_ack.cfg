SPECIFICATION Spec
CONSTANTS
    ByteBits = 1
    OffsetBytes = 3
    MaxPayload = 3
    Marker = {0}
    MaxSymbols = 5
    MaxName = 12
    Faults = {"lose"}
    MaxFaults = 2
    OldSizes = {0}
    ResendAt = {0}
    HelloReplies = {"okHello"}
    CreateReplies = {"ok", "error"}
    SaveReplies = {"ok", "saved"}
    StaleReplies = {}
    Total = 3
    BlockSize = 2
    Retries = 2
    MaxResends = 1
    MaxOffset = 10
    LocalSizes = {3}
INVARIANTS
    SuccessMeansSaved

SPECIFICATION FairSpec
CONSTANTS
    ByteBits = 1
    OffsetBytes = 3
    MaxPayload = 3
    Marker = {0}
    MaxSymbols = 5
    MaxName = 12
    Faults = {"lose", "duplicate", "reorder", "corrupt", "splice"}
    MaxFaults = 2
    OldSizes = {0, 4}
    ResendAt = {0, 2}
    HelloReplies = {"hello", "okHello"}
    CreateReplies = {"ok", "error"}
    SaveReplies = {"ok", "saved"}
    StaleReplies = {"okHello"}
    Total = 4
    BlockSize = 2
    Retries = 2
    MaxResends = 1
    MaxOffset = 2
    LocalSizes = {1, 4}
INVARIANTS
    StoredInPlace
PROPERTIES
    Terminates

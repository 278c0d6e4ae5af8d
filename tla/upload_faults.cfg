SPECIFICATION Spec
CONSTANTS
    ByteBits = 2
    OffsetBytes = 3
    MaxPayload = 3
    Marker = {0, 1}
    MaxSymbols = 5
    MaxName = 12
    Faults = {"lose", "duplicate", "corrupt", "splice"}
    MaxFaults = 2
    OldSizes = {0}
    ResendAt = {2}
    HelloReplies = {"okHello"}
    CreateReplies = {"ok", "error"}
    SaveReplies = {"ok", "saved"}
    StaleReplies = {"okHello"}
    Total = 5
    BlockSize = 2
    Retries = 2
    MaxResends = 2
    MaxOffset = 10
    LocalSizes = {3, 5}
INVARIANTS
    TypeOK
    SuccessMeansComplete
    SentOncePerResend
    FailureCloses
    FramesAreExact
    NamesAgree
PROPERTIES
    ImplementsTransfer

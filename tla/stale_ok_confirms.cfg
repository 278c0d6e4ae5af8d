SPECIFICATION Spec
CONSTANTS
    Files = {f1, f2}
    Encoding = utf8
    Nothing = Nothing
    Retries = 2
    MaxCalls = 3
    MaxPrints = 0
    HelloReplies = {"okHello"}
    StatusForms = {"okFull", "short"}
    NameReplies = {"name", "ok", "error"}
    Refusals = {"error", "other"}
    Faults = {}
    MaxFaults = 0
INVARIANTS
    ConfirmationIsOwn

SPECIFICATION Spec
CONSTANTS
    Call = {c1, c2}
    Original = {o1, o2}
    Initiator = {"mcp", "cli"}
    CheckedSchema = TRUE
    MaxTokens = 1
    Recent = 2
    MaxOthers = 1
    MaxClock = 1
    None = None
CHECK_DEADLOCK FALSE
INVARIANTS
    ReplayInv
    FoundIsNew
PROPERTIES
    OwnRowIsSeen
    ReplaysEnd

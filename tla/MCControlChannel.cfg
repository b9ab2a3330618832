SPECIFICATION Spec
CONSTANTS
    c1 = c1
    c2 = c2
    c3 = c3
    Call = {c1, c2, c3}
    Socket = {s1, s2}
    Pieces <- TwoThreeOne
    Slow = {c2}
    Oversized = {c3}
    MaxBuffer = 2
    MaxStops = 1
    MaxCloses = 1
    None = None
CHECK_DEADLOCK FALSE
INVARIANTS
    ChannelInv
    AnswersAreOwn
PROPERTIES
    SentCallsSettle

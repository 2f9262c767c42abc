SPECIFICATION FairSpec
CONSTANTS
    p1 = p1
    p2 = p2
    Nothing = Nothing
    Stored <- MCStored
    Pairs = {p1, p2}
    Objectives = {"old"}
    CallsMayFail = TRUE
    MaxSaved = 2
    MaxCalls = 1
    MaxLoads = 1
INVARIANTS
    ScreenIsOfThePair
PROPERTIES
    ReopenSettles
CHECK_DEADLOCK FALSE

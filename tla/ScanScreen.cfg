SPECIFICATION FairSpec
CONSTANTS
    p1 = p1
    p2 = p2
    r1 = r1
    r2 = r2
    Paths = {p1, p2}
    Root <- MCRoot
    Nested = {p2}
    Recent = {r1}
    Nothing = Nothing
    CallsMayFail = TRUE
    MaxJobs = 2
    MaxCalls = 2
PROPERTIES
    ScansWhatThePathSays
    FollowedScansAreShown

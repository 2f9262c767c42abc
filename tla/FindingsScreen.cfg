SPECIFICATION Spec
CONSTANTS
    f1 = f1
    f2 = f2
    Queue <- MCQueue
    Decisions = {"dismissed"}
    New = "new"
    Filters = {"all"}
    AllFindings = "all"
    Nothing = Nothing
    PageSize = 2
    MaxVersion = 2
    MaxLists = 2
    MaxDetails = 1
    MaxOthers = 1
    CallsMayFail = TRUE
INVARIANTS
    DetailIsOfSelection
    RefreshFollowsSave
PROPERTIES
    QueueMovesForward

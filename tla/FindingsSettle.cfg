SPECIFICATION FairSpec
CONSTANTS
    f1 = f1
    f2 = f2
    Queue <- MCQueue
    Decisions = {"dismissed"}
    New = "new"
    Filters = {"all", "new"}
    AllFindings = "all"
    Nothing = Nothing
    PageSize = 1
    MaxVersion = 1
    MaxLists = 1
    MaxDetails = 0
    MaxOthers = 2
    CallsMayFail = TRUE
PROPERTIES
    QueueSettles

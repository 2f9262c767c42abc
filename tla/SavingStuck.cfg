SPECIFICATION Spec
CONSTANTS
    f1 = f1
    f2 = f2
    Queue <- MCQueue
    Decisions = {"dismissed"}
    New = "new"
    Filters = {"all"}
    AllFindings = "all"
    Nothing = Nothing
    PageSize = 2
    MaxVersion = 1
    MaxLists = 1
    MaxDetails = 1
    MaxOthers = 0
    CallsMayFail = FALSE
INVARIANTS
    SavingMeansAnOpenSave

SPECIFICATION FairJobSpec
CONSTANTS
    a1 = a1
    a2 = a2
    a3 = a3
    r1 = r1
    f1 = f1
    s1 = s1
    s2 = s2
    Repositories = {r1}
    Analyses = {a1, a2}
    Findings = {f1}
    Snapshots = {s1, s2}
    Owner <- MCOwner
    Content <- MCContent
    Decisions = {"dismissed"}
    ProgressPhases = {"analysis", "relationships", "findings", "storage", "completed"}
    NoRepository = NoRepository
    NoSnapshot = NoSnapshot
    MaxSaves = 3
    MaxDecisions = 0
    Disturbances = {"failure"}
    MaxWorkers = 1
    MaxCrashes = 1
INVARIANTS
    CompletedAnswersAreStored
PROPERTIES
    AnswersAreFinal
    JobsEnd
CHECK_DEADLOCK FALSE

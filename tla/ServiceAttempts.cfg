SPECIFICATION FairServiceSpec
CONSTANTS
    a1 = a1
    a2 = a2
    a3 = a3
    r1 = r1
    f1 = f1
    f2 = f2
    s1 = s1
    s2 = s2
    s3 = s3
    Repositories = {r1}
    Analyses = {a1, a2}
    Findings = {f1, f2}
    Snapshots = {s1, s2, s3}
    Owner <- MCOwner
    Content <- MCContent
    Decisions = {"dismissed"}
    ProgressPhases = {"analysis", "relationships", "findings", "storage", "completed"}
    NoRepository = NoRepository
    NoSnapshot = NoSnapshot
    MaxSaves = 3
    MaxDecisions = 1
    Disturbances = {"cancel", "failure", "final-report", "handler", "death"}
INVARIANTS
    FindingsFollowNewestReconciliation
    SummaryIsTruthful
PROPERTIES
    AttemptsEnd
CHECK_DEADLOCK FALSE

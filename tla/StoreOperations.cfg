SPECIFICATION Spec
CONSTANTS
    a1 = a1
    a2 = a2
    r1 = r1
    r2 = r2
    f1 = f1
    f2 = f2
    g1 = g1
    s1 = s1
    s2 = s2
    s3 = s3
    s4 = s4
    t1 = t1
    Repositories = {r1, r2}
    Analyses = {a1, a2}
    Findings = {f1, f2, g1}
    Snapshots = {s1, s2, s3, s4, t1}
    Owner <- MCOwner
    Content <- MCContent
    Decisions = {"dismissed"}
    ProgressPhases = {"storage"}
    NoRepository = NoRepository
    NoSnapshot = NoSnapshot
    MaxSaves = 3
    MaxDecisions = 2
SYMMETRY AnalysisSymmetry
INVARIANTS
    EvidenceBacksFindings
    HistoryExplainsFindings
    DecisionsAreRecorded
PROPERTIES
    OnlyNewestCompleteScanResolves
    ImplementsLedger

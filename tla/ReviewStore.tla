----------------------------- MODULE ReviewStore -----------------------------
(***************************************************************************)
(* The part of the SQLite store (zscripts/infrastructure/snapshot_store.py)*)
(* that decides what a scan means: analysis attempts, immutable snapshots, *)
(* the lifecycle of findings, human review decisions and their history.    *)
(*                                                                         *)
(* Every operation of SnapshotStore that writes runs between BEGIN         *)
(* IMMEDIATE and COMMIT, so SQLite serialises the writers of all threads   *)
(* and processes: an operation is one action.  A transaction that raises   *)
(* rolls back, which is a stuttering step here; what its caller does then  *)
(* belongs to ReviewService.  Spec lets the callers issue any operation in *)
(* any order.                                                              *)
(*                                                                         *)
(* A snapshot identifier is a digest of the snapshot's content, so Content *)
(* is a constant function of the identifier.                               *)
(***************************************************************************)
EXTENDS Naturals, Sequences

CONSTANTS
    Repositories,  \* repository identifiers
    Analyses,      \* analysis identifiers, never reused (AUTOINCREMENT)
    Findings,      \* finding identifiers: a hash that includes the repository
    Snapshots,     \* snapshot identifiers
    Content,       \* what each snapshot holds
    Owner,         \* the repository of each finding
    Decisions,     \* the review statuses a reviewer may set
    ProgressPhases,\* the phases an analysis may report
    NoRepository,
    NoSnapshot,
    MaxSaves,      \* bound: snapshot promotions in a behaviour
    MaxDecisions   \* bound: accepted decisions per finding

SnapshotContent ==
    [repository : Repositories, findings : SUBSET Findings,
     truncated : BOOLEAN, parseGaps : BOOLEAN]

ASSUME ContentAssumption ==
    /\ Content \in [Snapshots -> SnapshotContent]
    /\ Owner \in [Findings -> Repositories]
    /\ \A s \in Snapshots : \A f \in Content[s].findings :
           Owner[f] = Content[s].repository

ASSUME NullAssumption ==
    /\ NoSnapshot \notin Snapshots
    /\ NoRepository \notin Repositories

ASSUME BoundAssumption == MaxSaves \in Nat /\ MaxDecisions \in Nat

VARIABLES
    latestGeneration,  \* repositories.latest_analysis_generation
    analyses,          \* the analyses table
    snapshots,         \* the snapshots table, with its child rows
    findings,          \* the findings table
    reviews,           \* the finding_reviews table
    events,            \* the finding_review_events of each finding, in order
    saves              \* promotions so far, for the bound only

lifecycle == <<findings, reviews, events>>
storeVars == <<latestGeneration, analyses, snapshots, findings, reviews, events, saves>>

AnalysisStates == {"absent", "started", "completed", "failed", "cancelled"}

SkipReasons ==
    {"none", "superseded-by-newer-analysis", "truncated-scan", "parse-gaps"}

AnalysisRow ==
    [state : AnalysisStates,
     phase : ProgressPhases \cup {"none", "discovery", "completed", "failed", "cancelled"},
     repository : Repositories \cup {NoRepository},
     generation : Nat,
     snapshot : Snapshots \cup {NoSnapshot},
     reconciled : BOOLEAN,
     skipReason : SkipReasons]

AbsentAnalysis ==
    [state |-> "absent", phase |-> "none", repository |-> NoRepository,
     generation |-> 0, snapshot |-> NoSnapshot, reconciled |-> FALSE,
     skipReason |-> "none"]

FindingRow ==
    [state : {"absent", "active", "resolved"},
     firstSeen : Snapshots \cup {NoSnapshot},
     lastSeen : Snapshots \cup {NoSnapshot},
     resolvedIn : Snapshots \cup {NoSnapshot}]

AbsentFinding ==
    [state |-> "absent", firstSeen |-> NoSnapshot, lastSeen |-> NoSnapshot,
     resolvedIn |-> NoSnapshot]

ReviewStatuses == Decisions \cup {"new"}

ReviewRow == [status : ReviewStatuses, version : Nat]

LifecycleEvents ==
    {"finding-first-seen", "finding-evidence-updated",
     "finding-resolved", "finding-reactivated"}

Event ==
    [type : LifecycleEvents \cup {"review-decision-changed"},
     snapshot : Snapshots \cup {NoSnapshot},
     status : ReviewStatuses,
     version : Nat]

LifecycleEvent(type, s) ==
    [type |-> type, snapshot |-> s, status |-> "new", version |-> 0]

TypeOK ==
    /\ latestGeneration \in [Repositories -> Nat]
    /\ analyses \in [Analyses -> AnalysisRow]
    /\ snapshots \in SUBSET Snapshots
    /\ findings \in [Findings -> FindingRow]
    /\ reviews \in [Findings -> ReviewRow]
    /\ events \in [Findings -> Seq(Event)]
    /\ saves \in Nat

Init ==
    /\ latestGeneration = [r \in Repositories |-> 0]
    /\ analyses = [a \in Analyses |-> AbsentAnalysis]
    /\ snapshots = {}
    /\ findings = [f \in Findings |-> AbsentFinding]
    /\ reviews = [f \in Findings |-> [status |-> "new", version |-> 0]]
    /\ events = [f \in Findings |-> <<>>]
    /\ saves = 0

-----------------------------------------------------------------------------
(* Analysis attempts *)

NextGeneration(r) == latestGeneration[r] + 1

\* The primary key of the row admits one begin_analysis per identifier.
BeginAnalysis(a, r) ==
    /\ analyses[a].state = "absent"
    /\ latestGeneration' = [latestGeneration EXCEPT ![r] = NextGeneration(r)]
    /\ analyses' = [analyses EXCEPT ![a] =
           [AbsentAnalysis EXCEPT !.state = "started", !.phase = "discovery",
                                  !.repository = r,
                                  !.generation = NextGeneration(r)]]
    /\ UNCHANGED <<snapshots, findings, reviews, events, saves>>

\* An UPDATE by identifier: it does not look at the state of the row.
UpdateProgress(a, phase) ==
    /\ analyses[a].state # "absent"
    /\ analyses' = [analyses EXCEPT ![a].phase = phase]
    /\ UNCHANGED <<latestGeneration, snapshots, findings, reviews, events, saves>>

\* Likewise: a completed row can be finished as failed, and keeps its snapshot.
FinishAnalysis(a, outcome) ==
    /\ outcome \in {"cancelled", "failed"}
    /\ analyses[a].state # "absent"
    /\ analyses' = [analyses EXCEPT ![a].state = outcome, ![a].phase = outcome]
    /\ UNCHANGED <<latestGeneration, snapshots, findings, reviews, events, saves>>

-----------------------------------------------------------------------------
(* Promotion of a completed snapshot and reconciliation of the findings *)

\* (Mutation: any attempt with a generation may reconcile.)
BugEveryAttemptAuthoritative(a) == analyses[a].generation > 0

Authoritative(a) ==
    analyses[a].generation = latestGeneration[analyses[a].repository]

\* (Mutation: a truncated scan counts as complete.)
BugTruncatedIsComplete(a, s) ==
    IF ~Authoritative(a) THEN "superseded-by-newer-analysis"
    ELSE IF Content[s].parseGaps THEN "parse-gaps"
    ELSE "none"

SkipReason(a, s) ==
    IF ~Authoritative(a) THEN "superseded-by-newer-analysis"
    ELSE IF Content[s].truncated THEN "truncated-scan"
    ELSE IF Content[s].parseGaps THEN "parse-gaps"
    ELSE "none"

\* (Mutation: an active finding is skipped whatever snapshot it was last seen in.)
BugSkipsActive(f, s) ==
    f \in Content[s].findings /\ findings[f].state # "active"

\* A finding the snapshot holds is re-observed unless it is active there already.
Observes(f, s) ==
    /\ f \in Content[s].findings
    /\ ~(findings[f].state = "active" /\ findings[f].lastSeen = s)

\* (Mutation: the query of active findings forgets the repository.)
BugResolvesEverywhere(f, s) ==
    findings[f].state = "active" /\ f \notin Content[s].findings

\* An active finding of the repository that a complete scan does not hold.
Resolves(f, s) ==
    /\ Owner[f] = Content[s].repository
    /\ findings[f].state = "active"
    /\ f \notin Content[s].findings

\* (Mutation: a new sighting does not make a resolved finding active.)
BugStaysResolved(f, s) ==
    [state |-> IF findings[f].state = "absent" THEN "active" ELSE findings[f].state,
     firstSeen |-> IF findings[f].state = "absent" THEN s ELSE findings[f].firstSeen,
     lastSeen |-> s,
     resolvedIn |-> NoSnapshot]

ObservedFinding(f, s) ==
    [state |-> "active",
     firstSeen |-> IF findings[f].state = "absent" THEN s ELSE findings[f].firstSeen,
     lastSeen |-> s,
     resolvedIn |-> NoSnapshot]

ObservationEvent(f) ==
    CASE findings[f].state = "absent" -> "finding-first-seen"
      [] findings[f].state = "resolved" -> "finding-reactivated"
      [] findings[f].state = "active" -> "finding-evidence-updated"

ReconciledReview(f, s) ==
    IF f \in Content[s].findings /\ findings[f].state = "absent"
    THEN [status |-> "new", version |-> 0]
    ELSE reviews[f]

ReconcileFindings(s, resolveMissing) ==
    /\ findings' = [f \in Findings |->
           IF Observes(f, s) THEN ObservedFinding(f, s)
           ELSE IF resolveMissing /\ Resolves(f, s)
                THEN [findings[f] EXCEPT !.state = "resolved", !.resolvedIn = s]
                ELSE findings[f]]
    /\ events' = [f \in Findings |->
           IF Observes(f, s)
           THEN Append(events[f], LifecycleEvent(ObservationEvent(f), s))
           ELSE IF resolveMissing /\ Resolves(f, s)
                THEN Append(events[f], LifecycleEvent("finding-resolved", s))
                ELSE events[f]]
    /\ reviews' = [f \in Findings |-> ReconciledReview(f, s)]

SaveCompletedSnapshot(a, s) ==
    /\ saves < MaxSaves
    /\ analyses[a].state # "absent"
    /\ analyses[a].repository = Content[s].repository
    /\ snapshots' = snapshots \cup {s}
    /\ IF Authoritative(a)
       THEN ReconcileFindings(s, SkipReason(a, s) = "none")
       ELSE UNCHANGED lifecycle
    /\ analyses' = [analyses EXCEPT
           ![a].state = "completed", ![a].phase = "completed", ![a].snapshot = s,
           ![a].reconciled = Authoritative(a), ![a].skipReason = SkipReason(a, s)]
    /\ saves' = saves + 1
    /\ UNCHANGED latestGeneration

-----------------------------------------------------------------------------
(* Review decisions, guarded by the version the reviewer read *)

\* (Mutation: the last writer wins.)
BugLastWriterWins(f, expected) == findings[f].state # "absent"

\* Otherwise the reviewer is told of the conflict and nothing changes.
AcceptsReview(f, expected) ==
    findings[f].state # "absent" /\ reviews[f].version = expected

UpdateFindingReview(f, expected, decision) ==
    /\ AcceptsReview(f, expected)
    /\ reviews[f].version < MaxDecisions
    /\ reviews' = [reviews EXCEPT ![f] = [status |-> decision, version |-> expected + 1]]
    /\ events' = [events EXCEPT ![f] = Append(@,
           [type |-> "review-decision-changed", snapshot |-> NoSnapshot,
            status |-> decision, version |-> expected + 1])]
    /\ UNCHANGED <<latestGeneration, analyses, snapshots, findings, saves>>

Next ==
    \/ \E a \in Analyses, r \in Repositories : BeginAnalysis(a, r)
    \/ \E a \in Analyses, phase \in ProgressPhases : UpdateProgress(a, phase)
    \/ \E a \in Analyses, outcome \in {"cancelled", "failed"} : FinishAnalysis(a, outcome)
    \/ \E a \in Analyses, s \in Snapshots : SaveCompletedSnapshot(a, s)
    \/ \E f \in Findings, expected \in 0 .. MaxDecisions, decision \in Decisions :
           UpdateFindingReview(f, expected, decision)

Spec == Init /\ [][Next]_storeVars

-----------------------------------------------------------------------------
(* Safety *)

Begun(a) == analyses[a].state # "absent"

Complete(s) == ~Content[s].truncated /\ ~Content[s].parseGaps

\* Two attempts on one repository never share a generation, so at most one of
\* them can hold the authority to reconcile findings (begin_analysis).
GenerationsAreUnique ==
    \A a, b \in Analyses :
        /\ Begun(a) /\ Begun(b) /\ a # b
        /\ analyses[a].repository = analyses[b].repository
        => analyses[a].generation # analyses[b].generation

\* What the row of a finding claims is backed by stored snapshots: the two
\* sightings hold the finding, and the snapshot that resolved it is a complete
\* scan that does not.  The queues of findings join on lastSeen: a finding
\* without that occurrence would silently disappear from every queue.
EvidenceBacksFindings ==
    \A f \in Findings :
        /\ findings[f].state # "absent" =>
               \A s \in {findings[f].firstSeen, findings[f].lastSeen} :
                   s \in snapshots /\ f \in Content[s].findings
        /\ findings[f].state = "active" => findings[f].resolvedIn = NoSnapshot
        /\ findings[f].state = "resolved" =>
               /\ findings[f].resolvedIn \in snapshots
               /\ f \notin Content[findings[f].resolvedIn].findings
               /\ Content[findings[f].resolvedIn].repository = Owner[f]
               /\ Complete(findings[f].resolvedIn)

IsLifecycle(e) == e.type \in LifecycleEvents

LastLifecycle(f, i) ==
    /\ i \in DOMAIN events[f]
    /\ IsLifecycle(events[f][i])
    /\ \A j \in DOMAIN events[f] : j > i => ~IsLifecycle(events[f][j])

EventExplains(e, row) ==
    /\ (e.type = "finding-resolved") <=> (row.state = "resolved")
    /\ e.type = "finding-resolved" => row.resolvedIn = e.snapshot
    /\ e.type # "finding-resolved" => row.lastSeen = e.snapshot

\* The append-only history explains the mutable row: the last lifecycle event
\* of a finding names its evidence state and the snapshot that put it there.
HistoryExplainsFindings ==
    \A f \in Findings :
        findings[f].state # "absent" =>
            \E i \in DOMAIN events[f] :
                LastLifecycle(f, i) /\ EventExplains(events[f][i], findings[f])

ConsecutiveLifecycle(f, i, j) ==
    /\ i \in DOMAIN events[f] /\ j \in DOMAIN events[f] /\ i < j
    /\ IsLifecycle(events[f][i]) /\ IsLifecycle(events[f][j])
    /\ \A k \in DOMAIN events[f] : i < k /\ k < j => ~IsLifecycle(events[f][k])

\* A finding is first seen once, is resolved only while active, and comes back
\* only by a reactivation; no sighting is reported twice in a row.
HistoryIsWellFormed ==
    \A f \in Findings : \A i, j \in DOMAIN events[f] :
        ConsecutiveLifecycle(f, i, j) =>
            /\ events[f][j].type # "finding-first-seen"
            /\ (events[f][j].type = "finding-reactivated")
                   <=> (events[f][i].type = "finding-resolved")
            /\ events[f][j].type = "finding-evidence-updated" =>
                   events[f][j].snapshot # events[f][i].snapshot

DecisionsIn(f) == {i \in DOMAIN events[f] : ~IsLifecycle(events[f][i])}

\* The version of a review is the number of the last recorded decision, the
\* recorded decisions are numbered in order, and the row holds the last one: no
\* accepted decision is lost or overwritten without a trace.
DecisionsAreRecorded ==
    \A f \in Findings :
        /\ \A i, j \in DecisionsIn(f) : i < j => events[f][i].version < events[f][j].version
        /\ \A n \in 1 .. reviews[f].version :
               \E i \in DecisionsIn(f) : events[f][i].version = n
        /\ \A i \in DecisionsIn(f) :
               /\ events[f][i].version \in 1 .. reviews[f].version
               /\ events[f][i].version = reviews[f].version =>
                      events[f][i].status = reviews[f].status

-----------------------------------------------------------------------------
(* What a step may never do *)

\* A finding is resolved only by the promotion of a complete scan, by the
\* attempt that is the newest of the finding's repository at that moment.
OnlyNewestCompleteScanResolves ==
    [][\A f \in Findings :
          findings[f].state = "active" /\ findings'[f].state = "resolved" =>
              \E a \in Analyses :
                  /\ analyses'[a].state = "completed"
                  /\ analyses'[a].repository = Owner[f]
                  /\ analyses'[a].snapshot = findings'[f].resolvedIn
                  /\ Complete(analyses'[a].snapshot)
                  /\ \A b \in Analyses :
                         Begun(b) /\ analyses[b].repository = Owner[f] =>
                             analyses[b].generation <= analyses[a].generation]_storeVars

\* Reconciliation never touches the human decision on a known finding, whatever
\* happens to the finding's evidence.
EvidenceNeverChangesDecisions ==
    [][\A f \in Findings :
          findings[f].state # "absent" /\ findings'[f] # findings[f] =>
              reviews'[f] = reviews[f]]_storeVars

-----------------------------------------------------------------------------
(* The abstract ledger of findings that the store implements *)

Ledger == INSTANCE FindingLedger WITH
              evidence <- [f \in Findings |-> findings[f].state],
              review <- reviews

ImplementsLedger == Ledger!Spec
=============================================================================

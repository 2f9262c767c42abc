---------------------------- MODULE ReviewService ----------------------------
(***************************************************************************)
(* RepositoryReviewService.analyze (zscripts/application/                  *)
(* repository_review.py) running over ReviewStore: each attempt is a thread*)
(* of the job manager or a command-line process, and attempts on the same  *)
(* repository overlap freely.                                              *)
(*                                                                         *)
(* pc names the point an attempt has reached.  "report-p" is the call that *)
(* announces phase p: one transaction, taken after a cancellation check    *)
(* and itself unchecked.  What discovery and the analyzers compute is the  *)
(* choice of a snapshot in Discover: all of it is a function of the files  *)
(* discovery read.  Disturbances lists what a run lets go wrong.            *)
(***************************************************************************)
EXTENDS ReviewStore

CONSTANT Disturbances

ASSUME DisturbanceAssumption ==
    Disturbances \subseteq {"cancel", "failure", "final-report", "handler", "death"}

ASSUME PhaseAssumption ==
    {"analysis", "relationships", "findings", "storage", "completed"} \subseteq ProgressPhases

VARIABLES
    pc,         \* the point each attempt has reached
    target,     \* the repository an attempt scans
    observed,   \* the snapshot its discovery determines
    cancel,     \* the attempts somebody asked to cancel
    startedAt,  \* the started_at timestamp of each attempt
    clock       \* the timestamps handed out so far

serviceVars == <<pc, target, observed, cancel, startedAt, clock>>
vars == <<storeVars, serviceVars>>

Ended == {"returned", "cancelled", "failed", "lost", "dead"}

Checked == {"discovery", "analysis", "relationships", "findings"}

ReportPoints ==
    {"report-relationships", "report-findings", "report-storage", "report-completed"}

Points ==
    {"idle", "begin", "storage", "on-cancel", "on-failure"}
        \cup Checked \cup ReportPoints \cup Ended

\* The phase a report announces, and the point after it.
Reported ==
    [p \in ReportPoints |->
        CASE p = "report-relationships" -> "relationships"
          [] p = "report-findings" -> "findings"
          [] p = "report-storage" -> "storage"
          [] p = "report-completed" -> "completed"]

\* Where an attempt goes when the check at the end of a phase finds no request.
AfterCheck ==
    [p \in Checked \ {"discovery"} |->
        CASE p = "analysis" -> "report-relationships"
          [] p = "relationships" -> "report-findings"
          [] p = "findings" -> "report-storage"]

Running(a) == pc[a] \notin Ended \cup {"idle"}

ServiceTypeOK ==
    /\ TypeOK
    /\ pc \in [Analyses -> Points]
    /\ target \in [Analyses -> Repositories \cup {NoRepository}]
    /\ observed \in [Analyses -> Snapshots \cup {NoSnapshot}]
    /\ cancel \in SUBSET Analyses
    /\ startedAt \in [Analyses -> Nat]
    /\ clock \in Nat

ServiceInit ==
    /\ Init
    /\ pc = [a \in Analyses |-> "idle"]
    /\ target = [a \in Analyses |-> NoRepository]
    /\ observed = [a \in Analyses |-> NoSnapshot]
    /\ cancel = {}
    /\ startedAt = [a \in Analyses |-> 0]
    /\ clock = 0

GoTo(a, p) == pc' = [pc EXCEPT ![a] = p]

Only(a, p) ==
    /\ GoTo(a, p)
    /\ UNCHANGED <<target, observed, cancel, startedAt, clock>>

-----------------------------------------------------------------------------
(* The steps of one attempt *)

\* The identifier and the timestamp are taken before discovery.
Start(a, r) ==
    /\ pc[a] = "idle"
    /\ GoTo(a, "discovery")
    /\ target' = [target EXCEPT ![a] = r]
    /\ clock' = clock + 1
    /\ startedAt' = [startedAt EXCEPT ![a] = clock + 1]
    /\ UNCHANGED <<storeVars, observed, cancel>>

\* Discovery checks before every file and reads the bytes it passes on.
Discover(a, s) ==
    /\ pc[a] = "discovery"
    /\ a \notin cancel
    /\ Content[s].repository = target[a]
    /\ GoTo(a, "begin")
    /\ observed' = [observed EXCEPT ![a] = s]
    /\ UNCHANGED <<storeVars, target, cancel, startedAt, clock>>

Begin(a) ==
    /\ pc[a] = "begin"
    /\ BeginAnalysis(a, target[a])
    /\ Only(a, "analysis")

\* The analyzer checks and reports once per file.
ReportFile(a) ==
    /\ pc[a] = "analysis"
    /\ a \notin cancel
    /\ UpdateProgress(a, "analysis")
    /\ Only(a, "analysis")

PassCheck(a) ==
    /\ pc[a] \in Checked \ {"discovery"}
    /\ a \notin cancel
    /\ Only(a, AfterCheck[pc[a]])
    /\ UNCHANGED storeVars

Report(a) ==
    /\ pc[a] \in ReportPoints
    /\ UpdateProgress(a, Reported[pc[a]])
    /\ Only(a, IF pc[a] = "report-completed" THEN "returned" ELSE Reported[pc[a]])

Save(a) ==
    /\ pc[a] = "storage"
    /\ SaveCompletedSnapshot(a, observed[a])
    /\ Only(a, "report-completed")

\* (Mutation: one more check, after the promotion.)
BugChecksAfterPromotion(a) ==
    /\ pc[a] \in Checked \cup {"report-completed"}
    /\ a \in cancel
    /\ Only(a, IF pc[a] = "discovery" THEN "cancelled" ELSE "on-cancel")
    /\ UNCHANGED storeVars

\* AnalysisCancelled: there is no row to finish while discovery still runs.
NoticeCancel(a) ==
    /\ pc[a] \in Checked
    /\ a \in cancel
    /\ Only(a, IF pc[a] = "discovery" THEN "cancelled" ELSE "on-cancel")
    /\ UNCHANGED storeVars

RecordCancel(a) ==
    /\ pc[a] = "on-cancel"
    /\ FinishAnalysis(a, "cancelled")
    /\ Only(a, "cancelled")

\* (Mutation: the failure handler re-raises without finishing the row.)
BugFailureNotRecorded(a) ==
    /\ pc[a] = "on-failure"
    /\ Only(a, "failed")
    /\ UNCHANGED storeVars

RecordFailure(a) ==
    /\ pc[a] = "on-failure"
    /\ FinishAnalysis(a, "failed")
    /\ Only(a, "failed")

Step(a) ==
    \/ \E s \in Snapshots : Discover(a, s)
    \/ Begin(a)
    \/ PassCheck(a)
    \/ Report(a)
    \/ Save(a)
    \/ NoticeCancel(a)
    \/ RecordCancel(a)
    \/ RecordFailure(a)

-----------------------------------------------------------------------------
(* What goes wrong around an attempt *)

\* An exception of a read, of an analyzer, of a progress callback or of a
\* transaction, which rolls back.  Without a row there is nothing to finish.
Fail(a) ==
    /\ "failure" \in Disturbances
    /\ pc[a] \in Checked \cup {"begin", "storage"} \cup (ReportPoints \ {"report-completed"})
    /\ Only(a, IF pc[a] \in {"discovery", "begin"} THEN "failed" ELSE "on-failure")
    /\ UNCHANGED storeVars

\* The report that follows the promotion is inside the same try block.
FinalReportFails(a) ==
    /\ "final-report" \in Disturbances
    /\ pc[a] = "report-completed"
    /\ Only(a, "on-failure")
    /\ UNCHANGED storeVars

\* finish_analysis itself raises: its exception replaces the one handled.
HandlerFails(a) ==
    /\ "handler" \in Disturbances
    /\ pc[a] \in {"on-cancel", "on-failure"}
    /\ Only(a, "lost")
    /\ UNCHANGED storeVars

\* The process is killed, or an exception the handlers do not catch ends it.
Die(a) ==
    /\ "death" \in Disturbances
    /\ Running(a)
    /\ Only(a, "dead")
    /\ UNCHANGED storeVars

RequestCancel(a) ==
    /\ "cancel" \in Disturbances
    /\ Running(a)
    /\ a \notin cancel
    /\ cancel' = cancel \cup {a}
    /\ UNCHANGED <<storeVars, pc, target, observed, startedAt, clock>>

Decide(f, expected, decision) ==
    /\ UpdateFindingReview(f, expected, decision)
    /\ UNCHANGED serviceVars

ServiceNext ==
    \/ \E a \in Analyses, r \in Repositories : Start(a, r)
    \/ \E a \in Analyses : Step(a)
    \/ \E a \in Analyses : ReportFile(a)
    \/ \E a \in Analyses : Fail(a)
    \/ \E a \in Analyses : FinalReportFails(a)
    \/ \E a \in Analyses : HandlerFails(a)
    \/ \E a \in Analyses : Die(a)
    \/ \E a \in Analyses : RequestCancel(a)
    \/ \E f \in Findings, expected \in 0 .. MaxDecisions, decision \in Decisions :
           Decide(f, expected, decision)

ServiceSpec == ServiceInit /\ [][ServiceNext]_vars

\* A thread or process that runs is scheduled again and again.
FairServiceSpec == ServiceSpec /\ \A a \in Analyses : WF_vars(Step(a))

-----------------------------------------------------------------------------
(* What the readers of the store are told *)

CompletedOf(r) ==
    {a \in Analyses : analyses[a].state = "completed" /\ analyses[a].repository = r}

NewestOf(attempts) ==
    CHOOSE a \in attempts : \A b \in attempts :
        analyses[b].generation <= analyses[a].generation

\* (Mutation: a reconciliation that skipped absences counts as complete.)
BugSkipCountsAsComplete(r) ==
    CompletedOf(r) # {} /\ analyses[NewestOf(CompletedOf(r))].reconciled

\* finding_summary: is the queue of r complete as of its newest completed scan?
ReconciliationComplete(r) ==
    /\ CompletedOf(r) # {}
    /\ analyses[NewestOf(CompletedOf(r))].reconciled
    /\ analyses[NewestOf(CompletedOf(r))].skipReason = "none"

\* snapshot_evidence_facts: the newest completed attempt behind a snapshot.
LinkedAttempts(s) ==
    {a \in Analyses : analyses[a].state = "completed" /\ analyses[a].snapshot = s}

FactsSkipReason(s) ==
    IF LinkedAttempts(s) = {} THEN "analysis-status-unavailable"
    ELSE LET row == analyses[NewestOf(LinkedAttempts(s))]
         IN IF ~row.reconciled /\ row.skipReason = "none"
            THEN "analysis-status-unavailable" ELSE row.skipReason

ActiveFindings(r) == {f \in Findings : Owner[f] = r /\ findings[f].state = "active"}

-----------------------------------------------------------------------------
(* Safety *)

ReconciledOf(r) ==
    {a \in Analyses : analyses[a].reconciled /\ analyses[a].repository = r}

\* However attempts overlap, fail or die, the findings of a repository are those
\* the newest reconciling attempt left: all it saw is active and last seen
\* there, and after a complete scan nothing else is active.
FindingsFollowNewestReconciliation ==
    \A r \in Repositories : ReconciledOf(r) # {} =>
        LET row == analyses[NewestOf(ReconciledOf(r))]
        IN /\ \A f \in Content[row.snapshot].findings :
                  findings[f].state = "active" /\ findings[f].lastSeen = row.snapshot
           /\ Complete(row.snapshot) =>
                  ActiveFindings(r) = Content[row.snapshot].findings

\* A report after the promotion failed, so the row of an attempt whose snapshot
\* is stored says "failed" (the except block of analyze).
FailedAfterPromotion(r) ==
    \E a \in Analyses :
        /\ analyses[a].repository = r
        /\ analyses[a].state = "failed"
        /\ analyses[a].snapshot # NoSnapshot

\* A summary that claims complete reconciliation shows exactly the findings of
\* the newest completed scan, unless a scan failed after it was promoted: then
\* the summary quotes an older row (finding_summary).
SummaryIsTruthful ==
    \A r \in Repositories : ReconciliationComplete(r) /\ ~FailedAfterPromotion(r) =>
        ActiveFindings(r) =
            Content[analyses[NewestOf(CompletedOf(r))].snapshot].findings

\* Every stored snapshot can be traced to the attempt that produced it, so its
\* evidence status is never reported as unavailable (snapshot_evidence_facts).
SnapshotsKeepTheirAttempt ==
    \A s \in snapshots : FactsSkipReason(s) # "analysis-status-unavailable"

\* docs/repository-review.md: failed and cancelled attempts are tracked as
\* attempts but never promoted as completed snapshots.
FailedAttemptsOwnNoSnapshot ==
    \A a \in Analyses :
        analyses[a].state \in {"failed", "cancelled"} => analyses[a].snapshot = NoSnapshot

\* docs/repository-review.md on "lifecycle-superseded": the snapshot did not become
\* authoritative for current finding lifecycle state (build_snapshot_evidence_status).
SupersededSnapshotsCarryNoAuthority ==
    \A s \in snapshots : FactsSkipReason(s) = "superseded-by-newer-analysis" =>
        \A f \in Findings : findings[f].state = "active" => findings[f].lastSeen # s

\* docs/repository-review.md: a completed scan resolves missing findings only
\* when it is the latest-started analysis for its repository.
OnlyLatestStartedResolves ==
    [][\A a \in Analyses : \A f \in Findings :
          /\ analyses[a].state # "completed" /\ analyses'[a].state = "completed"
          /\ findings[f].state = "active" /\ findings'[f].state = "resolved"
          => \A b \in Analyses :
                 Begun(b) /\ analyses[b].repository = analyses[a].repository =>
                     startedAt[b] <= startedAt[a]]_vars

-----------------------------------------------------------------------------
(* Liveness *)

\* An attempt that has a row does not stay "started": it is completed, failed or
\* cancelled in the end, unless its process dies or its last write is lost.
AttemptsEnd ==
    \A a \in Analyses :
        analyses[a].state = "started" ~>
            analyses[a].state # "started" \/ pc[a] \in {"dead", "lost"}
=============================================================================

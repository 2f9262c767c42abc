------------------------------ MODULE ReviewJobs ------------------------------
(***************************************************************************)
(* RepositoryReviewJobManager over ReviewService: the workspace process    *)
(* accepts jobs, a pool of MaxWorkers threads runs them in order, and the  *)
(* endpoints of interfaces/workspace_api.py cancel a job and answer polls  *)
(* from memory or, for a job of an earlier process, from the store.        *)
(*                                                                         *)
(* A job record is read and written under the manager's lock, so each of   *)
(* its updates is part of one action.  The one read outside the lock, the  *)
(* answer of start itself, is not modelled.                                *)
(***************************************************************************)
EXTENDS ReviewService, FiniteSets

CONSTANTS
    MaxWorkers,  \* threads of the executor
    MaxCrashes   \* bound: times the workspace process dies

ASSUME WorkerAssumption == MaxWorkers \in Nat \ {0} /\ MaxCrashes \in Nat

VARIABLES
    allocated,  \* identifiers the store has handed out
    jobs,       \* the job records of the living process
    queue,      \* the executor's queue of submitted jobs
    workers,    \* the jobs a thread is running
    crashes     \* for the bound only

managerVars == <<allocated, jobs, queue, workers, crashes>>
jobVars == <<vars, managerVars>>

JobStates == {"none", "started", "completed", "failed", "cancelled"}

JobPhases == ProgressPhases \cup
    {"none", "queued", "discovery", "cancelling", "failed", "cancelled"}

NoJob == [state |-> "none", phase |-> "none", snapshot |-> NoSnapshot]

JobTypeOK ==
    /\ ServiceTypeOK
    /\ allocated \in SUBSET Analyses
    /\ jobs \in [Analyses -> [state : JobStates, phase : JobPhases,
                              snapshot : Snapshots \cup {NoSnapshot}]]
    /\ queue \in Seq(Analyses)
    /\ workers \in SUBSET Analyses
    /\ crashes \in 0 .. MaxCrashes

JobInit ==
    /\ ServiceInit
    /\ allocated = {}
    /\ jobs = [a \in Analyses |-> NoJob]
    /\ queue = <<>>
    /\ workers = {}
    /\ crashes = 0

-----------------------------------------------------------------------------
(* The endpoints *)

\* (Mutation: identifiers are counted in memory, from the start again.)
BugForgetsIdentifiers(a) == jobs[a] = NoJob

\* allocate_analysis_id: the sequence of the store survives the process.
Fresh(a) == a \notin allocated

SubmitJob(a) ==
    /\ Fresh(a)
    /\ allocated' = allocated \cup {a}
    /\ jobs' = [jobs EXCEPT ![a] = [NoJob EXCEPT !.state = "started", !.phase = "queued"]]
    /\ queue' = Append(queue, a)
    /\ UNCHANGED <<vars, workers, crashes>>

\* A job that has ended keeps its phase; its event is set all the same.
CancelJob(a) ==
    /\ jobs[a].state # "none"
    /\ cancel' = cancel \cup {a}
    /\ jobs' = [jobs EXCEPT ![a].phase =
           IF jobs[a].state = "started" THEN "cancelling" ELSE @]
    /\ UNCHANGED <<storeVars, pc, target, observed, startedAt, clock>>
    /\ UNCHANGED <<allocated, queue, workers, crashes>>

\* What GET /api/analyses/{id} answers.
Answer(a) ==
    IF jobs[a].state # "none"
    THEN [state |-> jobs[a].state, snapshot |-> jobs[a].snapshot]
    ELSE [state |-> IF analyses[a].state = "absent" THEN "none" ELSE analyses[a].state,
          snapshot |-> analyses[a].snapshot]

-----------------------------------------------------------------------------
(* The worker threads *)

\* The first progress callback announces discovery.
PickUpJob(a, r) ==
    /\ queue # <<>> /\ a = Head(queue)
    /\ Cardinality(workers) < MaxWorkers
    /\ Start(a, r)
    /\ queue' = Tail(queue)
    /\ workers' = workers \cup {a}
    /\ jobs' = [jobs EXCEPT ![a].phase = "discovery"]
    /\ UNCHANGED <<allocated, crashes>>

\* Discovery reports each file it reads to the callback only: there is no row yet.
ReportDiscovery(a) ==
    /\ a \in workers
    /\ pc[a] = "discovery"
    /\ a \notin cancel
    /\ jobs' = [jobs EXCEPT ![a].phase = "discovery"]
    /\ UNCHANGED <<vars, allocated, queue, workers, crashes>>

\* The callback runs before the store is updated, whatever the phase was.
Work(a) ==
    /\ a \in workers
    /\ Step(a)
    /\ jobs' = [jobs EXCEPT ![a].phase =
           IF pc[a] \in ReportPoints THEN Reported[pc[a]] ELSE @]
    /\ UNCHANGED <<allocated, queue, workers, crashes>>

WorkOnFile(a) ==
    /\ a \in workers
    /\ ReportFile(a)
    /\ jobs' = [jobs EXCEPT ![a].phase = "analysis"]
    /\ UNCHANGED <<allocated, queue, workers, crashes>>

WorkGoesWrong(a) ==
    /\ a \in workers
    /\ Fail(a) \/ FinalReportFails(a) \/ HandlerFails(a)
    /\ UNCHANGED managerVars

\* (Mutation: an exception of the analysis ends the thread without a word.)
BugExceptionIsLost == [p \in {"returned", "cancelled"} |->
    IF p = "returned" THEN "completed" ELSE p]

\* How _run records each way out of analyze.
Outcome == [p \in {"returned", "cancelled", "failed", "lost"} |->
    CASE p = "returned" -> "completed" [] p = "cancelled" -> p [] OTHER -> "failed"]

EndJob(a) ==
    /\ a \in workers
    /\ pc[a] \in DOMAIN Outcome
    /\ jobs' = [jobs EXCEPT ![a] =
           [state |-> Outcome[pc[a]], phase |-> Outcome[pc[a]],
            snapshot |-> IF Outcome[pc[a]] = "completed" THEN observed[a] ELSE NoSnapshot]]
    /\ workers' = workers \ {a}
    /\ UNCHANGED <<vars, allocated, queue, crashes>>

\* The process is killed: threads, queue and records are gone, the store stays.
Crash ==
    /\ crashes < MaxCrashes
    /\ pc' = [a \in Analyses |-> IF Running(a) THEN "dead" ELSE pc[a]]
    /\ jobs' = [a \in Analyses |-> NoJob]
    /\ queue' = <<>>
    /\ workers' = {}
    /\ crashes' = crashes + 1
    /\ UNCHANGED <<storeVars, target, observed, cancel, startedAt, clock, allocated>>

JobNext ==
    \/ \E a \in Analyses : SubmitJob(a)
    \/ \E a \in Analyses : CancelJob(a)
    \/ \E a \in Analyses, r \in Repositories : PickUpJob(a, r)
    \/ \E a \in Analyses : ReportDiscovery(a)
    \/ \E a \in Analyses : Work(a)
    \/ \E a \in Analyses : WorkOnFile(a)
    \/ \E a \in Analyses : WorkGoesWrong(a)
    \/ \E a \in Analyses : EndJob(a)
    \/ Crash

JobSpec == JobInit /\ [][JobNext]_jobVars

\* The threads of a living process are scheduled again and again.
FairJobSpec ==
    /\ JobSpec
    /\ WF_jobVars(\E a \in Analyses, r \in Repositories : PickUpJob(a, r))
    /\ \A a \in Analyses : WF_jobVars(Work(a)) /\ WF_jobVars(EndJob(a))

-----------------------------------------------------------------------------
(* Safety *)

Terminal == {"completed", "failed", "cancelled"}

\* What a poll may answer once the job has ended: the same again, or that the
\* analysis is unknown when it ended before it had a row and the process is gone.
\* The record in memory and the row in the store never contradict each other
\* (AnalysisJobView, _persisted_job_payload).
AnswersAreFinal ==
    [][\A a \in Analyses : Answer(a).state \in Terminal =>
          \/ Answer(a)' = Answer(a)
          \/ Answer(a)'.state = "none" /\ Answer(a).snapshot = NoSnapshot]_jobVars

\* A poll that answers "completed" names a stored snapshot, which the workspace
\* opens next, and a job reported as failed or cancelled has promoted nothing
\* (App.tsx, beginAnalysis).
CompletedAnswersAreStored ==
    \A a \in Analyses :
        /\ Answer(a).state = "completed" =>
               Answer(a).snapshot \in snapshots /\ analyses[a].state = "completed"
        /\ Answer(a).state \in {"cancelled", "failed"} => analyses[a].snapshot = NoSnapshot

-----------------------------------------------------------------------------
(* Liveness *)

\* Every accepted job ends, also when all threads were busy at first: the queue
\* is served, and each way out of analyze is recorded (_run).
JobsEnd ==
    \A a \in Analyses : jobs[a].state = "started" ~> jobs[a].state # "started"
=============================================================================

------------------------------ MODULE ScanScreen ------------------------------
(* The shell of the workspace (workspace-ui/src/App.tsx with                  *)
(* RepositoryControls.tsx) against the analysis and snapshot endpoints.       *)
(*                                                                            *)
(* Every asynchronous function of the shell is a call: scanRepository with    *)
(* the beginAnalysis it ends in, openRecentRepository, loadSnapshot and       *)
(* cancelScan.  A call waits for an answer, which is read by the service      *)
(* ("served") some time before it arrives.  The two generation counters are   *)
(* only compared for equality: a call carries whether its own is current.     *)
EXTENDS Integers, Sequences, FiniteSets

CONSTANTS
    Paths,        \* directories a user enters
    Root,         \* [Paths -> roots]: the analysis root resolve_scope finds
    Nested,       \* the paths whose root is broader: scanning asks first
    Recent,       \* roots with a completed snapshot before the session
    Nothing,
    CallsMayFail, \* whether a call of the API can fail
    MaxJobs,      \* bound: analyses started
    MaxCalls      \* bound: unanswered calls of the shell

Roots == {Root[p] : p \in Paths} \cup Recent

ASSUME ScopeAssumption == Nested \subseteq Paths /\ Nothing \notin Paths \cup Roots
ASSUME BoundAssumption == MaxJobs \in Nat /\ MaxCalls \in Nat /\ CallsMayFail \in BOOLEAN

Ids == 1 .. MaxJobs
JobStates == {"started", "completed", "failed", "cancelled"}

\* A snapshot: the analysis it is from, 0 for one of an earlier session.
Snapshot == [root : Roots, id : 0 .. MaxJobs]

VARIABLES
    path,              \* the text of the form, Nothing when blank
    job, overview, snapshots, pendingScope, error,
    repositories,      \* the recent repositories offered
    scopeInFlight,     \* scopeRequestInFlight, and scopeResolving, set with it
    analysisStarting,
    calls,             \* the asynchronous functions under way
    chosen,            \* history: the snapshot picked last, Nothing after a scan or an opening
    jobs,              \* the service: the analyses, by their order of submission
    saved              \* the service: completed snapshots

screen == <<job, overview, snapshots, repositories, error>>
scope == <<path, pendingScope, scopeInFlight>>
service == <<jobs, saved>>
vars == <<screen, scope, analysisStarting, calls, chosen, service>>

Init ==
    /\ path = Nothing /\ job = Nothing /\ overview = Nothing /\ snapshots = {}
    /\ pendingScope = Nothing /\ error = FALSE /\ repositories = Recent
    /\ scopeInFlight = FALSE /\ analysisStarting = FALSE
    /\ calls = {} /\ chosen = Nothing
    /\ jobs = <<>> /\ saved = {[root |-> r, id |-> 0] : r \in Recent}

-----------------------------------------------------------------------------
(* The service.                                                              *)

View(id) == [id |-> id, root |-> jobs[id].root, state |-> jobs[id].state]

\* A job ends; one that completes stores its snapshot.
JobEnds(id, state) ==
    /\ jobs[id].state = "started"
    /\ state = "cancelled" => jobs[id].cancelled
    /\ jobs' = [jobs EXCEPT ![id].state = state]
    /\ saved' = IF state = "completed" THEN saved \cup {[root |-> jobs[id].root, id |-> id]}
                ELSE saved
    /\ UNCHANGED <<screen, scope, analysisStarting, calls, chosen>>

-----------------------------------------------------------------------------
(* Calls.  "about" is the path of a scan that resolves its scope, then its    *)
(* root; the root of an opening; the snapshot of a switch.                    *)

Call(stage, about, id) ==
    [stage |-> stage, about |-> about, id |-> id, live |-> TRUE, answer |-> Nothing]

ScanStages == {"starting", "waiting", "polling", "loading"}

\* Bumping a generation counter: no call of these stages is current any more.
BugSuperseded(set, stages) == {[c EXCEPT !.live = FALSE] : c \in set}
Superseded(set, stages) ==
    {IF c.stage \in stages THEN [c EXCEPT !.live = FALSE] ELSE c : c \in set}

Move(c, d) == calls' = (calls \ {c}) \cup {d}

Of(root) == {s \in saved : s.root = root}
Newest(set) == CHOOSE s \in set : \A t \in set : t.id <= s.id

ServeScope(c) ==
    /\ c.stage = "resolving" /\ c.answer = Nothing
    /\ Move(c, [c EXCEPT !.answer = Root[c.about]])
    /\ UNCHANGED <<screen, scope, analysisStarting, chosen, service>>

\* POST analyze creates the job; the answer is a view of it a moment later.
ServeStart(c) ==
    /\ c.stage = "starting" /\ c.id = 0
    /\ jobs' = Append(jobs, [root |-> c.about, state |-> "started", cancelled |-> FALSE])
    /\ Move(c, [c EXCEPT !.id = Len(jobs')])
    /\ UNCHANGED <<screen, scope, analysisStarting, chosen, saved>>

\* The view of a job answers a start, a poll and a cancellation, which also
\* asks the job to stop.
ServeView(c) ==
    /\ c.stage \in {"starting", "polling", "cancelling"} /\ c.id # 0 /\ c.answer = Nothing
    /\ jobs' = IF c.stage = "cancelling" THEN [jobs EXCEPT ![c.id].cancelled = TRUE] ELSE jobs
    /\ Move(c, [c EXCEPT !.answer = View(c.id)])
    /\ UNCHANGED <<screen, scope, analysisStarting, chosen, saved>>

\* The snapshots of a repository, for an opening, a switch or a finished scan.
ServeSnapshots(c) ==
    /\ c.stage \in {"opening", "switching", "loading"} /\ c.answer = Nothing
    /\ Move(c, [c EXCEPT !.answer = Of(IF c.stage = "switching" THEN c.about.root ELSE c.about)])
    /\ UNCHANGED <<screen, scope, analysisStarting, chosen, service>>

Serve == \E c \in calls : ServeScope(c) \/ ServeStart(c) \/ ServeView(c) \/ ServeSnapshots(c)

-----------------------------------------------------------------------------
(* Choosing what to scan.                                                    *)

Running == job # Nothing /\ job.state = "started"

\* invalidatePendingScope, on the calls given.
BugInvalidatePendingScope(set) ==
    /\ calls' = set
    /\ scopeInFlight' = FALSE /\ pendingScope' = Nothing
InvalidatePendingScope(set) ==
    /\ calls' = Superseded(set, {"resolving"})
    /\ scopeInFlight' = FALSE /\ pendingScope' = Nothing

EnterPath(p) ==
    /\ ~Running /\ p # path
    /\ path' = p
    /\ InvalidatePendingScope(calls)
    /\ UNCHANGED <<screen, analysisStarting, chosen, service>>

Planned == Len(jobs) + Cardinality({c \in calls : c.stage \in {"resolving", "starting"} /\ c.id = 0})

\* scanRepository, from a button that is off while a scan or a scope is open.
ScanRepository ==
    /\ path # Nothing /\ ~Running /\ pendingScope = Nothing
    /\ ~scopeInFlight /\ ~analysisStarting
    /\ Planned < MaxJobs /\ Cardinality(calls) < MaxCalls
    /\ calls' = Superseded(calls, {"resolving"}) \cup {Call("resolving", path, 0)}
    /\ scopeInFlight' = TRUE
    /\ error' = FALSE /\ job' = Nothing
    /\ UNCHANGED <<overview, snapshots, repositories, path, pendingScope, analysisStarting>>
    /\ UNCHANGED <<chosen, service>>

\* beginAnalysis up to its first await, in the place of the calls "gone".
BeginAnalysis(root, gone) ==
    IF analysisStarting
    THEN calls' = calls \ gone /\ UNCHANGED <<analysisStarting, error, overview, snapshots, chosen>>
    ELSE /\ analysisStarting' = TRUE
         /\ error' = FALSE /\ overview' = Nothing /\ snapshots' = {} /\ chosen' = Nothing
         /\ calls' = Superseded(calls \ gone, ScanStages) \cup {Call("starting", root, 0)}

NeedsConfirmation(p) == p \in Nested

UsesScope(c) == c.live

ReceiveScope(c) ==
    /\ c.stage = "resolving" /\ c.answer # Nothing
    /\ UNCHANGED <<job, repositories, path, service>>
    /\ IF ~UsesScope(c)
       THEN calls' = calls \ {c} /\ UNCHANGED <<overview, snapshots, error, pendingScope,
                                                scopeInFlight, analysisStarting, chosen>>
       ELSE /\ scopeInFlight' = FALSE
            /\ IF NeedsConfirmation(c.about)
               THEN /\ pendingScope' = c.about /\ calls' = calls \ {c}
                    /\ UNCHANGED <<overview, snapshots, error, analysisStarting, chosen>>
               ELSE BeginAnalysis(c.answer, {c}) /\ UNCHANGED pendingScope

ConfirmScope ==
    /\ pendingScope # Nothing /\ ~analysisStarting
    /\ Planned < MaxJobs
    /\ pendingScope' = Nothing
    /\ BeginAnalysis(Root[pendingScope], {})
    /\ UNCHANGED <<job, repositories, path, scopeInFlight, service>>

CancelScope ==
    /\ pendingScope # Nothing
    /\ InvalidatePendingScope(calls)
    /\ UNCHANGED <<path, screen, analysisStarting, chosen, service>>

-----------------------------------------------------------------------------
(* Following a scan.                                                         *)

\* The while loop of beginAnalysis goes on, or its scan completed, for a call
\* that is still current.
GoesOn(c, view) == c.live /\ view.state \in {"started", "completed"}

\* The answer of the start and of every poll is shown, current or not.  The
\* starting mark is cleared by the start, and again by "finally".
ReceiveView(c) ==
    /\ c.stage \in {"starting", "polling"} /\ c.answer # Nothing
    /\ job' = c.answer
    /\ IF GoesOn(c, c.answer)
       THEN /\ Move(c, [c EXCEPT !.answer = Nothing,
                            !.stage = IF c.answer.state = "started" THEN "waiting" ELSE "loading"])
            /\ analysisStarting' = (analysisStarting /\ c.stage # "starting")
            /\ UNCHANGED error
       ELSE calls' = calls \ {c} /\ analysisStarting' = FALSE /\ error' = (error \/ c.live)
    /\ UNCHANGED <<overview, snapshots, repositories, scope, chosen, service>>

\* 300 ms later.
Poll(c) ==
    /\ c.stage = "waiting"
    /\ Move(c, [c EXCEPT !.stage = "polling"])
    /\ UNCHANGED <<screen, scope, analysisStarting, chosen, service>>

ReceiveFinishedScan(c) ==
    /\ c.stage = "loading" /\ c.answer # Nothing
    /\ overview' = [root |-> c.about, id |-> c.id] /\ snapshots' = c.answer
    /\ repositories' = repositories \cup {c.about}
    /\ analysisStarting' = FALSE
    /\ calls' = calls \ {c}
    /\ UNCHANGED <<job, error, scope, chosen, service>>

CancelScan ==
    /\ Running /\ Cardinality(calls) < MaxCalls
    /\ calls' = calls \cup {Call("cancelling", job.root, job.id)}
    /\ UNCHANGED <<screen, scope, analysisStarting, chosen, service>>

ReceiveCancel(c) ==
    /\ c.stage = "cancelling" /\ c.answer # Nothing
    /\ job' = c.answer
    /\ calls' = calls \ {c}
    /\ UNCHANGED <<overview, snapshots, repositories, error, scope, analysisStarting, chosen>>
    /\ UNCHANGED service

-----------------------------------------------------------------------------
(* Opening what was scanned before.  Neither function has a generation.      *)

OpenRecentRepository(r) ==
    /\ ~Running /\ r \in repositories /\ Cardinality(calls) < MaxCalls
    /\ InvalidatePendingScope(calls \cup {Call("opening", r, 0)})
    /\ error' = FALSE /\ chosen' = Nothing
    /\ UNCHANGED <<job, overview, snapshots, repositories, path, analysisStarting, service>>

\* Its snapshots and the overview of the newest, which never changes.
ReceiveRecent(c) ==
    /\ c.stage = "opening" /\ c.answer # Nothing
    /\ snapshots' = c.answer /\ overview' = Newest(c.answer) /\ job' = Nothing
    /\ calls' = calls \ {c}
    /\ UNCHANGED <<error, repositories, scope, analysisStarting, chosen, service>>

LoadSnapshot(s) ==
    /\ overview # Nothing /\ s \in snapshots /\ s # overview /\ s # chosen
    /\ Cardinality(calls) < MaxCalls
    /\ error' = FALSE /\ chosen' = s
    /\ calls' = calls \cup {Call("switching", s, 0)}
    /\ UNCHANGED <<job, overview, snapshots, repositories, scope, analysisStarting, service>>

ReceiveSnapshot(c) ==
    /\ c.stage = "switching" /\ c.answer # Nothing
    /\ overview' = c.about /\ snapshots' = c.answer
    /\ calls' = calls \ {c}
    /\ UNCHANGED <<job, error, repositories, scope, analysisStarting, chosen, service>>

\* A call fails.  scanRepository ignores the failure of a stale resolution;
\* every other function shows an error.
LoseCall(c) ==
    /\ CallsMayFail /\ c.stage # "waiting"
    /\ calls' = calls \ {c}
    /\ IF c.stage = "resolving"
       THEN /\ error' = (error \/ UsesScope(c))
            /\ scopeInFlight' = (scopeInFlight /\ ~UsesScope(c))
            /\ UNCHANGED analysisStarting
       ELSE /\ error' = TRUE
            /\ analysisStarting' = (analysisStarting /\ c.stage \notin ScanStages)
            /\ UNCHANGED scopeInFlight
    /\ UNCHANGED <<job, overview, snapshots, repositories, path, pendingScope, chosen, service>>

-----------------------------------------------------------------------------

User ==
    \/ \E p \in Paths : EnterPath(p)
    \/ ScanRepository \/ ConfirmScope \/ CancelScope \/ CancelScan
    \/ \E r \in Roots : OpenRecentRepository(r)
    \/ \E s \in snapshots : LoadSnapshot(s)

\* One step of the call c: its answer arrives, its delay is over, or it fails.
Resume(c) ==
    \/ ReceiveScope(c) \/ ReceiveView(c) \/ Poll(c) \/ ReceiveFinishedScan(c) \/ ReceiveCancel(c)
    \/ ReceiveRecent(c) \/ ReceiveSnapshot(c) \/ LoseCall(c)

Browser == \E c \in calls : Resume(c)

JobsEnd == \E id \in 1 .. Len(jobs), state \in JobStates \ {"started"} : JobEnds(id, state)

Next == User \/ Browser \/ Serve \/ JobsEnd

Spec == Init /\ [][Next]_vars

\* The user owes nothing; every job ends (ReviewJobs: JobsEnd) and every call
\* of every analysis is served and resumed.
FairSpec ==
    /\ Spec
    /\ WF_vars(JobsEnd)
    /\ \A id \in Ids : WF_vars(\E c \in calls : c.id = id /\ (ServeView(c) \/ ServeSnapshots(c)))
    /\ \A id \in Ids : WF_vars(\E c \in calls : c.id = id /\ Resume(c))

-----------------------------------------------------------------------------
(* Properties.                                                               *)

\* The screen, the calls and the service keep their types, and only a snapshot
\* of a completed scan is ever shown.
TypeOK ==
    /\ path \in Paths \cup {Nothing} /\ pendingScope \in Paths \cup {Nothing}
    /\ job = Nothing \/ job \in [id : Ids, root : Roots, state : JobStates]
    /\ overview \in saved \cup {Nothing} /\ chosen \in Snapshot \cup {Nothing}
    /\ snapshots \subseteq saved /\ saved \subseteq Snapshot /\ repositories \subseteq Roots
    /\ {error, scopeInFlight, analysisStarting} \subseteq BOOLEAN
    /\ \A c \in calls : c.live \in BOOLEAN /\ c.id \in 0 .. Len(jobs)
    /\ \A i \in 1 .. Len(jobs) : jobs[i].root \in Roots /\ jobs[i].state \in JobStates

BegunScans == {c \in calls' \ calls : c.stage = "starting" /\ c.id = 0 /\ c.live}

\* A scan begins only for the path in the form, never for one that was edited
\* away or abandoned while its scope was being resolved (App.tsx,
\* scopeGeneration; test "clears a stale nested response after a path edit"), and
\* for a root broader than the entered directory only after the user confirmed
\* that very scope (docs/repository-review.md, scope confirmation).
ScansWhatThePathSays ==
    [][\A c \in BegunScans :
          /\ path # Nothing /\ c.about = Root[path]
          /\ path \in Nested => pendingScope = path]_vars

\* A scan that completes while it is followed is shown, unless an error is or
\* a newer scan took over.
FollowedScansAreShown ==
    \A id \in Ids :
        (\E c \in calls : c.id = id /\ c.live /\ c.stage \in {"waiting", "polling", "loading"})
        ~> \/ overview # Nothing /\ overview.id = id
           \/ error
           \/ \E c \in calls : c.id # id /\ c.live /\ c.stage \in ScanStages

\* At most one start is under way (docs/repository-review.md: a root "starts one
\* scan immediately"; App.tsx, analysisStarting).
OneStartAtATime == Cardinality({c \in calls : c.stage = "starting"}) <= 1

\* When nothing is under way the screen does not say that a scan runs
\* (docs/workflows.md: "Watch bounded progress or cancel between files").
RunningScansAreFollowed == calls = {} => ~Running

\* When nothing is under way the snapshot shown is the one picked last.
LastChoiceIsShown == calls = {} /\ chosen # Nothing /\ ~error => overview = chosen

=============================================================================

------------------------------ MODULE QualityGate ------------------------------
(* The quality gate of scripts/quality_gate.py: a profile runs its operations in  *)
(* order up to the first that fails and then writes its summary; one operation    *)
(* starts the packaged workspace and asks it for its page.                        *)
EXTENDS Integers, Sequences, SequencesExt

CONSTANTS
    Profiles,       \* the profiles: sequences of operations
    Smoke,          \* the operation that starts the workspace
    Polls,          \* polls up to the deadline of the workspace
    MaxGates        \* gates run one after the other

ASSUME GateAssumption == Polls \in Nat \ {0} /\ MaxGates \in Nat
ASSUME ProfilesAssumption == \A p \in Profiles : p = [i \in 1 .. Len(p) |-> p[i]] /\ Len(p) \in Nat \ {0}

VARIABLES
    gate,       \* [run, at, profile, operation, results, returncode]
    workspace,  \* the child: "none", "starting", "serving", "ending", "gone"
    answers,    \* who answers on the port: "nobody", "workspace", "another"
    polls,      \* polls left before the deadline
    smokes,     \* runs whose workspace has served its page
    leftBehind, \* runs that ended before their workspace
    reports,    \* operation -> the run and status of its report
    summary     \* [run, profile, passed, results] of the summary on disk

gateVars == <<gate, workspace, answers, polls, smokes, leftBehind, reports, summary>>

NoSummary == [run |-> 0, profile |-> <<>>, passed |-> FALSE, results |-> <<>>]
Operations == UNION {ToSet(p) : p \in Profiles}

GateInit ==
    /\ gate = [run |-> 0, at |-> "idle", profile |-> <<>>, results |-> <<>>, returncode |-> 0]
    /\ workspace = "none" /\ answers = "nobody" /\ polls = 0 /\ smokes = {} /\ leftBehind = {}
    /\ reports = [o \in Operations |-> [run |-> 0, passed |-> FALSE]]
    /\ summary = NoSummary

Operation == gate.profile[Len(gate.results) + 1]

StartProfile(profile) ==
    /\ gate.at \in {"idle", "ended", "raised"} /\ gate.run < MaxGates
    /\ gate' = [run |-> gate.run + 1, at |-> "operation", profile |-> profile, results |-> <<>>, returncode |-> 0]
    /\ UNCHANGED <<workspace, answers, polls, smokes, leftBehind, reports, summary>>

\* _execute_operation writes the report of the operation; the profile goes on, or
\* stops with the first that fails.
BugAfterOperation(passed) ==
    IF Len(gate.results) + 1 = Len(gate.profile) THEN "summary" ELSE "operation"
AfterOperation(passed) ==
    IF ~passed \/ Len(gate.results) + 1 = Len(gate.profile) THEN "summary" ELSE "operation"

Report(passed) ==
    /\ gate' = [gate EXCEPT !.at = AfterOperation(passed), !.returncode = IF passed THEN 0 ELSE 1,
                            !.results = Append(@, [operation |-> Operation, passed |-> passed])]
    /\ reports' = [reports EXCEPT ![Operation] = [run |-> gate.run, passed |-> passed]]

\* The commands of an operation run one after the other; the first that fails is
\* its failure.  Of the smoke these are the commands that build its assets.
RunOperation(passed) ==
    /\ gate.at = "operation" /\ (passed => Operation # Smoke)
    /\ Report(passed)
    /\ UNCHANGED <<workspace, answers, polls, smokes, leftBehind, summary>>

\* Only GateFailure is a failure: a command that is not there, a report that cannot
\* be read or written end the gate, and nothing is written.
OperationRaises ==
    /\ gate.at = "operation"
    /\ gate' = [gate EXCEPT !.at = "raised"]
    /\ UNCHANGED <<workspace, answers, polls, smokes, leftBehind, reports, summary>>

-----------------------------------------------------------------------------
(* The packaged workspace.                                                       *)

\* The port was free a moment ago.
StartWorkspace ==
    /\ gate.at = "operation" /\ Operation = Smoke
    /\ gate' = [gate EXCEPT !.at = "poll"]
    /\ workspace' = "starting" /\ polls' = Polls
    /\ UNCHANGED <<answers, smokes, leftBehind, reports, summary>>

\* One look: has the workspace ended, does a page come, is it the right one?  An
\* answer that is no page counts as none.
Poll ==
    /\ gate.at = "poll"
    /\ LET end(at) == gate' = [gate EXCEPT !.at = at] /\ UNCHANGED polls
           over == polls = 0 \/ workspace = "gone"
       IN \/ (over \/ answers # "nobody") /\ end("stop failed") /\ UNCHANGED smokes
          \/ ~over /\ answers = "workspace" /\ end("stop passed") /\ smokes' = smokes \cup {gate.run}
          \/ ~over /\ polls' = polls - 1 /\ UNCHANGED <<gate, smokes>>
    /\ UNCHANGED <<workspace, answers, leftBehind, reports, summary>>

\* Something else fails while the workspace is up, Ctrl-C for one.
PollRaises ==
    /\ gate.at = "poll"
    /\ gate' = [gate EXCEPT !.at = "stop raised"]
    /\ UNCHANGED <<workspace, answers, polls, smokes, leftBehind, reports, summary>>

\* finally: terminate, wait, kill.
Stopping == gate.at \in {"stop passed", "stop failed", "stop raised"}

StopWorkspace ==
    /\ Stopping /\ workspace \in {"starting", "serving"}
    /\ workspace' = "ending"
    /\ UNCHANGED <<gate, answers, polls, smokes, leftBehind, reports, summary>>

KillWorkspace ==
    /\ Stopping /\ workspace = "ending"
    /\ workspace' = "gone"
    /\ answers' = IF answers = "workspace" THEN "nobody" ELSE answers
    /\ UNCHANGED <<gate, polls, smokes, leftBehind, reports, summary>>

\* The process survives the kill and the second wait runs out of time, or Ctrl-C
\* comes before the try or within the finally.  What is left behind keeps its port:
\* the next smoke is given another.
LeaveWorkspace ==
    /\ Stopping \/ (gate.at = "poll" /\ polls = Polls)
    /\ workspace \in {"starting", "serving", "ending"}
    /\ gate' = [gate EXCEPT !.at = "raised"]
    /\ workspace' = "none" /\ leftBehind' = leftBehind \cup {gate.run}
    /\ answers' = IF answers = "workspace" THEN "nobody" ELSE answers
    /\ UNCHANGED <<polls, smokes, reports, summary>>

\* The directory of the smoke is removed on the way out, which may raise as well.
EndSmoke ==
    /\ Stopping /\ workspace = "gone"
    /\ \/ gate' = [gate EXCEPT !.at = "raised"] /\ UNCHANGED reports
       \/ gate.at # "stop raised" /\ Report(gate.at = "stop passed")
    /\ UNCHANGED <<workspace, answers, polls, smokes, leftBehind, summary>>

\* The workspace comes up when it gets its port, and may end at any time.
WorkspaceServes ==
    /\ workspace = "starting"
    /\ IF answers = "nobody" THEN workspace' = "serving" /\ answers' = "workspace"
       ELSE workspace' = "gone" /\ UNCHANGED answers
    /\ UNCHANGED <<gate, polls, smokes, leftBehind, reports, summary>>

WorkspaceEnds ==
    /\ workspace \in {"starting", "serving", "ending"}
    /\ workspace' = "gone"
    /\ answers' = IF answers = "workspace" THEN "nobody" ELSE answers
    /\ UNCHANGED <<gate, polls, smokes, leftBehind, reports, summary>>

\* Any other program may take the port meanwhile, and give it back.
AnotherServer ==
    /\ answers # "workspace"
    /\ answers' = IF answers = "another" THEN "nobody" ELSE "another"
    /\ UNCHANGED <<gate, workspace, polls, smokes, leftBehind, reports, summary>>

-----------------------------------------------------------------------------
WriteSummary ==
    /\ gate.at = "summary"
    /\ gate' = [gate EXCEPT !.at = "ended"]
    /\ summary' = [run |-> gate.run, profile |-> gate.profile, passed |-> gate.returncode = 0,
                   results |-> gate.results]
    /\ UNCHANGED <<workspace, answers, polls, smokes, leftBehind, reports>>

SummaryFails ==
    /\ gate.at = "summary"
    /\ gate' = [gate EXCEPT !.at = "raised"]
    /\ UNCHANGED <<workspace, answers, polls, smokes, leftBehind, reports, summary>>

GateNext ==
    \/ \E profile \in Profiles : StartProfile(profile)
    \/ \E passed \in BOOLEAN : RunOperation(passed)
    \/ OperationRaises \/ StartWorkspace \/ Poll \/ PollRaises \/ StopWorkspace \/ KillWorkspace
    \/ LeaveWorkspace \/ EndSmoke \/ WorkspaceServes \/ WorkspaceEnds \/ AnotherServer \/ WriteSummary \/ SummaryFails

GateSpec == GateInit /\ [][GateNext]_gateVars

-----------------------------------------------------------------------------
(* Properties.                                                                   *)

\* A summary that says passed was earned in one run: every operation of the profile
\* ran in it, in order, and passed, its report says so, and its workspace served its
\* page; a failed one ends with the operation that failed.  A run that left its
\* workspace behind writes none.
PassesAreEarned ==
    /\ summary.passed =>
          /\ summary.results = [i \in DOMAIN summary.profile |->
                                  [operation |-> summary.profile[i], passed |-> TRUE]]
          /\ Smoke \in ToSet(summary.profile) => summary.run \in smokes
          /\ gate.run = summary.run =>
                \A o \in ToSet(summary.profile) : reports[o] = [run |-> summary.run, passed |-> TRUE]
    /\ summary.run # 0 /\ ~summary.passed =>
          \A i \in DOMAIN summary.results : summary.results[i].passed <=> i # Len(summary.results)
    /\ summary.run \notin leftBehind

\* The workspace outlives the operation that started it only when that operation
\* raises: the run then ends with a traceback, and neither goes on nor sums up.
WorkspacesEndWithTheirSmoke ==
    /\ workspace \in {"starting", "serving", "ending"} => gate.at = "poll" \/ Stopping
    /\ gate.run \in leftBehind => gate.at = "raised"

=============================================================================

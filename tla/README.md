# A verification model of dev-logger-zscripts

This directory holds a TLA+ model of the repository, checked with TLC on small instances
and, where it matters most, proved with TLAPS for instances of any size. Its core is the
local repository-review workspace: discovery and analysis of a checkout, the store of
snapshots and findings, the jobs and the localhost API, and the browser views on top of
them. Around it stand the command line, the web crawler and the maintenance scripts.
`PROJECT.json` lists components, runs, mutants, theorems, findings and hazards, and
maps every definition of the model to the lines it stands for.

## 1. Inventory of the system

| Component | State it keeps | Operations that change it | Interacts with |
| --- | --- | --- | --- |
| Snapshot store (`infrastructure/snapshot_store.py`) | SQLite tables: repositories with a generation counter, analyses, immutable snapshots and their evidence, findings, reviews, an append-only event log, saved handoffs | `begin_analysis`, `update_analysis_progress`, `finish_analysis`, `save_completed_snapshot`, `update_finding_review`, `save_handoff`, schema migration | every thread and process, through one `BEGIN IMMEDIATE` transaction per operation |
| Analysis service (`application/repository_review.py`) | local variables of one `analyze` call | `analyze`, review updates, handoff rendering | discovery, analyzers, store, progress and cancellation callbacks |
| Job manager (same file) | job records, executor queue, worker threads | `start`, `cancel`, `get`, `shutdown`, `_run` | one service, API handlers |
| Localhost API (`interfaces/workspace_api.py`) | none of its own | HTTP handlers | job manager, service |
| Workspace UI (`workspace-ui/src`) | React state: displayed job, overview, pages, drafts | user events, polls, answers | API over HTTP, answers in any order |
| Discovery (`infrastructure/repository_discovery.py`) | counters of one walk | file walk under limits, scope resolution | file system, git |
| Analyzers (`python_analyzer`, `relationship_analysis`, `finding_analysis`) | none between calls | pure functions of the files read | service |
| Evidence status (`domain/repository_review.py`) | none | what a snapshot says of its limits | service, views |
| Comparison and handoffs (`comparison_analysis`, `handoff_rendering`, `domain/repository_comparison.py`) | none between calls | classification of changes, budgeted rendering | store, service |
| Command line and log toolkit (`cli.py`, `application/services.py`, `application/io_utils.py`, configuration) | one configuration, one log, one report per process | collect, report, diagnostics | extensions, telemetry, adapters, sandbox, the file system |
| Observability (`observability/`) | metric registry, health server and its port | start, stop, count | command line, crawler |
| Sandbox, extensions | registries, child processes | run, load | log toolkit |
| Web crawler (`helpers/web_crawl/`) | frontier, seen texts, rate-limit clocks, files on disk | crawl, retry, persist | the network |
| Maintenance scripts (`scripts/`) | worktree and its manifest; reports and summary of the gate | inventory, apply; run a profile | git, child processes |
| Legacy helpers | none shared | one-shot scripts | external tools |

What makes each part correct: the store gives the authority to resolve findings to one
attempt at a time, keeps every decision and explains every row by its history; an
attempt ends and its result is reported truthfully; a job answers polls consistently
across a restart; a view shows and sends what belongs to what is selected, and settles;
the graph reports every cycle and only cycles, and bounded results say that they are;
a comparison never takes what one side could not see for a change, and a handoff loses
evidence only for want of room, counts what it lost, and says so in both its texts;
discovery tells which limits and which files that do not parse make a snapshot partial, and
what the analyzers find can be stored; an upgrade is all or nothing; a command's exit code, a
gate's summary and a crawl's index can be relied on; a cleanup removes only what was reviewed.
Where the code falls short of this, section 6 says so, and the properties say what remains true.

What is hard here:

* **Concurrency.** Attempts on one repository overlap in the two worker threads of
  the workspace, in command-line processes, and in several workspaces sharing one
  data directory. Nothing but the store's transactions orders them.
* **Failure and cancellation.** An attempt may fail at any call, be cancelled between
  two checks, have its progress callback raise, or die with its process; its row in
  the store outlives it.
* **Ordering.** The generation that decides which attempt may reconcile findings is
  handed out after discovery, while the timestamp is taken before.
* **Two records of one job.** The workspace answers polls from memory while its
  process lives and from the store afterwards.
* **Answers that overtake each other.** Every view of the browser issues calls whose
  answers arrive late, fail, or come back after the user has moved on; each view keeps
  generation counters, timers and flags of its own to tell the answers apart.
* **Limits that interact.** A handoff is cut per section, finding and note, then fitted to
  a JSON and a Markdown budget; the notice of one cut is itself text that the other budget
  may not hold.
* **A world that moves.** Files change between the moment their size is taken, their bytes
  are read and an excerpt of them is shown; entries of a worktree between review and removal;
  ports between the moment they are chosen and used.
* **Several processes on one file or port.** Upgrades of one database, reports to one path
  and health servers on one port meet without knowing of each other.
* **Human decisions beside automatic evidence.** Reviews are guarded by versions,
  lifecycle events are appended by reconciliations, both write the same rows.

## 2. Modules

```
FindingLedger                what the findings queue promises (abstract)
     ^  INSTANCE, refinement mapping in ReviewStore
ReviewStore                  the store: one action per transaction
     ^  EXTENDS
ReviewService                analyze: attempts that overlap, fail, are cancelled, die
     ^  EXTENDS
ReviewJobs                   job manager, polls, crash and restart of the workspace
StoreUpgrade                 opening older databases, by several processes

RepositoryDiscovery          the walk of a checkout that changes, under its limits
NameResolution               operators: modules, imports and names to edges
PythonSyntax                 operators: what is taken from a syntax tree
FindingRules                 EXTENDS both: measures, rules, merging
EvidenceStatus               operators: what a reader is told of a snapshot
RepositoryAnalysis           EXTENDS the above: one scan from the files to the rows
RelationshipGraph            components, cycles and neighborhoods of a graph

SnapshotComparison           operators: what differs between two snapshots
     ^  EXTENDS
HandoffRendering             a handoff: comparison, request, cuts, budgets

ScanScreen                   App.tsx: scopes, scans, polls, snapshots
FindingsScreen               FindingsView.tsx: queue, detail, form, saves
HandoffScreen                HandoffView.tsx: evidence, preview, save, reopening
EvidenceReads                operators: a read whose late answers are worthless
EvidenceQueries              operators: what the service answers of one snapshot
SourceDrawer                 the excerpt of a selected item, files edited meanwhile
SymbolsScreen, RelationshipsScreen, CompareScreen    the three evidence views
EvidenceViews                EXTENDS them: one view mounted at a time

CommandLine                  commands that share a port and an output file
QualityGate                  the gate and the workspace it starts
WebCrawl                     frontier, limiter, retries, persistence
WorktreeCleanup              inventory, review and removal of a worktree

Sublists                     the rows of a list that pass a filter, with proofs

ReviewProofs                 EXTENDS ReviewJobs: store, service and jobs
SideBySideProofs             EXTENDS RelationshipGraph, CommandLine, QualityGate, WorktreeCleanup,
                             WebCrawl, StoreUpgrade and RepositoryAnalysis, which share nothing
HandoffRenderingProofs, ScanScreenProofs, FindingsScreenProofs, HandoffScreenProofs,
EvidenceViewsProofs          EXTEND their module

MCReviewStore, MCReviewService, MCReviewJobs, MCFindingsScreen, MCScanScreen, MCHandoffScreen,
MCHandoffRendering, MCEvidenceViews, MCRelationshipGraph        instances for TLC
MCSideBySide                 EXTENDS seven machines that share nothing; one runs per behavior
```

**FindingLedger.** A finding is absent, active or resolved and carries a versioned
review. A repository is observed as a whole: partially (only adds) or completely
(also resolves what it does not hold). A reviewer decides, one version at a time.

**ReviewStore.** The variables are the tables that decide what a scan means.
`BeginAnalysis`, `UpdateProgress`, `FinishAnalysis`, `SaveCompletedSnapshot` (with
`ReconcileFindings`, the whole of `_reconcile_findings`) and `UpdateFindingReview`
are the transactions. SQLite runs one writer at a time (`BEGIN IMMEDIATE`), so a
transaction is one action; one that raises rolls back and is a stutter. A snapshot
identifier is a digest of its content, so `Content` is a constant function of it.
Files, symbols, relationships and metrics of a snapshot are immutable rows that no
property of the store tells apart; `RepositoryAnalysis` has what is inserted. `finding_id` hashes the repository,
hence `Owner`. Rules that the code does *not* check are not checked here either:
`FinishAnalysis` and `UpdateProgress` are updates by identifier that ignore the state
of the row, as `finish_analysis` and `update_analysis_progress` are.

**ReviewService.** `pc` is the point of `analyze` an attempt has reached: the checks
of the cancellation callback, the progress reports (which are unchecked calls of
their own), the promotion and the two exception handlers. `Disturbances` lists what a
run lets go wrong: cancellation requests, exceptions in any call, an exception in
the report that follows the promotion, an exception inside a handler (after which the
attempt is `lost`: its row says that it still runs), and the death of the process.
`Discover` chooses the snapshot: everything the analyzers compute is a function of the
bytes discovery read. The module also models the readers whose answers depend on how
attempts interleaved: `finding_summary` (`ReconciliationComplete`) and
`snapshot_evidence_facts` (`LinkedAttempts`, `FactsSkipReason`).

**ReviewJobs.** `SubmitJob`, `CancelJob` and `Answer` are the endpoints; `PickUpJob`,
`Work`, `WorkOnFile`, `WorkGoesWrong` and `EndJob` are the worker threads running
`_run`; `Crash` kills the process between any two steps and leaves the store.

**The screens.** A React view is a state, the effects that run after a render when what
they depend on changed, the timers they set, and asynchronous functions suspended at
each `await`. In `ScanScreen`, `FindingsScreen` and `HandoffScreen` a call is a member of a set with the state it was
issued in; the service *serves* it at some moment, and the answer is *received*, or the
call *lost*, at a later one, in any order. A generation counter is only ever compared
with the current one, so a call carries whether it is still current (`live`) and no
number. `ScanScreen` has one call per run of `scanRepository` (with the
`beginAnalysis` it ends in), `openRecentRepository`, `loadSnapshot` and `cancelScan`,
and the scans of the service; `FindingsScreen` has the reads of the queue and of one
finding, the saves with their conflict answers, and another workspace that decides on
the same findings; `HandoffScreen` has the load effect and the three actions of the
handoff builder. In `FindingsScreen` and `HandoffScreen` the effects run before the
user acts again (`clicked`): React flushes them between two events. `blank` remembers, for the
properties only, why the queue shows no list and none is on its way.

**RelationshipGraph.** `strongly_connected_components`, the groups `cycle_groups` takes
from it, and `bounded_neighborhood`, step by step over a graph chosen at the start.
`VisitRoot`, `Expand`, `PushNeighbor`, `Finish` are the first pass with its explicit
stack; `NextComponent`, `AssignPredecessors` the second; `Ask`, `Widen`, `Answer` a
query under its limits. What the results should be is defined apart from the code:
`LeadsTo` by closed sets, `Ball` by levels.

**SnapshotComparison.** The evidence of a snapshot is a row of occurrences per section and
logical key, the fields of an occurrence one value. `Reasons` is the compatibility of a
section, `BaselineUncertain` and `TargetUncertain` what `_absence_uncertainty` makes of it,
`Aligned` the loops of the six `_..._deltas` functions: relationships are aligned by
position, the other sections go through dictionaries, where the last item of a key
replaces the others (`LastOf`). `Observes` relates evidence to the real content of the
repository: a complete analysis holds what it recognises of it, except the keys that depend on
files that could not be read or were taken for binary (`unread`), of which nothing is known, as
nothing is of what an incomplete analysis lacks, misreads or makes up. `AbsenceIsReal`,
`Mirrored` and `Replays` say what the deltas promise of that content.

**HandoffRendering.** One request from the comparison to the two texts: `Compare`, `Ask`,
`Refuse`, then `CutSections` and `CutFindings` (`render_handoff`), then the budgets
(`_finalize_budgeted_outputs`): `FitJson`, `FitMarkdown`, `AnnounceCut`, `Retract`,
`CutMarkdown`. The JSON is the payload it was made from, the Markdown is the payload, the
warnings it shows (its Analysis Gaps) and whether it was cut; a cut may take any of the warnings
away. The length of a text is the sum of the lengths of its parts, which are constants: the
required part, one item, one notice.

**RepositoryDiscovery** and **RepositoryAnalysis.** A path is a number in the order the code
sorts by; `Traits` says what its names match (tracked, ignored, cached, sensitive, ...), and
what is found there is read from `checkout`, which `Edit` may write at any step. `List` takes
the candidates inside or outside git; `LeaveOut`, `MeetLimit` and `Open` decide on one file by
its size, `Read` takes its bytes later. `AnalyzeFile`, `Relate`, `Find` and `Store` are the
phases between which a cancellation is looked at. A syntax tree is cut down to the nodes the analyzers
read (`PythonSyntax`), a dotted name is a sequence. The visitors of the code recurse into a tree;
the module goes through it level by level, up to the bound `MaxNesting`, and `IsDeepEnough` demands
that nothing lies below. `IsSyntax` is what the parser guarantees of a tree: two definitions do not
start at one line (what stands behind a colon or a semicolon is a simple statement), the names
imported at one place come from one statement, names are not empty, lines start at 1.
`Relate` makes a row per import and per reference, each with its edge, so that two rows of one
edge are two; the text of a reference is part of an edge only while it is not resolved, and
`Excerpt` is what is kept of the source of a base. The cycles are those of the code's own search
in two passes (`Finished`, `Assigned`), in an order of the nodes that is a constant
(`IdPrecedes`: identifiers are digests). `InsertSnapshot` has the keys of the tables: two rows
with one key reject the whole snapshot.

**StoreUpgrade.** `file` is the committed database, `draft` the one the open transaction sees.
`OpenStore`, `Migrate` (the statements of a version, then what it computes), `Commit`,
`Rollback` by failure or death, `Busy`, and `BeginAnalysis` in the upgraded store. An older
history has `MaxKept` attempts with any start times (of `Times`, which may be equal), any outcome
and, from version 4 on, generations given out in any order, for a start time is read before
discovery and a generation after it; an attempt that begins later may have an earlier time, too.

**The evidence views.** A reader (`EvidenceReads`) is what is shown, the question it was asked
for, and the calls still out; the views differ in when they ask, what they clear and which
answers they use. `EvidenceQueries` computes the answers from constants, so that a wrong page or
a refused focus is an answer and not an abstraction. The symbol view, the graph view and the
comparison are mounted one at a time, as `App.tsx` does.

**CommandLine.** An invocation goes through `configure`, `extend`, `parse`, `start`, then
`collect`, `render`, `print`, the steps of `_atomic_write` (the temporary file is there before its
name is known, `NameTemporary`; `CleanUp` removes it if it can), and the exit. A process may be
interrupted or die at every point once it is under way; before that it has neither a port nor a
file. `QualityGate`, `WebCrawl` and `WorktreeCleanup` are loops of the same kind: their actions
are the statements between which somebody else can act. The gate may leave its workspace behind
(`LeaveWorkspace`: the child survives its kill, or Ctrl-C comes between). In the crawler a request
is sent some time after its slot (`Send`), for a hook runs in between; time is what is left of each
wait, so no clock grows. The removal of an entry is one call per directory above it
(`CheckDirectory`), one for its type (`StatEntry`), one that reads it (`ReadEntry`) and the one that
removes it (`RemoveEntry`), with others acting between any two; `looked` holds what was looked at
for this entry and has not changed since.

Each module keeps, next to a definition, the mutated form (`Bug...`) of it that a
plausible mistake would give; the mutants listed in `PROJECT.json` put it in place
of the original, and the named property must then fail.

## 3. Runs

| Run | Instance | What it shows |
| --- | --- | --- |
| `store_operations` | 2 repositories, 2 attempts, 3 findings, 5 snapshots (complete, truncated, parse gaps), 3 promotions, 2 decisions per finding | for any order of transactions: rows backed by snapshots, history that explains the rows, no lost decision, resolution only by the newest complete scan, refinement of the ledger |
| `service_attempts` | 2 attempts on 1 repository, 2 findings, 3 outcomes, every disturbance, 1 decision | findings follow the newest reconciliation; what summaries say is true; an attempt with a row ends when its process lives and its last write succeeds |
| `jobs_restart` | 2 jobs, 1 thread, 1 crash | polls never contradict the store or an earlier answer; every accepted job ends while its process lives |
| `scan_screen` | 2 paths (one with a broader root), 1 recent repository, 2 scans, 2 calls at a time, calls may fail | what is scanned is what the form says and the user agreed to; a followed scan ends in its overview, in an error or in a newer scan |
| `findings_screen` | 2 findings, 2 decisions each, 2 reads of the queue at a time, another workspace | detail, source and form are of the selected finding; a save is followed by a refresh; the queue never goes back in time |
| `findings_settle` | 2 findings, pages of one, 2 filters, a queue that shrinks | the list catches up with the page and filter asked for |
| `handoff_screen` | 2 pairs, a stored handoff and 1 saved, calls may fail | output and evidence settle on the pair shown; a reopening is never forgotten half way |
| `handoff_rendering` | 2 keys, 2 values, 2 versions; 3588 pairs compared, 4 pairs rendered under 3216 requests, with any of the deltas | absences are real, comparisons tell every difference; selected evidence is shown or counted but for what the code loses, labelled when partial, and dropped only for want of room; both texts are of one payload and say what is cut or omitted |
| `evidence_views` | 3 symbols, 6 nodes, 2 snapshots, pages of 2, 2 unanswered calls per reader, 4 clicks, edits | a settled view answers its toolbar; excerpts are the scanned source; an offered node can be focused; the node list and the comparison settle |
| `side_by_side` | seven machines, one per behavior: analysis, graph, upgrade, crawl, cleanup, commands, gate (below) | what is left out is told; evidence can be stored unless a file repeats itself; resolutions are backed; no cycle is missed and neighborhoods are true; upgrades are sound; crawls are complete and paced; what is removed was reviewed, but for what changes after the last look; commands end clean and their exit code is truthful; passes are earned |
| `saving_stuck`, `false_cycle` | the findings view; 5 nodes | disagreements between the documentation and the code (section 6) |

The machines of `side_by_side`: **analysis**, 10 paths in and outside git, texts that parse, do
not, are binary, unreadable or too deep, or repeat an import, a base or a type (those that do not
parse or repeat themselves with a few of the other files only), one edit during the scan, at most
5 files of 2 units and 5 units in all; **graph**, every subset of 11 candidate edges over 5 nodes,
8 queries; **upgrade**, databases of versions -1 (none) to 7 (too new) and every older history of
three attempts with two start times and any order of generations, two openers, one attempt after
it; **crawl**, 7 urls with a cycle, a shortcut, a redirect, a duplicate text, a page of another
type and another domain, 4 configurations, one retry, requests up to 2 of the 3 units of the
interval behind their slot; **cleanup**, a directory with a file, a link, git's metadata, two
changes by others, two applications; **command**, two processes with each of 17 invocations;
**gate**, two profiles, two runs, two polls, another server on the port. They share no variable,
so their behaviors side by side are those of each alone, and one run explores all of them.

**Bounds.** `MaxSaves` and `MaxDecisions` cap promotions and decisions; `MaxCrashes`
caps restarts. Three promotions are enough for first sighting, resolution and
reactivation of one finding; two decisions for a conflict; two attempts for one that is
superseded by the other (three are covered by the proofs). Two
repositories appear in the store run only, because attempts on different
repositories share nothing but the store. In the screens two calls of one kind are
enough for an answer that overtakes another; `MaxJobs`, `MaxVersion`, `MaxOthers` and
`MaxSaved` cap what the service accumulates; `MaxCalls`, `MaxLists`, `MaxDetails` and
`MaxLoads` cap what may be unanswered when the user acts again. Five nodes hold two
cycles with a path between them, and a node reached on two paths of different length.
`MaxClicks` caps what the user does with an evidence view; four clicks are a question, two that
overtake it and a selection. In `handoff_rendering` every pair of observations of one section is compared, and the
constraint `RenderFewPairs` lets handoffs be made of four pairs only: complete, partial on
both sides, of different repositories, without baseline. The JSON limit runs from 4 to 30
and the Markdown limit from 3 to 16, from less than the required part to more than all the
evidence, so each branch of the fitting is taken, the retraction of the notice too.
Two processes are enough for the races of commands and upgrades, which are between a writer and
one other; any number is covered by the proofs. Symmetry is used for attempts only (their
identifiers are never compared) and never in a run that checks liveness.

**Deadlock.** The store, scan and findings runs check for it, and `false_cycle` does. The
others switch it off: attempts end, a workspace nobody uses may stop, a view whose calls are
answered and whose clicks are spent waits for the reviewer, a rendered handoff is rendered, and
each of the machines side by side comes to its end.

**Fairness.** `FairServiceSpec` assumes weak fairness of each attempt's `Step`: a thread
or process that is alive is scheduled. `Step` excludes `ReportFile`, a loop over
finitely many files that `PassCheck` leaves. `FairJobSpec` assumes it of the executor
picking up queued jobs and of each running job. `ScanScreen` assumes that scans end
(`JobsEnd`, what `jobs_restart` shows) and that every call is served and its
continuation resumed; `FindingsScreen` and `HandoffScreen` that effects run, timers
fire and every call is answered *or fails* (`fetch` settles); `EvidenceViews` the same of the
calls of the node list and of the comparison, the two it speaks of. Nothing assumes that a
user acts, that something fails or succeeds, or that an attempt is started.
`AttemptsEnd` speaks of attempts whose process lives and whose last write succeeds:
after a death, or an exception inside a handler, a row does stay `started`, and the code has
no recovery for that: a screen that is loaded again polls it for ever, its cancellation is
answered with 404 because the manager of the new process does not know the job, and only a
newer attempt takes over the findings.

## 4. What is proved

The theorems are in eight modules; each holds for every value of the constants that the named
assumptions of the module it is about allow. No bound of section 3 appears in them: any number
of attempts, processes, calls, clicks, findings, paths and pages, and any size of what they
read. The bounds `Max...` are in the guards, so a theorem covers every value of them, too.

How the proofs go: an invariant that a run checks is seldom inductive. Each proof names the
strengthening (`...Inv`), shows that the initial states have it, that every action keeps it (one
step per action), and that it gives the property. Facts about a list, a queue or a chain of
neighbors that need an induction over the natural numbers get it without the induction theorems
of the library, whose parameter is an operator: the numbers at which a fact fails are a set, and
if it is not empty it has a least member (`LeastNumber`, `UpToBound` in `Sublists`, from the
well-foundedness of inclusion of finite sets).

`ReviewProofs`, of the store, from `ContentAssumption` (snapshots hold findings of their own
repository), `NullAssumption` and `BoundAssumption`:

| Theorem | Statement | Argument |
| --- | --- | --- |
| `TypeCorrect` | `[]TypeOK` | inductive as it stands; one case per transaction |
| `GenerationsUnique` | `[]GenerationsAreUnique` | strengthened by `GenerationsAreIssued`: the generation of an attempt lies between 1 and the counter of its repository, so the next one is new |
| `EvidenceAlwaysBacks` | `[]EvidenceBacksFindings` | `FindingStep`: every step sights, resolves, decides or leaves alone each finding |
| `HistoryIsFaithful` | `[](HistoryExplainsFindings /\ HistoryIsWellFormed)` | the two are inductive only together, and only with "an absent finding has no lifecycle event": the event to append depends on what the last one says of the row |
| `DecisionsAlwaysRecorded` | `[]DecisionsAreRecorded` | a decision is appended under the next version; lifecycle events keep the recorded ones |
| `DecisionsSurviveReconciliation` | `EvidenceNeverChangesDecisions` | from `FindingStep` |
| `ResolutionNeedsAuthority` | `OnlyNewestCompleteScanResolves` | the resolving attempt's generation equals the counter, which bounds all others (`GenerationsAreIssued`) |
| `StoreImplementsLedger` | `ImplementsLedger` | a promotion is a partial or complete observation, or a stutter; needs "unseen findings are undecided" |

of the service, for any number of attempts with every disturbance:

| Theorem | Statement | Argument |
| --- | --- | --- |
| `ServiceImplementsStore` | `ServiceSpec => Spec` | every step of an attempt is one transaction of the store or leaves its tables alone, so all theorems above hold of the service |
| `FindingsFollow` | `[]FindingsFollowNewestReconciliation` | `FollowInv`: an attempt reconciles at most once and only after it has a row (`PromotionIsOnce`), and of several reconciliations of a repository one is the newest, although attempts may be infinitely many (`NewestExists`) |
| `SummariesAreTruthful` | `[]SummaryIsTruthful` | `RowsFit` ties the row of an attempt to the point it has reached (`PointFits`) and to what it promoted (`SnapshotFits`); the newest attempt that promoted something exists (`NewestPromotedExists`). A summary that claims reconciliation is then of the newest reconciliation, whose findings `FollowInv` knows |
| `FailedOwnNothing` | `[]FailedAttemptsOwnNoSnapshot`, if the report after the promotion never raises | `FailuresPromoteNothing`; without the hypothesis it is false (section 6, item 3) |

and of the running workspace, for any number of jobs, workers, polls and restarts:

| Theorem | Statement | Argument |
| --- | --- | --- |
| `JobsImplementStore` | `JobSpec => Spec` | a step of the jobs is a step of the service, or comes from `Outside`: cancellations asked for, attempts dead together |
| `JobSummariesAreTruthful` | `JobSpec => []SummaryIsTruthful` | the invariant of the attempts (`AttemptInv`) also survives what comes from outside |
| `CompletedAnswersName` | an answer that says completed names the snapshot of a completed row | `JobInv`: a record agrees with the point of its attempt (`JobFits`), so memory and table cannot disagree about success; a queued job waits once and nobody has begun it (`QueueFits`) |
| `AnswersAreStored` | `[]CompletedAnswersAreStored`, if the report after the promotion never raises | the same, and `FailuresPromoteNothing` |
| `AnswersStayFinal` | `AnswersAreFinal`, if neither that report nor an exception handler raises | by `JobInv`, an answer that is an end is backed by a row that no later step touches, or by none at all |

The hypotheses of the last two are those under which they are true. A report that raises after
the promotion turns a completed row into a failed one (section 6, item 3), and a handler that
raises leaves a row that says `started` behind a job that says `failed`; a restart then changes
the answer. `jobs_restart` lets calls fail, but not those two.

`SideBySideProofs`, of the graph, for any finite graph of numbered nodes (`GraphAssumption`):

| Theorem | Statement | Argument |
| --- | --- | --- |
| `CyclesReported` | `[]EveryCycleIsReported` | type correctness (`TypeCorrect`) and `SearchInv`: visited nodes are on the stack or finished, finished nodes are still to come or numbered, and whatever leads to a numbered node has a number that is not larger (`ClosedBackwards`, except from nodes still on the component's stack). A set closed backwards swallows a cycle whole. Nothing of the finish order is used, and the converse, which needs it, is false (section 6) |
| `NeighborhoodsAreAlwaysTrue` | `[]NeighborhoodsAreTrue` | `Reached`: a distance is the level at which a node first comes within reach; `QueueIsSorted`: the queue holds at most two layers, the nearer first; `NoRoomIsLeft`: once a node is left out no other gets in; `RestIsQueued`: a node whose neighbors are not all known waits, or is at the limit of depth. When the queue is empty what is known is the ball |

of commands, for any processes, invocations, settings and layers of configuration, from
`CommandAssumption` (the three settings exist and have defaults; no process is called `Unset`):

| Theorem | Statement | Argument |
| --- | --- | --- |
| `CommandsAlwaysEndClean` | `[]CommandsEndClean` | `WritingInv`: a temporary file is there only while its process writes, after its death, or beside an exit that reports a failure or an interruption, and it is whole when it gets its name; `ServingInv`: the port is held only by a command under way |
| `ExitCodesAreTruthful` | `[]ExitCodeIsTruthful` | `ReportInv` carries the configuration, the log, the severity and the writing from the step that establishes each to the exit; a layer replaces what it sets and nothing else, so the value in force is that of the last layer that has one |

of the quality gate, for any profiles, polls and runs, from `GateAssumption` and
`ProfilesAssumption` (a profile is a non-empty sequence):

| Theorem | Statement | Argument |
| --- | --- | --- |
| `PassesAreAlwaysEarned` | `[]PassesAreEarned` | `RunInv`: up to the operation under way all have passed in this run; `SummaryInv`: the summary is of an earlier run, or of this one when it has ended |
| `WorkspacesAlwaysEnd` | `[]WorkspacesEndWithTheirSmoke` | `WorkspaceInv`: a workspace is there only while its operation is, or was left behind by a run that raised (section 6, item 28) |

of the removal of a worktree, for any directory, any number of applications and of changes by
others:

| Theorem | Statement | Argument |
| --- | --- | --- |
| `OnlyReviewedContentIsEverRemoved` | `[]OnlyReviewedContentIsRemoved` | `LookedInv`: a directory above the entry in hand is, until somebody changes it, as it was looked at; `ReadInv`: the entry is as it was read; an entry below plain directories is not reached through a link (`PlainIsInside`). What changes between the last look and the removal is excepted by the property (section 6, item 30) |

of the crawler, for any site, limits and answers, from `CrawlAssumption`, `SiteAssumption` (links
and final addresses are of the site) and `ConfigAssumption`:

| Theorem | Statement | Argument |
| --- | --- | --- |
| `CrawlsAreAlwaysComplete` | `[]CrawlsAreComplete` | `FrontierInv`: the frontier is in the order of depth, of at most two depths, so a page is first taken by a shortest way (`DepthInv`); `ReachInv`: what was taken or waits is the root and what pages link to; `OutcomeInv`: what was taken is a page, given up, skipped or in hand; `FilesInv`: an entry of the index has its files. When nothing waits the pages are closed under links |
| `RequestsAreAlwaysPaced` | `[]RequestsArePaced` | `PaceInv`: the next slot is an interval after that of the last request, which was sent `late` after its own, and no slot is before the time an answer asked for |

and of upgrades, for any openers, any number of older attempts, any start times and any order of
their generations, from `VersionsAssumption`, `HistoryAssumption` and `OpenersAssumption`:

| Theorem | Statement | Argument |
| --- | --- | --- |
| `UpgradesAreAllOrNothing` | `[]UpgradeIsAllOrNothing` | `DraftInv`: the schema of the draft is that of the version it has reached, or of the next when its statements have run; the file changes only by a commit at the newest version (`FileInv`, `OpenInv`) |
| `UpgradedStoresAreAlwaysSound` | `[]UpgradedStoresAreSound` | `HistoryInv`, of the file and of the draft: before version 4 identifiers tell the attempts of a repository apart (`Unnumbered`); from then on generations do, those the upgrade gives in the order in which the attempts started and those given since above all that are there, and the counters are at the newest (`Continued`). The rank of an attempt among those before it is a cardinality: a proper subset has fewer members |

and of scans, for any checkout, edits, limits, policy and syntax trees, from `DiscoveryAssumption` and
`AnalysisAssumption` (files that are met have a text that parses into a tree with `IsSyntax`, or one that
does not parse; paths have names; the marks `None` and `NoName` are no reason and no node):

| Theorem | Statement | Argument |
| --- | --- | --- |
| `LeftOutFilesAreAlwaysTold` | `[]LeftOutFilesAreTold` | `ScanInv`. A path is a candidate, the one that is read, or recorded, and never two of these (`RecordedOnce`); so the counters and diagnostics were told what the record says when it was written, and only then (`LimitsAreTold`, `GapsAreTold`); the files that were parsed are those that are included (`ParsedIsIncluded`); the modules are of all that parse (`EvidenceIsOfTheFiles`). Unreadable and binary files are no limitation (section 6, item 18) |
| `EvidenceCanAlwaysBeStored` | `[]EvidenceCanBeStored` | `RowsFit`, for each table. Modules: one per path. Symbols: a definition is known by its line (`SymbolsDiffer`), and the one around it is a symbol as well (`ChainsGrow`, `ChainsClosed`, `HolderIsDefined`: chains of definitions closed under prefixes, by the least length at which one fails). Relationships: two rows of one edge are the same row, or a file repeats itself (`ImportsDiffer`, `ReferencesDiffer`), and ends are nodes (`EdgesFit`). Cycles: members are ends of edges. Findings: merged groups have different identities, and what merges is of one rule and severity (`OneFindingOfEach`) |
| `ResolutionsAreAlwaysBacked` | `[]ResolutionsAreBacked` | the edges are those of the files until they are stored (`EdgesAreOfTheFiles`); the rest is about names. A module lies where its name says (`ModulesLie`), and a relative import starts from the directory of its file (`RelativeLeadsUpwards`). Of two ways of cutting a qualified name into module and symbol, one module begins the other (`Halves`), and every beginning of the name of a symbol is the name of one (`SymbolsAround`): so what a local name, a module or a symbol that is bound by an import leads to is of the module that was imported, or is one of the exceptions (section 6, item 25) |

`HandoffRenderingProofs`, for any snapshots, requests, lengths and limits, from
`ObservationAssumption` (`Observes`: complete evidence is that of the files that were read; of
incomplete evidence nothing is assumed), `VersionAssumption` and
`RenderingAssumption` (lengths and limits are natural numbers, what is selected is finite):

| Theorem | Statement | Argument |
| --- | --- | --- |
| `ComparisonIsSymmetric`, `AlwaysMirrors` | comparing the other way round mirrors every delta | exchanging the sides exchanges the reasons, and the change of each position |
| `AbsenceAlwaysTrue` | `[]AbsenceIsTrue` | a side that is not uncertain is complete and of the other's version, so what it lacks and the other has is not there, unless it depends on a file that was not read |
| `DifferenceAlwaysTold` | `[]DeltasTellTheDifference` | a position without a delta holds the same on both sides. Relationships may occur any number of times; of other keys those that occur more than once are excepted (`Single`; section 6, item 13) |
| `OutputsAlwaysAgree` | `[]OutputsTellTheSame` | `OutputInv` follows the warnings and counts through announcement and retraction (`RetractionUndoes`) |
| `PartialAlwaysLabelled` | `[]PartialEvidenceIsLabelled` | no step takes back a warning of the payload but that of the Markdown budget, and only a cut takes one from the Markdown (section 6, item 26) |
| `OnlyForRoom` | `[]EvidenceIsDroppedOnlyForRoom` | `RoomInv` ties the payload of each phase to the one that was assembled; a notice only lengthens a text (`NoticeIsLonger`), and omission and notice commute |
| `EvidenceAlwaysAccountedFor` | `[]EvidenceIsAccountedFor` | `AccountInv`: after the cut of the sections, what is shown and what is counted make up the selected deltas, because the sections are disjoint (`SizeBySection`); the cut of the findings adds theirs; every step of the fitting moves items from what is shown to the count (`FittingAddsUp`). What the code shows and counts nowhere is a number of its own (`Lost`; section 6, item 12) |

The screens, for any number of calls under way that are answered, fail and overtake each other
in any order, while the user goes on:

| Theorem | Statement | Argument |
| --- | --- | --- |
| `ScansAlwaysWhatThePathSays` (`ScanScreenProofs`) | `ScansWhatThePathSays` | `ScopeInv`: a resolution that still counts is one of the path in the form, its answer is the root of that path, and a scope to be confirmed is one of that path |
| `DetailIsAlwaysOfSelection` (`FindingsScreenProofs`) | `[]DetailIsOfSelection` | `SelectionInv`: reads, saves and the timer that count are of the selection. From `QueueAssumption` and `BoundAssumption`, as the next two |
| `RefreshAlwaysFollowsSave` | `[]RefreshFollowsSave` | `QueueInv`: of the reads of the queue one counts, and it is later than the review whose saving is announced; `ReadsInv`: a detail is read once for a selection, before anything of it can be saved; `AnswersInv`: nothing read is later than what is stored |
| `QueueAlwaysMovesForward` | `QueueMovesForward` | `QueueInv`: the read that counts is not earlier than the queue on the screen |
| `ScreenIsAlwaysOfThePair` (`HandoffScreenProofs`) | `[]ScreenIsOfThePair` | `EffectInv`: loads that count and what is listed are of the pair the effect ran for; `ActionInv`: one action counts, and while a reopening waits nothing saved is displayed; `SavedInv`. From `StoredAssumption` and `BoundAssumption` |
| `ExcerptsAlwaysScanned` (`EvidenceViewsProofs`) | `[]ExcerptsAreTheScannedSource` | `ExcerptInv`: the one read that counts is of the picked item, and an answer with a text was given while the file was as scanned |
| `OfferedNodesCanAlwaysBeFocused` | `OfferedNodesCanBeFocused` | `NodesInv`: the nodes offered are those the service listed for the mode they were asked for. From `ModesAssumption` and `OrderAssumption` |
| `ViewsAlwaysAnswerTheToolbar` | `[]SettledViewsAnswerTheToolbar` | `RowsInv`, `CompareInv`, `StatusInv`, `NodesInv`, `GraphInv`: a read that counts asks what the toolbar says, and if none is out its answer or its error is shown. One hypothesis, `NothingIsNoAnswer`: the mark of an empty place on the screen is none of the answers (`undefined` is no response of the service) |

`Sublists` has what the others need of the filter of a list: the members that pass, in their order,
each of them once per occurrence (`PickedElements`). `WebCrawl`, `FindingsScreen` and
`EvidenceQueries` filter with it.

Out of the prover's reach and left to TLC:

* liveness under fairness: `AttemptsEnd`, `JobsEnd`, `FollowedScansAreShown`, `QueueSettles`,
  `ReopenSettles`, `ViewsSettle`;
* the type invariants of the modules other than `ReviewStore`, `ReviewJobs` and
  `RelationshipGraph`, beyond the parts of them that the invariants above contain.

## 5. What is not modelled, and why

* Reads of one snapshot other than those of the evidence views: immutable data.
* `AnalysisJobView` returned by `start` itself is read outside the manager's lock and can
  be torn; the model's polls are those of `get`, which takes the lock.
* File contents and SQLite's own crash recovery: a transaction is atomic and durable.
* In the views: clipboard, downloads, notes, focus and layout; in the handoff view also
  the choice of single findings and the mount of another repository.
* In discovery: parsing what git prints, remote addresses, the identifier of a repository. In
  the analyzers: signatures, annotations and explanations as text; `graph_metrics` (counts).
* In the command line: parsing of options, the adapters of log formats, the text of reports, and
  commands that print one answer (`adapters`, `examples`, `explain`, `guardrails`, `redact`,
  `summarize`); `experimental analyze` is an attempt of `ReviewService`.
* The sandbox beyond its outcome, what extensions register, and the metric registry.
* In the crawler: parsing of HTML, charsets and the network; the requests for robots.txt, which take
  no slot; a site does not change during a crawl, and one crawler uses one limiter.
* In the quality gate: its own death, and another server that shows the title of the product.
* Legacy helpers, `evaluate_repository_review.py` and `inventory_legacy_helpers.py`: they read
  once and print, and keep no state.
* In comparisons: that what was *there* really was. A cycle seen in part is a cycle of fewer
  members, under another key, and a file that does not parse may leave an import unresolved.
  `Observes` allows both; `AbsenceIsTrue` is about the side on which something is said to be
  missing.
* In handoffs: the wording and the exact lengths (a larger count may take one more digit),
  the order in which items are cut, and cycles selected by their identifiers, which select
  the same deltas.
* The type invariants of the modules and `SnapshotsKeepTheirAttempt` hold on the same instances;
  they are not repeated in the runs, which keep to what a defect could plausibly break.
* Components listed as `not_modelled` in `PROJECT.json`, each with its reason.

## 6. Where the code and its documentation disagree

Shown by a run:

1. The Save button reads "Saving" (`FindingsView.tsx:892`). Selecting another finding
   while a save is out leaves the mark set for ever: every form of the view is then
   disabled until the view is mounted again (`saving_stuck`).
2. `docs/architecture.md:58`: Kosaraju traversal identifies strongly connected
   components. Nodes are marked visited when they are pushed, so the finish order is not
   that of a depth-first search: the acyclic edges 1->2, 1->3, 2->3 give the component
   {2, 3}, a false import cycle (`false_cycle`).

Stated in the modules, found violated by TLC when added to the run of the module, and
not kept as runs of their own:

3. `FailedAttemptsOwnNoSnapshot` (`docs/repository-review.md:218`: failed attempts are never
   promoted as completed snapshots). A report that raises after the promotion marks the
   row failed although it owns the snapshot it promoted and reconciled.
4. `OnlyLatestStartedResolves` (`docs/architecture.md:69`, `docs/repository-review.md:317`:
   only the latest-started analysis reconciles). The generation is taken after
   discovery, so the one that *finished discovery* last does.
5. `SupersededSnapshotsCarryNoAuthority` (`docs/repository-review.md:88`). A snapshot that
   did become authoritative is reported `lifecycle-superseded` when a later, superseded
   attempt reproduces its content.
6. `RunningScansAreFollowed` (`docs/workflows.md:74`). The answer of a cancellation, read
   while the scan ran, replaces the last poll, and the screen says for ever that it runs.
7. `OneStartAtATime` (`docs/repository-review.md:485`). Another start is possible between
   a resolution that answers late and the scan it starts.
8. `LastChoiceIsShown`. Snapshots and repositories are opened without a generation
   counter: the slower answer wins.
9. `AsksForPages` (`workspace_api.py:1048`, `CompareView.tsx:327`). When the queue becomes
   empty the view asks for page 0, which the endpoint refuses.
10. `DetailIsThere` (`docs/workflows.md:79`) and `QueueShowsOwnReviews`
    (`CHANGELOG.md:133`). After some orders of selection, save and refresh nothing is
    under way although the detail is missing, or the queue is older than the last save.
11. `BusyMeansUnderWay` (`docs/workflows.md:88`), `ReopeningClearsOutput`
    (`docs/repository-review.md:198`) and `SelectionIsOfThePair`
    (`HandoffView.test.tsx:338`). A superseded action leaves the handoff view busy; output
    of the previous pair stays while a handoff is reopened; evidence picked for a pair
    that was left can stay selected.

In the handoffs, seen with TLC by dropping the exceptions of the properties:

12. `docs/repository-review.md:189` says that omitted evidence comes with counts.
    `omitted["findings"] = ...` (`handoff_rendering.py:102`) replaces the count of the finding
    deltas that were cut, and findings within the budget of a section that is switched off are
    neither shown nor counted. `SelectedEvidenceIsAccountedFor` has exactly these as `Lost`.
13. `docs/repository-review.md:329` says that complete evidence yields what was added and
    removed. Two items of one logical key (the getter and the setter of a property share
    language, kind and qualified name, `comparison_analysis.py:314`) overwrite each other in
    the dictionaries: the change or removal of the first goes unseen (`Single`).
14. `_finalize_budgeted_outputs` means to classify Markdown truncation truthfully
    (`handoff_rendering.py:372`). When the evidence was omitted for the JSON's sake, the
    Markdown can be cut and said to have reached its budget although without the notice of
    the cut all of it would fit.

Met while modelling, and left out of a property (the comment of the property says so) or
only observed:

15. A report that raises after the promotion leaves a failed row behind (item 3), and the summary
    then quotes an older completed row: `SummaryIsTruthful` excepts `FailedAfterPromotion`.
16. `from x import y as a, y as b`, `import os, os`, `class A(B, B)` and `x: "A | m.A"`, if both
    names are of one class, give two relationships of one identifier (`relationship_analysis.py:114`:
    the text is no part of it when the name is resolved); the insertion fails and the analysis with
    it. `EvidenceCanBeStored` excepts just this (`RepeatsItself`). A base class of the name of the
    class, imported from elsewhere, is reported as a confirmed inheritance cycle.
17. One level too many in a relative import resolves to a top-level module of that name
    (`relationship_analysis.py:650`); `src/` and `lib/` are one tree of packages.
18. An unreadable file and one taken for binary are left out of a snapshot that says it is
    complete (`repository_discovery.py:371-386`). A file that became unreadable is therefore told
    as removed, with all that depends on it, although `docs/api.md:173` says that partial absence
    never masquerades as a confirmed addition or removal, and `docs/repository-review.md:177`
    that absence from incomplete evidence is no removal. `AbsenceIsTrue` and
    `DeltasTellTheDifference` except the keys that depend on such files (`unread`), and
    `LeftOutFilesAreTold` says that an unreadable file has a diagnostic and is no limitation. The
    sizes that are limited are those from before the file is read.
19. The graph view: after an error of the graph, clicking the same node or the same cycle again
    clears the error without asking again, and the view loads for ever; a node of the neighborhood
    that is not in the list cannot be focused. The comparison shows the summary of the previous pair
    while the next one loads. `ViewsSettle` is about the node list and the comparison only.
20. The source of an excerpt is clipped to `max_source_lines` without saying so, and the drawer never shows
    `truncated`.
21. The crawler says "within the same crawl run" (`crawler.py:12`), but the texts seen survive a
    second `crawl()`; a failed persist still marks its text as seen; the address a redirect leads
    to is not checked against robots.txt. A page met twice under one final address is written over in place.
22. `cli.py`: the option `--command` overwrites the name of the subcommand, so `collect`, `parse`
    and `report` are counted under another name; an interrupted command is counted as a success;
    errors of extensions, of the telemetry port and of an undecodable configuration escape uncounted, with
    the exit code that also says "the report fails the policy". `ExitCodeIsTruthful` is about
    exits without a traceback.
23. `quality_gate.py` catches `GateFailure` only: any other exception leaves no summary, and the
    one of an earlier run stays. The port of the smoke test is chosen, released and then used.
24. `metrics.py` cumulates the buckets of a histogram twice.
25. Names are resolved without asking what they name. A type that resolves to a class of another
    module is not always backed by an import of that module: two modules below `src/` and `lib/` may
    share its name, and then the import is ambiguous and the class need not be; in the `__init__` of
    a package `sub.Class` is taken for a class of the submodule, imported or not; a class
    of the name of a submodule, or one an import goes through (`from pkg.a import B` where `pkg.a` is
    a class), stands for the module of that name. `UsesAreBackedByImports` excepts these.
26. A partial comparison is labelled in its JSON always, in its Markdown under "Analysis Gaps". These
    come late, and a Markdown that is cut loses its end (`handoff_rendering.py:470-476`): the labels
    can go, and only the line about the cut remains. `PartialEvidenceIsLabelled` demands them of a
    Markdown that is not cut.
27. `_atomic_write` ignores that its temporary file cannot be removed (the comment at
    `io_utils.py:93` leaves it to the user), and an interruption between its creation and the
    assignment of its path (`io_utils.py:79-80`) leaves it, too. `OutputFilesAreWhole` allows it
    beside an exit that reports a failure or an interruption.
28. The quality gate waits twice for the workspace it started (`quality_gate.py:425-432`). If the
    second wait runs out of time, or Ctrl-C comes in either, the child lives on; the exception
    ends the gate without a summary (`WorkspacesEndWithTheirSmoke`, `PassesAreEarned`).
29. "Enforce a minimum interval between fetches" (`rate_limit.py:21`). It is slots that are an
    interval apart. `before_fetch` runs between the slot and the request (`crawler.py:404-405`), and
    a sleep may last longer: a request that is late is followed sooner by the next. Requests for
    robots.txt take no slot (`crawler.py:278-280`). `RequestsArePaced` is about slots and says by
    how much requests may be closer.
30. `_revalidate` looks at the directories above an entry (`worktree_residual_cleanup.py:424`), then
    at its type, then reads it, by its path each time; the removal is a fourth call. A directory
    that is replaced by a link after it was looked at is not noticed, and what is removed may then be
    outside the root. A link that took the place of a reviewed file before it was read, and leads
    to one that is the same, is removed in its stead.
    `OnlyReviewedContentIsRemoved` says that nothing else goes wrong.
31. Choosing a preset that asks what is already asked clears the queue and bumps its generation
    (`FindingsView.tsx:191-208`) without running the effect that reads it (`FindingsView.tsx:264-272`):
    the list stays blank until something else is asked. `QueueSettles` excepts a list that is blank
    for this, or because its read failed, and nothing else (the history variable `blank`).
32. An older store whose generations were given in another order than the attempts started
    (item 4) keeps that order through every upgrade, while one without generations is numbered by
    start times: `UpgradedStoresAreSound` says of each what it is.

## 7. Plan

What is left, in order of value:

1. The metric registry with its two readers, and hook dispatch once the repository has hooks of
   its own.
2. A second workspace next to the first, to see `EvidenceViews` beside a scan that adds snapshots.

---------------------------- MODULE StoreUpgrade ----------------------------
(* Opening the database of the snapshot store: every process that opens it      *)
(* brings an older one up to date first, all steps in one transaction           *)
(* (zscripts/infrastructure/snapshot_store.py).  Of what the database holds     *)
(* only what an upgrade computes is kept: the attempts and their generations.   *)
EXTENDS Integers, Sequences, FiniteSets

CONSTANTS
    Openers,        \* processes that open the store, each once
    Repositories,
    Versions,       \* the versions the database may have; NoFile when there is none
    MaxKept,        \* attempts an older database holds
    Times,          \* when an attempt may have started
    MaxBegun,       \* attempts begun after the upgrade
    Nobody

ASSUME VersionsAssumption == Versions \subseteq -1 .. 7
ASSUME HistoryAssumption == MaxKept \in Nat /\ MaxBegun \in Nat /\ Times \subseteq Nat
ASSUME OpenersAssumption == Nobody \notin Openers

DATABASE_SCHEMA_VERSION == 6
NoFile == -1

VARIABLES
    file,       \* the committed database
    draft,      \* the database as the open transaction sees it, or Nobody
    holder,     \* the opener whose transaction is open, or Nobody
    opener,     \* opener -> "starting" | "upgrading" | "open" | "refused" | "failed" | "dead"
    begun,      \* attempts begun since
    origin      \* the version the database had at first

upgradeVars == <<file, draft, holder, opener, begun, origin>>

-----------------------------------------------------------------------------
(* The tables and columns each version brings.                                 *)

SchemaV1 == {"analysis_sequence", "repositories", "analyses", "snapshots", "files", "modules",
             "module_imports", "symbols", "diagnostics"}
SchemaV2 == {"module_imports.line", "module_imports.column_number", "graph_nodes",
             "relationships", "cycle_groups", "cycle_members", "cycle_edges"}
SchemaV3 == {"metrics", "finding_occurrences", "findings", "finding_reviews",
             "finding_review_events"}
SchemaV4 == {"repositories.latest_analysis_generation", "analyses.repository_generation",
             "analyses.lifecycle_reconciled", "analyses.reconciliation_skip_reason"}
SchemaV5 == {"snapshots.observed_branch", "snapshots.observed_git_sha", "snapshots.observed_dirty",
             "snapshots.observed_staged", "snapshots.observed_untracked", "saved_handoffs"}
SchemaV6 == {"snapshots.observed_state_known"}
Schemas == <<SchemaV1, SchemaV2, SchemaV3, SchemaV4, SchemaV5, SchemaV6>>
SchemaUpTo(version) == UNION {Schemas[n] : n \in {m \in DOMAIN Schemas : m <= version}}

\* An attempt of an older database has no generation yet.
Attempt(id, repository, started, completed) ==
    [id |-> id, repository |-> repository, started |-> started, completed |-> completed,
     generation |-> 0, reconciled |-> FALSE]

\* The attempts whose first columns are those of a row of begin_analysis.  When
\* one started is the clock of its process before it looked for files, so two may
\* have the same time, and they may have begun in another order.
Kept == 1 .. MaxKept
Histories ==
    {{Attempt(i, r[i], t[i], c[i]) : i \in Kept} :
        r \in [Kept -> Repositories], t \in [Kept -> Times], c \in [Kept -> BOOLEAN]}

\* An attempt counts those of its repository that precede it, itself included.
Numbered(attempts, upTo) ==
    {[a EXCEPT !.generation = Cardinality({b \in upTo[a] : b.repository = a.repository}),
               !.reconciled = a.completed] : a \in attempts}

UpTo(attempts) ==
    [a \in attempts |->
        {b \in attempts : b.started < a.started \/ (b.started = a.started /\ b.id <= a.id)}]

GenerationsOf(attempts, r) == {a.generation : a \in {b \in attempts : b.repository = r}}
Newest(attempts) ==
    [r \in Repositories |->
        IF GenerationsOf(attempts, r) = {} THEN 0
        ELSE CHOOSE g \in GenerationsOf(attempts, r) : \A h \in GenerationsOf(attempts, r) : h <= g]

\* From the fourth version on begin_analysis gave them out, in an order that is
\* neither that of the names nor that of the times.
Orders == {o \in [Kept -> Kept] : \A i, j \in Kept : i # j => o[i] # o[j]}
BegunUpTo(attempts, order) == [a \in attempts |-> {b \in attempts : order[b.id] <= order[a.id]}]

OldDatabase(version, attempts, order) ==
    [version |-> version, schema |-> SchemaUpTo(version),
     attempts |-> IF version < 1 THEN {}
                  ELSE IF version < 4 THEN attempts ELSE Numbered(attempts, BegunUpTo(attempts, order)),
     latest |-> IF version < 4 THEN [r \in Repositories |-> 0]
                ELSE Newest(Numbered(attempts, BegunUpTo(attempts, order)))]

OldDatabases == {OldDatabase(v, h, o) : v \in Versions, h \in Histories, o \in Orders}

NobodyHasOpened ==
    /\ draft = Nobody /\ holder = Nobody
    /\ opener = [p \in Openers |-> "starting"]
    /\ begun = 0
    /\ origin = file.version

UpgradeInit == file \in OldDatabases /\ NobodyHasOpened

-----------------------------------------------------------------------------
(* The transaction.                                                            *)

\* BEGIN IMMEDIATE; a new file gets its version row.
OpenStore(p) ==
    /\ opener[p] = "starting" /\ holder = Nobody
    /\ IF file.version > DATABASE_SCHEMA_VERSION
       THEN opener' = [opener EXCEPT ![p] = "refused"] /\ UNCHANGED <<draft, holder>>
       ELSE /\ opener' = [opener EXCEPT ![p] = "upgrading"]
            /\ holder' = p
            /\ draft' = [db |-> [file EXCEPT !.version = IF @ = NoFile THEN 0 ELSE @],
                         executed |-> FALSE]
    /\ UNCHANGED <<file, begun, origin>>

\* The lock is waited for, not for ever.
Busy(p) ==
    /\ opener[p] = "starting" /\ holder # Nobody
    /\ opener' = [opener EXCEPT ![p] = "failed"]
    /\ UNCHANGED <<file, draft, holder, begun, origin>>

\* The statements of the next version, inside the transaction.
Executed(n) == [db |-> [draft.db EXCEPT !.schema = @ \cup Schemas[n]], executed |-> TRUE]
BugExecuteScript(n) == draft' = Executed(n) /\ file' = Executed(n).db
ExecuteSchema(n) == draft' = Executed(n) /\ UNCHANGED file

\* The generations that the fourth version brings are computed from the attempts.
Converted(db, n) ==
    IF n # 4 THEN [db EXCEPT !.version = n]
    ELSE LET attempts == Numbered(db.attempts, UpTo(db.attempts))
         IN [db EXCEPT !.version = n, !.attempts = attempts, !.latest = Newest(attempts)]

Migrate(p) ==
    /\ holder = p /\ draft.db.version < DATABASE_SCHEMA_VERSION
    /\ LET n == draft.db.version + 1
       IN IF draft.executed
          THEN draft' = [db |-> Converted(draft.db, n), executed |-> FALSE] /\ UNCHANGED file
          ELSE ExecuteSchema(n)
    /\ UNCHANGED <<holder, opener, begun, origin>>

Commit(p) ==
    /\ holder = p /\ draft.db.version = DATABASE_SCHEMA_VERSION
    /\ file' = draft.db
    /\ opener' = [opener EXCEPT ![p] = "open"]
    /\ draft' = Nobody /\ holder' = Nobody
    /\ UNCHANGED <<begun, origin>>

\* A statement fails, or the process ends: what was not committed is not there.
Rollback(p, end) ==
    /\ holder = p
    /\ opener' = [opener EXCEPT ![p] = end]
    /\ draft' = Nobody /\ holder' = Nobody
    /\ UNCHANGED <<file, begun, origin>>

\* An attempt begins in a store that is open (begin_analysis, in ReviewStore):
\* the counter of its repository gives it its generation, whenever it started.
BeginAnalysis(p, r, started) ==
    /\ opener[p] = "open" /\ holder = Nobody /\ begun < MaxBegun
    /\ LET generation == file.latest[r] + 1
           attempt == [Attempt(MaxKept + 1 + begun, r, started, FALSE) EXCEPT !.generation = generation]
       IN file' = [file EXCEPT !.latest[r] = generation, !.attempts = @ \cup {attempt}]
    /\ begun' = begun + 1
    /\ UNCHANGED <<draft, holder, opener, origin>>

UpgradeNext ==
    \E p \in Openers :
        \/ OpenStore(p) \/ Busy(p) \/ Migrate(p) \/ Commit(p)
        \/ Rollback(p, "failed") \/ Rollback(p, "dead")
        \/ \E r \in Repositories, t \in Times : BeginAnalysis(p, r, t)

UpgradeSpec == UpgradeInit /\ [][UpgradeNext]_upgradeVars

-----------------------------------------------------------------------------
(* Properties.                                                                 *)

\* Whoever dies or fails during an upgrade, and whoever opens the database next,
\* the file is that of its version: no table or column of a later one (adding
\* it again would fail for ever), and who has the store open has the newest.
UpgradeIsAllOrNothing ==
    /\ file.version <= DATABASE_SCHEMA_VERSION => file.schema = SchemaUpTo(file.version)
    /\ \A p \in Openers : opener[p] = "open" => file.version = DATABASE_SCHEMA_VERSION

\* An upgraded history can be continued: attempts of one repository have
\* generations of their own and the counter is at the newest, which decides the
\* scan that may resolve findings.  Those of a database without generations are
\* numbered in the order they started; whoever begins later is newer than all that
\* are there, even when its clock was read before theirs.
UpgradedHistoryIsOrdered ==
    file.version \in 4 .. DATABASE_SCHEMA_VERSION =>
        /\ \A a, b \in file.attempts :
             a.repository = b.repository /\ a # b =>
                /\ a.generation # b.generation
                /\ origin < 4 /\ {a.id, b.id} \subseteq Kept /\ a.started < b.started =>
                      a.generation < b.generation
                /\ b.id \notin Kept /\ a.id < b.id => a.generation < b.generation
        /\ \A a \in file.attempts : a.generation \in 1 .. file.latest[a.repository]
        /\ file.latest = Newest(file.attempts)

\* Whatever happens to an upgrade, the database can be used and its history continued.
UpgradedStoresAreSound == UpgradeIsAllOrNothing /\ UpgradedHistoryIsOrdered

=============================================================================

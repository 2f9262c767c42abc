---------------------------- MODULE ReviewProofs -----------------------------
(* Proofs about a review.  What the store guarantees whatever its callers do,  *)
(* for any number of repositories, attempts, findings and snapshots.  The      *)
(* attempts of ReviewService are a user of the store, so every theorem about   *)
(* the store holds of them; and however they overlap, the findings follow the  *)
(* newest reconciliation.  The jobs of ReviewJobs run these attempts: what is  *)
(* proved of attempts holds of jobs, for any number of jobs, threads and       *)
(* crashes, and so does what the endpoints answer.                             *)
EXTENDS ReviewJobs, TLAPS

-----------------------------------------------------------------------------
(* Type correctness *)

\* The three updates of the reconciliation produce well-typed tables.
LEMMA ReconcileTypes ==
    ASSUME TypeOK, NEW s \in Snapshots, NEW resolveMissing \in BOOLEAN,
           ReconcileFindings(s, resolveMissing)
    PROVE  /\ findings' \in [Findings -> FindingRow]
           /\ reviews' \in [Findings -> ReviewRow]
           /\ events' \in [Findings -> Seq(Event)]
<1>1. \A f \in Findings : ObservedFinding(f, s) \in FindingRow
  BY DEF TypeOK, ObservedFinding, FindingRow
<1>2. \A f \in Findings :
          [findings[f] EXCEPT !.state = "resolved", !.resolvedIn = s] \in FindingRow
  BY DEF TypeOK, FindingRow
<1>3. findings' \in [Findings -> FindingRow]
  BY <1>1, <1>2 DEF TypeOK, ReconcileFindings
<1>4. \A f \in Findings : ObservationEvent(f) \in LifecycleEvents
  BY DEF TypeOK, ObservationEvent, FindingRow, LifecycleEvents
<1>5. \A type \in LifecycleEvents : LifecycleEvent(type, s) \in Event
  BY DEF LifecycleEvent, Event, ReviewStatuses
<1>6. "finding-resolved" \in LifecycleEvents
  BY DEF LifecycleEvents
<1>7. \A f \in Findings : \A e \in Event : Append(events[f], e) \in Seq(Event)
  BY DEF TypeOK
<1>8. events' \in [Findings -> Seq(Event)]
  BY <1>4, <1>5, <1>6, <1>7 DEF TypeOK, ReconcileFindings
<1>9. \A f \in Findings : ReconciledReview(f, s) \in ReviewRow
  BY DEF TypeOK, ReconciledReview, ReviewRow, ReviewStatuses
<1> QED
  BY <1>3, <1>8, <1>9 DEF ReconcileFindings

\* Every table of the store keeps its type (the CHECK constraints of the schema
\* never fire, and no operation writes a value its readers do not know).
THEOREM TypeCorrect == Spec => []TypeOK
<1>1. Init => TypeOK
  BY DEF Init, TypeOK, AbsentAnalysis, AnalysisRow, AnalysisStates, SkipReasons,
         AbsentFinding, FindingRow, ReviewRow, ReviewStatuses
<1>2. TypeOK /\ [Next]_storeVars => TypeOK'
  <2> SUFFICES ASSUME TypeOK, [Next]_storeVars PROVE TypeOK'
    OBVIOUS
  <2>1. ASSUME NEW a \in Analyses, NEW r \in Repositories, BeginAnalysis(a, r)
        PROVE  TypeOK'
    <3>1. NextGeneration(r) \in Nat
      BY DEF TypeOK, NextGeneration
    <3>2. [AbsentAnalysis EXCEPT !.state = "started", !.phase = "discovery",
                                 !.repository = r,
                                 !.generation = NextGeneration(r)] \in AnalysisRow
      BY <3>1 DEF AbsentAnalysis, AnalysisRow, AnalysisStates, SkipReasons
    <3> QED
      BY <2>1, <3>1, <3>2 DEF BeginAnalysis, TypeOK
  <2>2. ASSUME NEW a \in Analyses, NEW phase \in ProgressPhases, UpdateProgress(a, phase)
        PROVE  TypeOK'
    <3>1. [analyses[a] EXCEPT !.phase = phase] \in AnalysisRow
      BY DEF TypeOK, AnalysisRow
    <3> QED
      BY <2>2, <3>1 DEF UpdateProgress, TypeOK
  <2>3. ASSUME NEW a \in Analyses, NEW outcome \in {"cancelled", "failed"},
               FinishAnalysis(a, outcome)
        PROVE  TypeOK'
    <3>1. [analyses[a] EXCEPT !.state = outcome, !.phase = outcome] \in AnalysisRow
      BY DEF TypeOK, AnalysisRow, AnalysisStates
    <3> QED
      BY <2>3, <3>1 DEF FinishAnalysis, TypeOK
  <2>4. ASSUME NEW a \in Analyses, NEW s \in Snapshots, SaveCompletedSnapshot(a, s)
        PROVE  TypeOK'
    <3>1. Authoritative(a) \in BOOLEAN /\ SkipReason(a, s) \in SkipReasons
      BY DEF Authoritative, SkipReason, SkipReasons
    <3>2. [analyses[a] EXCEPT !.state = "completed", !.phase = "completed",
                !.snapshot = s, !.reconciled = Authoritative(a),
                !.skipReason = SkipReason(a, s)] \in AnalysisRow
      <4>1. analyses[a] \in AnalysisRow
        BY DEF TypeOK
      <4> QED  BY <3>1, <4>1 DEF AnalysisRow, AnalysisStates
    <3>3. analyses' \in [Analyses -> AnalysisRow]
      BY <2>4, <3>2 DEF SaveCompletedSnapshot, TypeOK
    <3>4. /\ findings' \in [Findings -> FindingRow]
          /\ reviews' \in [Findings -> ReviewRow]
          /\ events' \in [Findings -> Seq(Event)]
      <4>1. CASE Authoritative(a)
        BY <2>4, <4>1, ReconcileTypes DEF SaveCompletedSnapshot
      <4>2. CASE ~Authoritative(a)
        BY <2>4, <4>2 DEF SaveCompletedSnapshot, TypeOK, lifecycle
      <4> QED
        BY <4>1, <4>2
    <3> QED
      BY <2>4, <3>3, <3>4 DEF SaveCompletedSnapshot, TypeOK
  <2>5. ASSUME NEW f \in Findings, NEW expected \in 0 .. MaxDecisions,
               NEW decision \in Decisions, UpdateFindingReview(f, expected, decision)
        PROVE  TypeOK'
    <3>1. [status |-> decision, version |-> expected + 1] \in ReviewRow
      BY BoundAssumption DEF ReviewRow, ReviewStatuses
    <3>2. [type |-> "review-decision-changed", snapshot |-> NoSnapshot,
           status |-> decision, version |-> expected + 1] \in Event
      BY BoundAssumption DEF Event, ReviewStatuses
    <3> QED
      BY <2>5, <3>1, <3>2 DEF UpdateFindingReview, TypeOK
  <2>6. CASE UNCHANGED storeVars
    BY <2>6 DEF TypeOK, storeVars
  <2> QED
    BY <2>1, <2>2, <2>3, <2>4, <2>5, <2>6 DEF Next
<1> QED
  BY <1>1, <1>2, PTL DEF Spec

-----------------------------------------------------------------------------
(* Generations *)

\* Every begun attempt holds a generation its repository has handed out.
GenerationsAreIssued ==
    \A a \in Analyses : Begun(a) =>
        /\ analyses[a].repository \in Repositories
        /\ analyses[a].generation \in 1 .. latestGeneration[analyses[a].repository]

\* Every step keeps the generations of the attempts issued by the counter of their
\* repository, and unique in it.
LEMMA GenerationStep ==
    ASSUME TypeOK, GenerationsAreIssued, GenerationsAreUnique, [Next]_storeVars
    PROVE  GenerationsAreIssued' /\ GenerationsAreUnique'
<1>1. ASSUME NEW a \in Analyses, NEW r \in Repositories, BeginAnalysis(a, r)
      PROVE  GenerationsAreIssued' /\ GenerationsAreUnique'
  <2>1. /\ analyses'[a].repository = r
        /\ analyses'[a].generation = latestGeneration[r] + 1
        /\ analyses'[a].state = "started"
        /\ latestGeneration' = [latestGeneration EXCEPT ![r] = latestGeneration[r] + 1]
        /\ \A b \in Analyses \ {a} : analyses'[b] = analyses[b]
    BY <1>1 DEF BeginAnalysis, TypeOK, NextGeneration, AbsentAnalysis
  <2>2. GenerationsAreIssued'
    <3> SUFFICES ASSUME NEW b \in Analyses, Begun(b)'
                 PROVE  /\ analyses'[b].repository \in Repositories
                        /\ analyses'[b].generation
                               \in 1 .. latestGeneration'[analyses'[b].repository]
      BY DEF GenerationsAreIssued
    <3>1. CASE b = a
      BY <2>1, <3>1 DEF TypeOK
    <3>2. CASE b # a
      <4>1. /\ analyses[b].repository \in Repositories
            /\ analyses[b].generation \in 1 .. latestGeneration[analyses[b].repository]
        BY <2>1, <3>2 DEF GenerationsAreIssued, Begun
      <4> QED
        BY <2>1, <3>2, <4>1 DEF TypeOK
    <3> QED
      BY <3>1, <3>2
  <2>3. GenerationsAreUnique'
    BY <2>1 DEF TypeOK, GenerationsAreIssued, GenerationsAreUnique, Begun
  <2> QED
    BY <2>2, <2>3
<1>2. ASSUME \A b \in Analyses : /\ analyses'[b].repository = analyses[b].repository
                                 /\ analyses'[b].generation = analyses[b].generation
                                 /\ Begun(b)' => Begun(b),
             UNCHANGED latestGeneration
      PROVE  GenerationsAreIssued' /\ GenerationsAreUnique'
  BY <1>2 DEF GenerationsAreIssued, GenerationsAreUnique
<1>3. ASSUME NEW a \in Analyses, NEW phase \in ProgressPhases, UpdateProgress(a, phase)
      PROVE  GenerationsAreIssued' /\ GenerationsAreUnique'
  BY <1>2, <1>3 DEF UpdateProgress, TypeOK, AnalysisRow, Begun
<1>4. ASSUME NEW a \in Analyses, NEW outcome \in {"cancelled", "failed"},
             FinishAnalysis(a, outcome)
      PROVE  GenerationsAreIssued' /\ GenerationsAreUnique'
  BY <1>2, <1>4 DEF FinishAnalysis, TypeOK, AnalysisRow, Begun
<1>5. ASSUME NEW a \in Analyses, NEW s \in Snapshots, SaveCompletedSnapshot(a, s)
      PROVE  GenerationsAreIssued' /\ GenerationsAreUnique'
  BY <1>2, <1>5 DEF SaveCompletedSnapshot, TypeOK, AnalysisRow, Begun
<1>6. ASSUME NEW f \in Findings, NEW expected \in 0 .. MaxDecisions,
             NEW decision \in Decisions, UpdateFindingReview(f, expected, decision)
      PROVE  GenerationsAreIssued' /\ GenerationsAreUnique'
  BY <1>2, <1>6 DEF UpdateFindingReview, Begun
<1>7. CASE UNCHANGED storeVars
  BY <1>2, <1>7 DEF storeVars, Begun
<1> QED
  BY <1>1, <1>3, <1>4, <1>5, <1>6, <1>7 DEF Next

\* The generations of a repository are handed out by its counter, each one once.
LEMMA GenerationsIssued == Spec => [](GenerationsAreIssued /\ GenerationsAreUnique)
<1>1. Init => GenerationsAreIssued /\ GenerationsAreUnique
  BY DEF Init, GenerationsAreIssued, GenerationsAreUnique, Begun, AbsentAnalysis
<1>2. TypeOK /\ GenerationsAreIssued /\ GenerationsAreUnique /\ [Next]_storeVars
          => GenerationsAreIssued' /\ GenerationsAreUnique'
  BY GenerationStep
<1> QED
  BY <1>1, <1>2, TypeCorrect, PTL DEF Spec

\* Two attempts on one repository never share a generation.
THEOREM GenerationsUnique == Spec => []GenerationsAreUnique
BY GenerationsIssued, PTL

-----------------------------------------------------------------------------
(* What a step does to one finding *)

Sighting(f, s) ==
    /\ Observes(f, s)
    /\ findings'[f] = ObservedFinding(f, s)
    /\ events'[f] = Append(events[f], LifecycleEvent(ObservationEvent(f), s))
    /\ reviews'[f] = ReconciledReview(f, s)

Resolution(f, s) ==
    /\ Resolves(f, s)
    /\ Complete(s)
    /\ findings'[f] = [findings[f] EXCEPT !.state = "resolved", !.resolvedIn = s]
    /\ events'[f] = Append(events[f], LifecycleEvent("finding-resolved", s))
    /\ reviews'[f] = reviews[f]

Decision(f) ==
    \E decision \in Decisions :
        /\ findings[f].state # "absent"
        /\ findings'[f] = findings[f]
        /\ reviews'[f] = [status |-> decision, version |-> reviews[f].version + 1]
        /\ events'[f] = Append(events[f],
               [type |-> "review-decision-changed", snapshot |-> NoSnapshot,
                status |-> decision, version |-> reviews[f].version + 1])

Untouched(f) ==
    /\ findings'[f] = findings[f]
    /\ reviews'[f] = reviews[f]
    /\ events'[f] = events[f]

\* Every step sights, resolves or decides a finding, or leaves it alone; and the
\* snapshots it cites are stored by that very step.
LEMMA FindingStep ==
    ASSUME TypeOK, [Next]_storeVars, NEW f \in Findings
    PROVE  /\ snapshots \subseteq snapshots'
           /\ \/ \E s \in Snapshots : s \in snapshots' /\ Sighting(f, s)
              \/ \E s \in Snapshots : s \in snapshots' /\ Resolution(f, s)
              \/ Decision(f)
              \/ Untouched(f)
<1>1. ASSUME NEW a \in Analyses, NEW s \in Snapshots, SaveCompletedSnapshot(a, s)
      PROVE  /\ snapshots \subseteq snapshots'
             /\ \/ s \in snapshots' /\ Sighting(f, s)
                \/ s \in snapshots' /\ Resolution(f, s)
                \/ Untouched(f)
  <2>1. snapshots \subseteq snapshots' /\ s \in snapshots'
    BY <1>1 DEF SaveCompletedSnapshot
  <2>2. CASE ~Authoritative(a)
    BY <1>1, <2>1, <2>2 DEF SaveCompletedSnapshot, lifecycle, Untouched
  <2>3. CASE Authoritative(a)
    <3> DEFINE resolveMissing == SkipReason(a, s) = "none"
    <3>1. ReconcileFindings(s, resolveMissing)
      BY <1>1, <2>3 DEF SaveCompletedSnapshot
    <3>2. resolveMissing => Complete(s)
      BY DEF SkipReason, Complete
    <3> HIDE DEF resolveMissing
    <3>3. CASE Observes(f, s)
      BY <2>1, <3>1, <3>3 DEF ReconcileFindings, Sighting
    <3>4. CASE ~Observes(f, s) /\ resolveMissing /\ Resolves(f, s)
      <4>1. reviews'[f] = reviews[f]
        BY <3>1, <3>4 DEF ReconcileFindings, ReconciledReview, Resolves
      <4> QED
        BY <2>1, <3>1, <3>2, <3>4, <4>1 DEF ReconcileFindings, Resolution
    <3>5. CASE ~Observes(f, s) /\ ~(resolveMissing /\ Resolves(f, s))
      <4>1. reviews'[f] = reviews[f]
        BY <3>1, <3>5 DEF ReconcileFindings, ReconciledReview, Observes
      <4> QED
        BY <2>1, <3>1, <3>5, <4>1 DEF ReconcileFindings, Untouched
    <3> QED
      BY <3>3, <3>4, <3>5
  <2> QED
    BY <2>2, <2>3
<1>2. ASSUME NEW g \in Findings, NEW expected \in 0 .. MaxDecisions,
             NEW decision \in Decisions, UpdateFindingReview(g, expected, decision)
      PROVE  snapshots \subseteq snapshots' /\ (Decision(f) \/ Untouched(f))
  <2>1. CASE g = f
    BY <1>2, <2>1 DEF UpdateFindingReview, AcceptsReview, Decision, TypeOK
  <2>2. CASE g # f
    BY <1>2, <2>2 DEF UpdateFindingReview, Untouched, TypeOK
  <2> QED
    BY <1>2, <2>1, <2>2 DEF UpdateFindingReview
<1>3. ASSUME UNCHANGED <<snapshots, findings, reviews, events>>
      PROVE  snapshots \subseteq snapshots' /\ Untouched(f)
  BY <1>3 DEF Untouched
<1> QED
  BY <1>1, <1>2, <1>3 DEF Next, BeginAnalysis, UpdateProgress, FinishAnalysis, storeVars

-----------------------------------------------------------------------------
(* Evidence *)

\* The part of EvidenceBacksFindings that concerns one finding.
EvidenceBacks(f) ==
    /\ findings[f].state # "absent" =>
           \A s \in {findings[f].firstSeen, findings[f].lastSeen} :
               s \in snapshots /\ f \in Content[s].findings
    /\ findings[f].state = "active" => findings[f].resolvedIn = NoSnapshot
    /\ findings[f].state = "resolved" =>
           /\ findings[f].resolvedIn \in snapshots
           /\ f \notin Content[findings[f].resolvedIn].findings
           /\ Content[findings[f].resolvedIn].repository = Owner[f]
           /\ Complete(findings[f].resolvedIn)

\* Every step keeps the row of a finding backed by stored snapshots.
LEMMA EvidenceStep ==
    ASSUME TypeOK, [Next]_storeVars, NEW f \in Findings, EvidenceBacks(f)
    PROVE  EvidenceBacks(f)'
<1>1. snapshots \subseteq snapshots'
  BY FindingStep
<1>2. ASSUME NEW s \in Snapshots, s \in snapshots', Sighting(f, s)
      PROVE  EvidenceBacks(f)'
  <2>1. /\ findings'[f].state = "active"
        /\ findings'[f].lastSeen = s
        /\ findings'[f].resolvedIn = NoSnapshot
        /\ findings'[f].firstSeen \in {s, findings[f].firstSeen}
        /\ findings[f].state = "absent" => findings'[f].firstSeen = s
    BY <1>2 DEF Sighting, ObservedFinding
  <2>2. f \in Content[s].findings
    BY <1>2 DEF Sighting, Observes
  <2> QED
    BY <1>1, <1>2, <2>1, <2>2 DEF EvidenceBacks
<1>3. ASSUME NEW s \in Snapshots, s \in snapshots', Resolution(f, s)
      PROVE  EvidenceBacks(f)'
  <2>1. /\ findings[f].state = "active"
        /\ findings'[f].state = "resolved"
        /\ findings'[f].resolvedIn = s
        /\ findings'[f].firstSeen = findings[f].firstSeen
        /\ findings'[f].lastSeen = findings[f].lastSeen
    BY <1>3 DEF Resolution, Resolves, TypeOK, FindingRow
  <2>2. /\ f \notin Content[s].findings
        /\ Content[s].repository = Owner[f]
        /\ Complete(s)
    BY <1>3 DEF Resolution, Resolves
  <2>3. Complete(s)'
    BY <2>2 DEF Complete
  <2> QED
    BY <1>1, <1>3, <2>1, <2>2, <2>3 DEF EvidenceBacks
<1>4. CASE findings'[f] = findings[f]
  BY <1>1, <1>4 DEF EvidenceBacks, Complete
<1> QED
  BY <1>2, <1>3, <1>4, FindingStep DEF Decision, Untouched

\* What the row of a finding claims is backed by stored snapshots, so no finding
\* drops out of the queues, and no truncated or gapped scan ever resolved one.
THEOREM EvidenceAlwaysBacks == Spec => []EvidenceBacksFindings
<1>1. EvidenceBacksFindings <=> \A f \in Findings : EvidenceBacks(f)
  BY DEF EvidenceBacksFindings, EvidenceBacks
<1>2. Init => EvidenceBacksFindings
  BY DEF Init, EvidenceBacksFindings, AbsentFinding
<1>3. TypeOK /\ EvidenceBacksFindings /\ [Next]_storeVars => EvidenceBacksFindings'
  <2> SUFFICES ASSUME TypeOK, EvidenceBacksFindings, [Next]_storeVars
               PROVE  \A f \in Findings : EvidenceBacks(f)'
    BY DEF EvidenceBacksFindings, EvidenceBacks
  <2> QED
    BY <1>1, EvidenceStep
<1> QED
  BY <1>2, <1>3, TypeCorrect, PTL DEF Spec

-----------------------------------------------------------------------------
(* History *)

\* What the history of one finding says of its row.
HistoryExplains(f) ==
    /\ findings[f].state = "absent" => events[f] = <<>>
    /\ findings[f].state # "absent" =>
           \E i \in DOMAIN events[f] :
               LastLifecycle(f, i) /\ EventExplains(events[f][i], findings[f])

HistoryWellFormed(f) ==
    \A i, j \in DOMAIN events[f] :
        ConsecutiveLifecycle(f, i, j) =>
            /\ events[f][j].type # "finding-first-seen"
            /\ (events[f][j].type = "finding-reactivated")
                   <=> (events[f][i].type = "finding-resolved")
            /\ events[f][j].type = "finding-evidence-updated" =>
                   events[f][j].snapshot # events[f][i].snapshot

\* The event a step appends to the history of a finding.
Appends(f, e) == e \in Event /\ events'[f] = Append(events[f], e)

\* What appending an event does to the history of a finding.
LEMMA AppendedHistory ==
    ASSUME TypeOK, NEW f \in Findings, NEW e, Appends(f, e)
    PROVE  /\ DOMAIN events[f] = 1 .. Len(events[f])
           /\ DOMAIN events'[f] = 1 .. Len(events[f]) + 1
           /\ Len(events[f]) \in Nat
           /\ \A i \in DOMAIN events[f] : events'[f][i] = events[f][i]
           /\ events'[f][Len(events[f]) + 1] = e
<1>1. events[f] \in Seq(Event)
  BY DEF TypeOK
<1> QED
  BY <1>1 DEF Appends

\* A new lifecycle event becomes the last one and must explain the new row; it
\* follows the event that explained the old row.
LEMMA LifecycleAppended ==
    ASSUME TypeOK, NEW f \in Findings, NEW e, Appends(f, e), IsLifecycle(e),
           HistoryExplains(f), HistoryWellFormed(f),
           findings'[f].state # "absent",
           EventExplains(e, findings'[f]),
           e.type = "finding-first-seen" <=> findings[f].state = "absent",
           e.type = "finding-reactivated" <=> findings[f].state = "resolved",
           e.type = "finding-evidence-updated" => e.snapshot # findings[f].lastSeen
    PROVE  HistoryExplains(f)' /\ HistoryWellFormed(f)'
<1>1. PICK n \in Nat \ {0} :
          /\ DOMAIN events[f] = 1 .. n - 1
          /\ DOMAIN events'[f] = 1 .. n
          /\ \A i \in DOMAIN events[f] : events'[f][i] = events[f][i]
          /\ events'[f][n] = e
  <2>1. Len(events[f]) + 1 \in Nat \ {0} /\ (Len(events[f]) + 1) - 1 = Len(events[f])
    BY AppendedHistory
  <2> QED
    BY <2>1, AppendedHistory
<1>2. HistoryExplains(f)'
  <2>1. n \in DOMAIN events'[f] /\ \A j \in DOMAIN events'[f] : ~(j > n)
    BY <1>1
  <2>2. LastLifecycle(f, n)'
    BY <1>1, <2>1 DEF LastLifecycle, IsLifecycle
  <2>3. EventExplains(events[f][n], findings[f])'
    BY <1>1 DEF EventExplains
  <2> QED
    BY <2>1, <2>2, <2>3 DEF HistoryExplains
<1>3. ASSUME NEW i \in DOMAIN events'[f], NEW j \in DOMAIN events'[f],
             ConsecutiveLifecycle(f, i, j)'
      PROVE  /\ events'[f][j].type # "finding-first-seen"
             /\ (events'[f][j].type = "finding-reactivated")
                    <=> (events'[f][i].type = "finding-resolved")
             /\ events'[f][j].type = "finding-evidence-updated" =>
                    events'[f][j].snapshot # events'[f][i].snapshot
  <2>1. i < j /\ i \in DOMAIN events[f]
    BY <1>1, <1>3 DEF ConsecutiveLifecycle
  <2>2. CASE j \in DOMAIN events[f]
    <3>1. ConsecutiveLifecycle(f, i, j)
      BY <1>1, <1>3, <2>1, <2>2 DEF ConsecutiveLifecycle, IsLifecycle
    <3> QED
      BY <1>1, <2>1, <2>2, <3>1 DEF HistoryWellFormed
  <2>3. CASE j = n
    <3>1. findings[f].state # "absent"
      BY <1>1, <2>1 DEF HistoryExplains
    <3>2. PICK k \in DOMAIN events[f] :
              LastLifecycle(f, k) /\ EventExplains(events[f][k], findings[f])
      BY <3>1 DEF HistoryExplains
    <3>3. IsLifecycle(events[f][i])
      BY <1>1, <1>3, <2>1 DEF ConsecutiveLifecycle, IsLifecycle
    <3>4. ~(i > k)
      BY <2>1, <3>2, <3>3 DEF LastLifecycle
    <3>5. ~(i < k)
      BY <1>1, <1>3, <2>1, <2>3, <3>2 DEF ConsecutiveLifecycle, LastLifecycle, IsLifecycle
    <3>6. i = k
      BY <1>1, <2>1, <3>4, <3>5
    <3>7. events'[f][j] = e /\ events'[f][i] = events[f][i]
      BY <1>1, <2>1, <2>3
    <3> QED
      BY <3>1, <3>2, <3>6, <3>7 DEF EventExplains
  <2> QED
    BY <1>1, <2>2, <2>3
<1> QED
  BY <1>2, <1>3 DEF HistoryWellFormed

\* A review decision is invisible to the lifecycle part of the history.
LEMMA DecisionAppended ==
    ASSUME TypeOK, NEW f \in Findings, NEW e, Appends(f, e), ~IsLifecycle(e),
           HistoryExplains(f), HistoryWellFormed(f),
           findings[f].state # "absent", findings'[f] = findings[f]
    PROVE  HistoryExplains(f)' /\ HistoryWellFormed(f)'
<1>1. PICK n \in Nat \ {0} :
          /\ DOMAIN events[f] = 1 .. n - 1
          /\ DOMAIN events'[f] = 1 .. n
          /\ \A i \in DOMAIN events[f] : events'[f][i] = events[f][i]
          /\ events'[f][n] = e
  <2>1. Len(events[f]) + 1 \in Nat \ {0} /\ (Len(events[f]) + 1) - 1 = Len(events[f])
    BY AppendedHistory
  <2> QED
    BY <2>1, AppendedHistory
<1>2. PICK k \in DOMAIN events[f] :
          LastLifecycle(f, k) /\ EventExplains(events[f][k], findings[f])
  BY DEF HistoryExplains
<1>3. LastLifecycle(f, k)'
  BY <1>1, <1>2 DEF LastLifecycle, IsLifecycle
<1>4. EventExplains(events[f][k], findings[f])'
  BY <1>1, <1>2 DEF EventExplains
<1>5. HistoryExplains(f)'
  BY <1>1, <1>2, <1>3, <1>4 DEF HistoryExplains
<1>6. \A i, j \in DOMAIN events'[f] :
          ConsecutiveLifecycle(f, i, j)' =>
              /\ i \in DOMAIN events[f]
              /\ j \in DOMAIN events[f]
              /\ ConsecutiveLifecycle(f, i, j)
  <2> SUFFICES ASSUME NEW i \in DOMAIN events'[f], NEW j \in DOMAIN events'[f],
                      ConsecutiveLifecycle(f, i, j)'
               PROVE  /\ i \in DOMAIN events[f]
                      /\ j \in DOMAIN events[f]
                      /\ ConsecutiveLifecycle(f, i, j)
    OBVIOUS
  <2>1. /\ i < j /\ IsLifecycle(events'[f][i]) /\ IsLifecycle(events'[f][j])
        /\ \A m \in DOMAIN events'[f] : i < m /\ m < j => ~IsLifecycle(events'[f][m])
    BY DEF ConsecutiveLifecycle, IsLifecycle
  <2>2. i # n /\ j # n
    BY <1>1, <2>1 DEF IsLifecycle
  <2>3. i \in DOMAIN events[f] /\ j \in DOMAIN events[f]
    BY <1>1, <2>2
  <2>4. IsLifecycle(events[f][i]) /\ IsLifecycle(events[f][j])
    BY <1>1, <2>1, <2>3
  <2>5. \A m \in DOMAIN events[f] : i < m /\ m < j => ~IsLifecycle(events[f][m])
    BY <1>1, <2>1
  <2> QED
    BY <2>1, <2>3, <2>4, <2>5 DEF ConsecutiveLifecycle
<1>7. HistoryWellFormed(f)'
  BY <1>1, <1>6 DEF HistoryWellFormed
<1> QED
  BY <1>5, <1>7

\* Every step keeps the history of a finding faithful to its row.
LEMMA HistoryStep ==
    ASSUME TypeOK, [Next]_storeVars, NEW f \in Findings,
           HistoryExplains(f), HistoryWellFormed(f)
    PROVE  HistoryExplains(f)' /\ HistoryWellFormed(f)'
<1>1. ASSUME NEW s \in Snapshots, Sighting(f, s)
      PROVE  HistoryExplains(f)' /\ HistoryWellFormed(f)'
  <2> DEFINE e == LifecycleEvent(ObservationEvent(f), s)
  <2>1. findings[f].state \in {"absent", "active", "resolved"}
    BY DEF TypeOK, FindingRow
  <2>2. /\ ObservationEvent(f) \in LifecycleEvents
        /\ ObservationEvent(f) # "finding-resolved"
        /\ ObservationEvent(f) = "finding-first-seen" <=> findings[f].state = "absent"
        /\ ObservationEvent(f) = "finding-reactivated" <=> findings[f].state = "resolved"
        /\ ObservationEvent(f) = "finding-evidence-updated" <=> findings[f].state = "active"
    BY <2>1 DEF ObservationEvent, LifecycleEvents
  <2>3. e.type = ObservationEvent(f) /\ e.snapshot = s /\ e \in Event
    BY <2>2 DEF LifecycleEvent, Event, ReviewStatuses
  <2>4. Appends(f, e)
    BY <1>1, <2>3 DEF Sighting, Appends
  <2>5. findings'[f].state = "active" /\ findings'[f].lastSeen = s
    BY <1>1 DEF Sighting, ObservedFinding
  <2>6. findings[f].state = "active" => findings[f].lastSeen # s
    BY <1>1 DEF Sighting, Observes
  <2> HIDE DEF e
  <2>7. IsLifecycle(e) /\ EventExplains(e, findings'[f])
    BY <2>2, <2>3, <2>5 DEF IsLifecycle, EventExplains
  <2> QED
    BY <2>2, <2>3, <2>4, <2>5, <2>6, <2>7, LifecycleAppended
<1>2. ASSUME NEW s \in Snapshots, Resolution(f, s)
      PROVE  HistoryExplains(f)' /\ HistoryWellFormed(f)'
  <2> DEFINE e == LifecycleEvent("finding-resolved", s)
  <2>1. e.type = "finding-resolved" /\ e.snapshot = s /\ e \in Event
    BY DEF LifecycleEvent, Event, ReviewStatuses, LifecycleEvents
  <2>2. Appends(f, e)
    BY <1>2, <2>1 DEF Resolution, Appends
  <2>3. findings'[f].state = "resolved" /\ findings'[f].resolvedIn = s
    BY <1>2 DEF Resolution, TypeOK, FindingRow
  <2>4. findings[f].state = "active"
    BY <1>2 DEF Resolution, Resolves
  <2> HIDE DEF e
  <2>5. IsLifecycle(e) /\ EventExplains(e, findings'[f])
    BY <2>1, <2>3 DEF IsLifecycle, EventExplains, LifecycleEvents
  <2> QED
    BY <2>1, <2>2, <2>3, <2>4, <2>5, LifecycleAppended
<1>3. CASE Decision(f)
  <2>1. PICK decision \in Decisions :
            /\ findings[f].state # "absent"
            /\ findings'[f] = findings[f]
            /\ events'[f] = Append(events[f],
                   [type |-> "review-decision-changed", snapshot |-> NoSnapshot,
                    status |-> decision, version |-> reviews[f].version + 1])
    BY <1>3 DEF Decision
  <2> DEFINE e == [type |-> "review-decision-changed", snapshot |-> NoSnapshot,
                   status |-> decision, version |-> reviews[f].version + 1]
  <2>2. e \in Event
    BY DEF TypeOK, Event, ReviewStatuses, ReviewRow
  <2>3. Appends(f, e)
    BY <2>1, <2>2 DEF Appends
  <2>4. ~IsLifecycle(e)
    BY DEF IsLifecycle, LifecycleEvents
  <2> HIDE DEF e
  <2> QED
    BY <2>1, <2>3, <2>4, DecisionAppended
<1>4. CASE Untouched(f)
  BY <1>4 DEF Untouched, HistoryExplains, HistoryWellFormed, LastLifecycle,
              ConsecutiveLifecycle, EventExplains
<1> QED
  BY <1>1, <1>2, <1>3, <1>4, FindingStep

\* The append-only history explains every row: the last lifecycle event of a
\* finding names its evidence state and the snapshot that put it there; and the
\* history itself is a legal sequence of sightings, resolutions, reactivations.
THEOREM HistoryIsFaithful == Spec => [](HistoryExplainsFindings /\ HistoryIsWellFormed)
<1> DEFINE Inv == \A f \in Findings : HistoryExplains(f) /\ HistoryWellFormed(f)
<1>1. Init => Inv
  <2> SUFFICES ASSUME Init, NEW f \in Findings
               PROVE  HistoryExplains(f) /\ HistoryWellFormed(f)
    OBVIOUS
  <2>1. findings[f].state = "absent" /\ events[f] = <<>> /\ DOMAIN events[f] = {}
    BY DEF Init, AbsentFinding
  <2> QED
    BY <2>1 DEF HistoryExplains, HistoryWellFormed
<1>2. TypeOK /\ Inv /\ [Next]_storeVars => Inv'
  BY HistoryStep
<1>3. Inv => HistoryExplainsFindings /\ HistoryIsWellFormed
  BY DEF HistoryExplains, HistoryExplainsFindings, HistoryWellFormed, HistoryIsWellFormed
<1> QED
  BY <1>1, <1>2, <1>3, TypeCorrect, PTL DEF Spec

-----------------------------------------------------------------------------
(* Review decisions *)

DecisionsRecorded(f) ==
    /\ findings[f].state = "absent" => events[f] = <<>> /\ reviews[f].version = 0
    /\ \A i, j \in DecisionsIn(f) : i < j => events[f][i].version < events[f][j].version
    /\ \A n \in 1 .. reviews[f].version :
           \E i \in DecisionsIn(f) : events[f][i].version = n
    /\ \A i \in DecisionsIn(f) :
           /\ events[f][i].version \in 1 .. reviews[f].version
           /\ events[f][i].version = reviews[f].version =>
                  events[f][i].status = reviews[f].status

\* A lifecycle event changes neither the review nor the recorded decisions.
LEMMA DecisionsKept ==
    ASSUME TypeOK, NEW f \in Findings, NEW e, Appends(f, e), IsLifecycle(e),
           DecisionsRecorded(f), findings'[f].state # "absent",
           reviews'[f].version = reviews[f].version,
           reviews'[f].version > 0 => reviews'[f].status = reviews[f].status
    PROVE  DecisionsRecorded(f)'
<1>1. PICK n \in Nat \ {0} :
          /\ DOMAIN events[f] = 1 .. n - 1
          /\ DOMAIN events'[f] = 1 .. n
          /\ \A i \in DOMAIN events[f] : events'[f][i] = events[f][i]
          /\ events'[f][n] = e
  <2>1. Len(events[f]) + 1 \in Nat \ {0} /\ (Len(events[f]) + 1) - 1 = Len(events[f])
    BY AppendedHistory
  <2> QED
    BY <2>1, AppendedHistory
<1>2. DecisionsIn(f)' = DecisionsIn(f)
  BY <1>1 DEF DecisionsIn, IsLifecycle
<1>3. \A i \in DecisionsIn(f) : events'[f][i] = events[f][i]
  BY <1>1 DEF DecisionsIn
<1>4. \A i \in DecisionsIn(f) : events[f][i].version \in 1 .. reviews[f].version
  BY DEF DecisionsRecorded
<1>5. reviews[f].version \in Nat
  BY DEF TypeOK, ReviewRow
<1> QED
  BY <1>2, <1>3, <1>4, <1>5 DEF DecisionsRecorded

\* An accepted decision is recorded under the next version.
LEMMA DecisionRecorded ==
    ASSUME TypeOK, NEW f \in Findings, DecisionsRecorded(f), Decision(f)
    PROVE  DecisionsRecorded(f)'
<1>1. PICK decision \in Decisions :
          /\ findings[f].state # "absent"
          /\ findings'[f] = findings[f]
          /\ reviews'[f] = [status |-> decision, version |-> reviews[f].version + 1]
          /\ events'[f] = Append(events[f],
                 [type |-> "review-decision-changed", snapshot |-> NoSnapshot,
                  status |-> decision, version |-> reviews[f].version + 1])
  BY DEF Decision
<1> DEFINE e == [type |-> "review-decision-changed", snapshot |-> NoSnapshot,
                 status |-> decision, version |-> reviews[f].version + 1]
<1>2. reviews[f].version \in Nat
  BY DEF TypeOK, ReviewRow
<1>3. Appends(f, e)
  BY <1>1, <1>2 DEF Appends, Event, ReviewStatuses
<1>4. ~IsLifecycle(e) /\ e.version = reviews[f].version + 1 /\ e.status = decision
  BY DEF IsLifecycle, LifecycleEvents
<1> HIDE DEF e
<1>5. PICK n \in Nat \ {0} :
          /\ DOMAIN events[f] = 1 .. n - 1
          /\ DOMAIN events'[f] = 1 .. n
          /\ \A i \in DOMAIN events[f] : events'[f][i] = events[f][i]
          /\ events'[f][n] = e
  <2>1. Len(events[f]) + 1 \in Nat \ {0} /\ (Len(events[f]) + 1) - 1 = Len(events[f])
    BY <1>3, AppendedHistory
  <2> QED
    BY <1>3, <2>1, AppendedHistory
<1>6. DecisionsIn(f)' = DecisionsIn(f) \cup {n}
  BY <1>4, <1>5 DEF DecisionsIn, IsLifecycle
<1>7. \A i \in DecisionsIn(f) : /\ events'[f][i] = events[f][i]
                               /\ i \in Nat /\ i < n
                               /\ events[f][i].version \in 1 .. reviews[f].version
  BY <1>5 DEF DecisionsIn, DecisionsRecorded
<1>8. /\ reviews'[f].version = reviews[f].version + 1
      /\ reviews'[f].status = decision
      /\ findings'[f].state # "absent"
      /\ events'[f][n].version = reviews[f].version + 1
      /\ events'[f][n].status = decision
  BY <1>1, <1>4, <1>5
<1>9. ASSUME NEW i \in DecisionsIn(f)', NEW j \in DecisionsIn(f)', i < j
      PROVE  events'[f][i].version < events'[f][j].version
  <2>1. i \in DecisionsIn(f)
    BY <1>6, <1>7, <1>9
  <2>2. CASE j = n
    BY <1>2, <1>7, <1>8, <2>1, <2>2
  <2>3. CASE j \in DecisionsIn(f)
    BY <1>7, <1>9, <2>1, <2>3 DEF DecisionsRecorded
  <2> QED
    BY <1>6, <2>2, <2>3
<1>10. ASSUME NEW m \in 1 .. reviews'[f].version
       PROVE  \E i \in DecisionsIn(f)' : events'[f][i].version = m
  <2>1. CASE m = reviews[f].version + 1
    BY <1>6, <1>8, <2>1
  <2>2. CASE m \in 1 .. reviews[f].version
    BY <1>6, <1>7, <2>2 DEF DecisionsRecorded
  <2> QED
    BY <1>2, <1>8, <2>1, <2>2
<1>11. \A i \in DecisionsIn(f)' :
           /\ events'[f][i].version \in 1 .. reviews'[f].version
           /\ events'[f][i].version = reviews'[f].version =>
                  events'[f][i].status = reviews'[f].status
  BY <1>2, <1>6, <1>7, <1>8
<1> QED
  BY <1>8, <1>9, <1>10, <1>11 DEF DecisionsRecorded

\* Every step keeps the decisions recorded.
LEMMA DecisionsStep ==
    ASSUME TypeOK, [Next]_storeVars, NEW f \in Findings, DecisionsRecorded(f)
    PROVE  DecisionsRecorded(f)'
<1>1. ASSUME NEW s \in Snapshots, Sighting(f, s)
      PROVE  DecisionsRecorded(f)'
  <2> DEFINE e == LifecycleEvent(ObservationEvent(f), s)
  <2>1. ObservationEvent(f) \in LifecycleEvents
    BY DEF TypeOK, FindingRow, ObservationEvent, LifecycleEvents
  <2>2. Appends(f, e) /\ IsLifecycle(e)
    BY <1>1, <2>1 DEF Sighting, Appends, LifecycleEvent, Event, ReviewStatuses, IsLifecycle
  <2>3. findings'[f].state # "absent"
    BY <1>1 DEF Sighting, ObservedFinding
  <2>4. /\ reviews'[f].version = reviews[f].version
        /\ reviews'[f].version > 0 => reviews'[f].status = reviews[f].status
    BY <1>1 DEF Sighting, ReconciledReview, DecisionsRecorded
  <2> HIDE DEF e
  <2> QED
    BY <2>2, <2>3, <2>4, DecisionsKept
<1>2. ASSUME NEW s \in Snapshots, Resolution(f, s)
      PROVE  DecisionsRecorded(f)'
  <2> DEFINE e == LifecycleEvent("finding-resolved", s)
  <2>1. Appends(f, e) /\ IsLifecycle(e)
    BY <1>2 DEF Resolution, Appends, LifecycleEvent, Event, ReviewStatuses,
                IsLifecycle, LifecycleEvents
  <2>2. findings'[f].state # "absent"
    BY <1>2 DEF Resolution, TypeOK, FindingRow
  <2>3. reviews'[f] = reviews[f]
    BY <1>2 DEF Resolution
  <2> HIDE DEF e
  <2> QED
    BY <2>1, <2>2, <2>3, DecisionsKept
<1>3. CASE Decision(f)
  BY <1>3, DecisionRecorded
<1>4. CASE Untouched(f)
  BY <1>4 DEF Untouched, DecisionsRecorded, DecisionsIn
<1> QED
  BY <1>1, <1>2, <1>3, <1>4, FindingStep

\* No accepted decision is lost: the recorded decisions on a finding are numbered
\* without gaps up to the version of its review, which holds the last of them.
THEOREM DecisionsAlwaysRecorded == Spec => []DecisionsAreRecorded
<1> DEFINE Inv == \A f \in Findings : DecisionsRecorded(f)
<1>1. Init => Inv
  <2> SUFFICES ASSUME Init, NEW f \in Findings PROVE DecisionsRecorded(f)
    OBVIOUS
  <2>1. events[f] = <<>> /\ reviews[f].version = 0 /\ DOMAIN events[f] = {}
    BY DEF Init
  <2> QED
    BY <2>1 DEF DecisionsRecorded, DecisionsIn
<1>2. TypeOK /\ Inv /\ [Next]_storeVars => Inv'
  BY DecisionsStep
<1>3. Inv => DecisionsAreRecorded
  BY DEF DecisionsRecorded, DecisionsAreRecorded
<1> QED
  BY <1>1, <1>2, <1>3, TypeCorrect, PTL DEF Spec

-----------------------------------------------------------------------------
(* What a step may never do *)

\* Reconciliation never touches the human decision on a known finding.
THEOREM DecisionsSurviveReconciliation == Spec => EvidenceNeverChangesDecisions
<1> DEFINE Kept == \A f \in Findings :
               findings[f].state # "absent" /\ findings'[f] # findings[f] =>
                   reviews'[f] = reviews[f]
<1>1. TypeOK /\ [Next]_storeVars => Kept
  <2> SUFFICES ASSUME TypeOK, [Next]_storeVars, NEW f \in Findings,
                      findings[f].state # "absent", findings'[f] # findings[f]
               PROVE  reviews'[f] = reviews[f]
    OBVIOUS
  <2> QED
    BY FindingStep DEF Sighting, ReconciledReview, Resolution, Decision, Untouched
<1> QED
  BY <1>1, TypeCorrect, PTL DEF Spec, EvidenceNeverChangesDecisions

\* The promotion that resolves a finding is that of a complete scan, by the
\* newest attempt of the finding's repository.
LEMMA ResolvingStep ==
    ASSUME TypeOK, GenerationsAreIssued, [Next]_storeVars, NEW f \in Findings,
           findings[f].state = "active", findings'[f].state = "resolved"
    PROVE  \E a \in Analyses :
               /\ analyses'[a].state = "completed"
               /\ analyses'[a].repository = Owner[f]
               /\ analyses'[a].snapshot = findings'[f].resolvedIn
               /\ Complete(analyses'[a].snapshot)
               /\ \A b \in Analyses :
                      Begun(b) /\ analyses[b].repository = Owner[f] =>
                          analyses[b].generation <= analyses[a].generation
<1>1. PICK a \in Analyses, s \in Snapshots : SaveCompletedSnapshot(a, s)
  BY DEF Next, BeginAnalysis, UpdateProgress, FinishAnalysis, UpdateFindingReview,
         storeVars, TypeOK
<1>2. Authoritative(a)
  BY <1>1 DEF SaveCompletedSnapshot, lifecycle
<1>3. ReconcileFindings(s, SkipReason(a, s) = "none")
  BY <1>1, <1>2 DEF SaveCompletedSnapshot
<1>4. ~Observes(f, s)
  BY <1>3 DEF ReconcileFindings, ObservedFinding
<1>5. SkipReason(a, s) = "none" /\ Resolves(f, s) /\ findings'[f].resolvedIn = s
  BY <1>3, <1>4 DEF ReconcileFindings, TypeOK, FindingRow
<1>6. Complete(s)
  BY <1>5 DEF SkipReason, Complete
<1>7. /\ analyses'[a].state = "completed"
      /\ analyses'[a].snapshot = s
      /\ analyses'[a].repository = analyses[a].repository
      /\ analyses[a].repository = Owner[f]
  BY <1>1, <1>5 DEF SaveCompletedSnapshot, Resolves, TypeOK, AnalysisRow
<1>8. \A b \in Analyses : Begun(b) /\ analyses[b].repository = Owner[f] =>
          analyses[b].generation <= analyses[a].generation
  <2>1. analyses[a].generation = latestGeneration[Owner[f]]
    BY <1>2, <1>7 DEF Authoritative
  <2> QED
    BY <2>1 DEF GenerationsAreIssued
<1> QED
  BY <1>5, <1>6, <1>7, <1>8

\* A finding is resolved only by a complete scan of the attempt that holds the
\* newest generation of the finding's repository at the moment of promotion.
THEOREM ResolutionNeedsAuthority == Spec => OnlyNewestCompleteScanResolves
<1> DEFINE Justified == \A f \in Findings :
               findings[f].state = "active" /\ findings'[f].state = "resolved" =>
                   \E a \in Analyses :
                       /\ analyses'[a].state = "completed"
                       /\ analyses'[a].repository = Owner[f]
                       /\ analyses'[a].snapshot = findings'[f].resolvedIn
                       /\ Complete(analyses'[a].snapshot)
                       /\ \A b \in Analyses :
                              Begun(b) /\ analyses[b].repository = Owner[f] =>
                                  analyses[b].generation <= analyses[a].generation
<1>1. TypeOK /\ GenerationsAreIssued /\ [Next]_storeVars => Justified
  BY ResolvingStep
<1>2. Init => GenerationsAreIssued /\ GenerationsAreUnique
  BY DEF Init, GenerationsAreIssued, GenerationsAreUnique, Begun, AbsentAnalysis
<1>3. TypeOK /\ GenerationsAreIssued /\ GenerationsAreUnique /\ [Next]_storeVars
          => GenerationsAreIssued' /\ GenerationsAreUnique'
  BY GenerationStep
<1> QED
  BY <1>1, <1>2, <1>3, TypeCorrect, PTL DEF Spec, OnlyNewestCompleteScanResolves

-----------------------------------------------------------------------------
(* The store implements the ledger *)


\* A finding that was never seen has no decision.
UnseenAreUndecided ==
    \A f \in Findings : findings[f].state = "absent" =>
        reviews[f] = [status |-> "new", version |-> 0]

\* Only the first sighting of a finding can change its row, and it writes a fresh
\* review.
LEMMA UnseenStep ==
    ASSUME TypeOK, UnseenAreUndecided, [Next]_storeVars
    PROVE  UnseenAreUndecided'
<1> SUFFICES ASSUME NEW f \in Findings, findings'[f].state = "absent"
             PROVE  reviews'[f] = [status |-> "new", version |-> 0]
  BY DEF UnseenAreUndecided
<1>1. ASSUME NEW s \in Snapshots, Sighting(f, s)
      PROVE  FALSE
  <2>1. findings'[f].state = "active"
    BY <1>1 DEF Sighting, ObservedFinding
  <2> QED
    BY <2>1
<1>2. ASSUME NEW s \in Snapshots, Resolution(f, s)
      PROVE  FALSE
  <2>1. findings[f] \in FindingRow
    BY DEF TypeOK
  <2>2. findings'[f] = [findings[f] EXCEPT !.state = "resolved", !.resolvedIn = s]
    BY <1>2 DEF Resolution
  <2>3. findings'[f].state = "resolved"
    BY <2>1, <2>2 DEF FindingRow
  <2> QED
    BY <2>3
<1>3. ~Decision(f)
  BY DEF Decision
<1>4. Untouched(f)
  BY <1>1, <1>2, <1>3, FindingStep
<1> QED
  BY <1>4 DEF Untouched, UnseenAreUndecided

\* A promotion is one observation of the repository, complete or partial.
LEMMA PromotionIsObservation ==
    ASSUME TypeOK, UnseenAreUndecided, NEW a \in Analyses, NEW s \in Snapshots,
           SaveCompletedSnapshot(a, s)
    PROVE  \/ UNCHANGED <<findings, reviews>>
           \/ Ledger!ObservePartially(Content[s].repository, Content[s].findings)
           \/ Ledger!ObserveCompletely(Content[s].repository, Content[s].findings)
<1> DEFINE r == Content[s].repository
           seen == Content[s].findings
           resolveMissing == SkipReason(a, s) = "none"
<1>1. /\ seen \in SUBSET Findings
      /\ \A f \in seen : Owner[f] = r
  BY ContentAssumption DEF SnapshotContent
<1>2. seen \subseteq Ledger!OwnedBy(r)
  BY <1>1 DEF Ledger!OwnedBy
<1>3. CASE ~Authoritative(a)
  BY <1>3 DEF SaveCompletedSnapshot, lifecycle
<1>4. CASE Authoritative(a)
  <2>1. ReconcileFindings(s, resolveMissing)
    BY <1>4 DEF SaveCompletedSnapshot
  <2> HIDE DEF resolveMissing
  <2>2. UNCHANGED reviews
    <3>1. reviews' = [f \in Findings |-> ReconciledReview(f, s)]
      BY <2>1 DEF ReconcileFindings
    <3>2. \A f \in Findings : ReconciledReview(f, s) = reviews[f]
      BY DEF ReconciledReview, UnseenAreUndecided
    <3> QED
      BY <3>1, <3>2 DEF TypeOK
  <2>3. ASSUME NEW f \in Findings
        PROVE  findings'[f].state =
                   IF f \in seen THEN "active"
                   ELSE IF resolveMissing /\ Owner[f] = r /\ findings[f].state = "active"
                        THEN "resolved" ELSE findings[f].state
    <3>1. CASE Observes(f, s)
      BY <2>1, <3>1 DEF ReconcileFindings, Observes, ObservedFinding
    <3>2. CASE ~Observes(f, s)
      BY <2>1, <3>2 DEF ReconcileFindings, Observes, Resolves, TypeOK, FindingRow
    <3> QED
      BY <3>1, <3>2
  <2>4. CASE resolveMissing
    <3>1. \A f \in Findings : findings'[f].state = Ledger!AfterCompleteScan(f, r, seen)
      BY <1>1, <2>3, <2>4 DEF Ledger!AfterCompleteScan, Ledger!OwnedBy
    <3> QED
      BY <1>2, <2>2, <3>1 DEF Ledger!ObserveCompletely
  <2>5. CASE ~resolveMissing
    BY <1>2, <2>2, <2>3, <2>5 DEF Ledger!ObservePartially
  <2> QED
    BY <2>4, <2>5
<1> QED
  BY <1>3, <1>4

\* Every step of the store is a step of the ledger or leaves the ledger alone.
LEMMA LedgerStep ==
    ASSUME TypeOK, UnseenAreUndecided, [Next]_storeVars
    PROVE  [Ledger!Next]_(Ledger!ledgerVars)
<1>1. ASSUME NEW a \in Analyses, NEW s \in Snapshots, SaveCompletedSnapshot(a, s)
      PROVE  [Ledger!Next]_(Ledger!ledgerVars)
  <2>1. Content[s].repository \in Repositories /\ Content[s].findings \in SUBSET Findings
    BY ContentAssumption DEF SnapshotContent
  <2>2. CASE UNCHANGED <<findings, reviews>>
    BY <2>2 DEF Ledger!ledgerVars
  <2> QED
    BY <1>1, <2>1, <2>2, PromotionIsObservation DEF Ledger!Next
<1>2. ASSUME NEW f \in Findings, NEW expected \in 0 .. MaxDecisions,
             NEW decision \in Decisions, UpdateFindingReview(f, expected, decision)
      PROVE  [Ledger!Next]_(Ledger!ledgerVars)
  <2>1. Ledger!Decide(f, decision)
    BY <1>2 DEF UpdateFindingReview, AcceptsReview, Ledger!Decide
  <2> QED
    BY <2>1 DEF Ledger!Next
<1>3. ASSUME UNCHANGED <<findings, reviews>>
      PROVE  [Ledger!Next]_(Ledger!ledgerVars)
  BY <1>3 DEF Ledger!ledgerVars
<1> QED
  BY <1>1, <1>2, <1>3 DEF Next, BeginAnalysis, UpdateProgress, FinishAnalysis, storeVars

\* The store, with its attempts, generations, snapshots and history, implements
\* the abstract ledger of findings its readers rely on.
THEOREM StoreImplementsLedger == Spec => ImplementsLedger
<1>1. Init => Ledger!Init /\ UnseenAreUndecided
  BY DEF Init, Ledger!Init, UnseenAreUndecided, AbsentFinding
<1>2. TypeOK /\ UnseenAreUndecided /\ [Next]_storeVars => UnseenAreUndecided'
  BY UnseenStep
<1>3. TypeOK /\ UnseenAreUndecided /\ [Next]_storeVars => [Ledger!Next]_(Ledger!ledgerVars)
  BY LedgerStep
<1> QED
  BY <1>1, <1>2, <1>3, TypeCorrect, PTL DEF Spec, ImplementsLedger, Ledger!Spec

-----------------------------------------------------------------------------
(* The service uses the store through its operations only *)

\* The points of an attempt that holds a snapshot it has not promoted.
Carrying == {"begin", "analysis", "relationships", "findings", "storage",
             "report-relationships", "report-findings", "report-storage"}

\* What the local state of an attempt says of its point.
AttemptsAreShaped ==
    /\ pc \in [Analyses -> Points]
    /\ target \in [Analyses -> Repositories \cup {NoRepository}]
    /\ observed \in [Analyses -> Snapshots \cup {NoSnapshot}]
    /\ cancel \in SUBSET Analyses
    /\ startedAt \in [Analyses -> Nat]
    /\ clock \in Nat
    /\ \A a \in Analyses :
           /\ pc[a] # "idle" => target[a] \in Repositories
           /\ pc[a] \in Carrying => observed[a] \in Snapshots

\* A step of one attempt that only moves its point to another legal one.
LEMMA MovesKeepShape ==
    ASSUME AttemptsAreShaped, NEW a \in Analyses, NEW p \in Points, Only(a, p),
           pc[a] # "idle", p \in Carrying => pc[a] \in Carrying
    PROVE  AttemptsAreShaped'
BY DEF AttemptsAreShaped, Only, GoTo

\* Every step of one attempt, when it runs, moves its point as analyze does, is an
\* operation of the store or none, and leaves the rest of its state alone.
LEMMA ServiceStep ==
    ASSUME AttemptsAreShaped, [ServiceNext]_vars
    PROVE  AttemptsAreShaped' /\ [Next]_storeVars
<1>1. ASSUME NEW a \in Analyses, NEW r \in Repositories, Start(a, r)
      PROVE  AttemptsAreShaped' /\ [Next]_storeVars
  BY <1>1 DEF Start, GoTo, AttemptsAreShaped, Points, Checked, Carrying
<1>2. ASSUME NEW a \in Analyses, Step(a)
      PROVE  AttemptsAreShaped' /\ [Next]_storeVars
  <2>1. ASSUME NEW s \in Snapshots, Discover(a, s)
        PROVE  AttemptsAreShaped' /\ [Next]_storeVars
    BY <2>1 DEF Discover, GoTo, AttemptsAreShaped, Points
  <2>2. CASE Begin(a)
    <3>1. target[a] \in Repositories
      BY <2>2 DEF Begin, AttemptsAreShaped
    <3>2. Next
      BY <2>2, <3>1 DEF Begin, Next
    <3>3. AttemptsAreShaped'
      BY <2>2, MovesKeepShape DEF Begin, Points, Checked, Carrying
    <3> QED
      BY <3>2, <3>3
  <2>3. CASE PassCheck(a)
    <3>1. AfterCheck[pc[a]] \in Points /\ pc[a] \in Carrying /\ pc[a] # "idle"
      BY <2>3 DEF PassCheck, AfterCheck, Points, Checked, Carrying, ReportPoints
    <3> QED
      BY <2>3, <3>1, MovesKeepShape DEF PassCheck
  <2>4. CASE Report(a)
    <3>1. Reported[pc[a]] \in ProgressPhases
      BY <2>4, PhaseAssumption DEF Report, Reported, ReportPoints
    <3>2. Next
      BY <2>4, <3>1 DEF Report, Next
    <3>3. PICK p : /\ p = IF pc[a] = "report-completed" THEN "returned" ELSE Reported[pc[a]]
                   /\ Only(a, p)
      BY <2>4 DEF Report
    <3>4. p \in Points /\ pc[a] # "idle" /\ (p \in Carrying => pc[a] \in Carrying)
      BY <2>4, <3>3 DEF Report, Reported, ReportPoints, Points, Checked, Ended, Carrying
    <3> QED
      BY <3>2, <3>3, <3>4, MovesKeepShape
  <2>5. CASE Save(a)
    <3>1. observed[a] \in Snapshots
      BY <2>5 DEF Save, AttemptsAreShaped, Carrying
    <3>2. Next
      BY <2>5, <3>1 DEF Save, Next
    <3>3. AttemptsAreShaped'
      BY <2>5, MovesKeepShape DEF Save, Points, ReportPoints, Carrying
    <3> QED
      BY <3>2, <3>3
  <2>6. CASE NoticeCancel(a)
    <3>1. PICK p \in {"cancelled", "on-cancel"} : Only(a, p)
      BY <2>6 DEF NoticeCancel
    <3>2. p \in Points /\ p \notin Carrying /\ pc[a] # "idle"
      BY <2>6 DEF NoticeCancel, Points, Ended, Checked, Carrying
    <3> QED
      BY <2>6, <3>1, <3>2, MovesKeepShape DEF NoticeCancel
  <2>7. CASE RecordCancel(a)
    <3>1. Next
      BY <2>7 DEF RecordCancel, Next
    <3>2. AttemptsAreShaped'
      BY <2>7, MovesKeepShape DEF RecordCancel, Points, Ended, Carrying
    <3> QED
      BY <3>1, <3>2
  <2>8. CASE RecordFailure(a)
    <3>1. Next
      BY <2>8 DEF RecordFailure, Next
    <3>2. AttemptsAreShaped'
      BY <2>8, MovesKeepShape DEF RecordFailure, Points, Ended, Carrying
    <3> QED
      BY <3>1, <3>2
  <2> QED
    BY <1>2, <2>1, <2>2, <2>3, <2>4, <2>5, <2>6, <2>7, <2>8 DEF Step
<1>3. ASSUME NEW a \in Analyses, ReportFile(a)
      PROVE  AttemptsAreShaped' /\ [Next]_storeVars
  <2>1. Next
    BY <1>3, PhaseAssumption DEF ReportFile, Next
  <2>2. AttemptsAreShaped'
    BY <1>3, MovesKeepShape DEF ReportFile, Points, Checked, Carrying
  <2> QED
    BY <2>1, <2>2
<1>4. ASSUME NEW a \in Analyses, Fail(a)
      PROVE  AttemptsAreShaped' /\ [Next]_storeVars
  <2>1. PICK p \in {"failed", "on-failure"} : Only(a, p)
    BY <1>4 DEF Fail
  <2>2. p \in Points /\ p \notin Carrying /\ pc[a] # "idle"
    BY <1>4 DEF Fail, Points, Ended, Checked, Carrying, ReportPoints
  <2> QED
    BY <1>4, <2>1, <2>2, MovesKeepShape DEF Fail
<1>5. ASSUME NEW a \in Analyses, FinalReportFails(a) \/ HandlerFails(a) \/ Die(a)
      PROVE  AttemptsAreShaped' /\ [Next]_storeVars
  <2>1. PICK p \in {"on-failure", "lost", "dead"} : Only(a, p)
    BY <1>5 DEF FinalReportFails, HandlerFails, Die
  <2>2. p \in Points /\ p \notin Carrying /\ pc[a] # "idle"
    BY <1>5 DEF FinalReportFails, HandlerFails, Die, Running, Points, Ended, Carrying
  <2> QED
    BY <1>5, <2>1, <2>2, MovesKeepShape DEF FinalReportFails, HandlerFails, Die
<1>6. ASSUME NEW a \in Analyses, RequestCancel(a)
      PROVE  AttemptsAreShaped' /\ [Next]_storeVars
  BY <1>6 DEF RequestCancel, AttemptsAreShaped
<1>7. ASSUME NEW f \in Findings, NEW expected \in 0 .. MaxDecisions,
             NEW decision \in Decisions, Decide(f, expected, decision)
      PROVE  AttemptsAreShaped' /\ [Next]_storeVars
  <2>1. Next
    BY <1>7 DEF Decide, Next
  <2> QED
    BY <1>7, <2>1 DEF Decide, serviceVars, AttemptsAreShaped
<1>8. CASE UNCHANGED vars
  BY <1>8 DEF vars, serviceVars, AttemptsAreShaped
<1> QED
  BY <1>1, <1>2, <1>3, <1>4, <1>5, <1>6, <1>7, <1>8 DEF ServiceNext

\* Attempts keep their shape.
LEMMA ShapeKept == ServiceSpec => []AttemptsAreShaped
<1>1. ServiceInit => AttemptsAreShaped
  BY DEF ServiceInit, AttemptsAreShaped, Points, Carrying
<1> QED
  BY <1>1, ServiceStep, PTL DEF ServiceSpec

\* Whatever happens to attempts, they use the store through its operations only:
\* all that is proved of the store holds of every behaviour of the service.
THEOREM ServiceImplementsStore == ServiceSpec => Spec
<1>1. ServiceInit => Init
  BY DEF ServiceInit
<1>2. AttemptsAreShaped /\ [ServiceNext]_vars => [Next]_storeVars
  BY ServiceStep
<1> QED
  BY <1>1, <1>2, ShapeKept, PTL DEF ServiceSpec, Spec
-----------------------------------------------------------------------------
(* The findings follow the newest reconciliation *)

\* The points before the promotion.
Before == {"idle", "discovery"} \cup Carrying

Reconciled(a) == analyses[a].reconciled

NewestReconciled(a) ==
    /\ Reconciled(a)
    /\ \A b \in Analyses :
           Reconciled(b) /\ analyses[b].repository = analyses[a].repository =>
               analyses[b].generation <= analyses[a].generation

\* The findings of the repository are those the attempt left.
FindingsLeftBy(a) ==
    /\ \A f \in Content[analyses[a].snapshot].findings :
           findings[f].state = "active" /\ findings[f].lastSeen = analyses[a].snapshot
    /\ Complete(analyses[a].snapshot) =>
           \A f \in Findings :
               Owner[f] = analyses[a].repository /\ findings[f].state = "active" =>
                   f \in Content[analyses[a].snapshot].findings

PromotionIsOnce ==
    \A a \in Analyses :
        /\ pc[a] \in Before => ~Reconciled(a)
        /\ Reconciled(a) =>
               /\ Begun(a)
               /\ analyses[a].snapshot \in Snapshots
               /\ Content[analyses[a].snapshot].repository = analyses[a].repository

NewestLeftFindings == \A a \in Analyses : NewestReconciled(a) => FindingsLeftBy(a)

\* The newest of several reconciliations exists: attempts may be infinitely many.
NewestExists ==
    \A a \in Analyses : Reconciled(a) =>
        \E b \in Analyses :
            NewestReconciled(b) /\ analyses[b].repository = analyses[a].repository

FollowInv == PromotionIsOnce /\ NewestLeftFindings /\ NewestExists

\* What a step that promotes nothing does to the attempts.
Quiet ==
    /\ UNCHANGED findings
    /\ \A a \in Analyses :
           /\ pc'[a] \in Before => pc[a] \in Before
           /\ Reconciled(a)' = Reconciled(a)
           /\ Reconciled(a) =>
                  /\ Begun(a)'
                  /\ analyses'[a].repository = analyses[a].repository
                  /\ analyses'[a].generation = analyses[a].generation
                  /\ analyses'[a].snapshot = analyses[a].snapshot

\* Quiet steps change nothing the invariant speaks of.
LEMMA QuietKeepsFollow ==
    ASSUME FollowInv, Quiet
    PROVE  FollowInv'
<1>1. PromotionIsOnce'
  BY DEF FollowInv, PromotionIsOnce, Quiet
<1>2. \A a \in Analyses : NewestReconciled(a)' <=> NewestReconciled(a)
  BY DEF Quiet, NewestReconciled
<1>3. NewestLeftFindings'
  <2> SUFFICES ASSUME NEW a \in Analyses, NewestReconciled(a)
               PROVE  FindingsLeftBy(a)'
    BY <1>2 DEF NewestLeftFindings
  <2>1. analyses'[a].snapshot = analyses[a].snapshot
        /\ analyses'[a].repository = analyses[a].repository
    BY DEF Quiet, NewestReconciled
  <2> QED
    BY <2>1 DEF FollowInv, NewestLeftFindings, FindingsLeftBy, Quiet, Complete
<1>4. NewestExists'
  BY <1>2 DEF FollowInv, NewestExists, Quiet, NewestReconciled
<1> QED
  BY <1>1, <1>3, <1>4 DEF FollowInv

\* A transaction that changes neither findings nor what reconciled attempts claim.
StoreIsQuiet ==
    /\ UNCHANGED findings
    /\ \A a \in Analyses :
           /\ Reconciled(a)' = Reconciled(a)
           /\ Reconciled(a) =>
                  /\ Begun(a)'
                  /\ analyses'[a].repository = analyses[a].repository
                  /\ analyses'[a].generation = analyses[a].generation
                  /\ analyses'[a].snapshot = analyses[a].snapshot

\* The transactions around the promotion are quiet.
LEMMA TransactionsAreQuiet ==
    ASSUME TypeOK, PromotionIsOnce, NEW a \in Analyses,
           \/ \E r \in Repositories : BeginAnalysis(a, r)
           \/ \E phase \in ProgressPhases : UpdateProgress(a, phase)
           \/ \E outcome \in {"cancelled", "failed"} : FinishAnalysis(a, outcome)
           \/ \E f \in Findings, expected \in 0 .. MaxDecisions, decision \in Decisions :
                  UpdateFindingReview(f, expected, decision)
           \/ UNCHANGED storeVars
    PROVE  StoreIsQuiet
<1>1. ASSUME NEW r \in Repositories, BeginAnalysis(a, r)
      PROVE  StoreIsQuiet
  <2>1. ~Reconciled(a) /\ ~Reconciled(a)'
    BY <1>1 DEF BeginAnalysis, PromotionIsOnce, Begun, Reconciled, TypeOK, AbsentAnalysis
  <2>2. \A b \in Analyses \ {a} : analyses'[b] = analyses[b]
    BY <1>1 DEF BeginAnalysis, TypeOK
  <2>3. \A b \in Analyses : Reconciled(b)' = Reconciled(b)
    <3>1. ASSUME NEW b \in Analyses PROVE Reconciled(b)' = Reconciled(b)
      <4>1. CASE b = a
        <5>1. Reconciled(a) \in BOOLEAN /\ Reconciled(a)' \in BOOLEAN
          BY <1>1 DEF Reconciled, TypeOK, AnalysisRow, BeginAnalysis, AbsentAnalysis
        <5> QED
          BY <2>1, <4>1, <5>1
      <4>2. CASE b # a
        BY <2>2, <4>2 DEF Reconciled
      <4> QED
        BY <4>1, <4>2
    <3> QED
      BY <3>1
  <2>4. \A b \in Analyses : Reconciled(b) => b # a /\ Begun(b)
    BY <2>1 DEF PromotionIsOnce
  <2> QED
    BY <1>1, <2>2, <2>3, <2>4 DEF StoreIsQuiet, BeginAnalysis, Begun
<1>2. ASSUME NEW phase \in ProgressPhases, UpdateProgress(a, phase)
      PROVE  StoreIsQuiet
  BY <1>2 DEF UpdateProgress, StoreIsQuiet, Reconciled, Begun, TypeOK, AnalysisRow, PromotionIsOnce
<1>3. ASSUME NEW outcome \in {"cancelled", "failed"}, FinishAnalysis(a, outcome)
      PROVE  StoreIsQuiet
  BY <1>3 DEF FinishAnalysis, StoreIsQuiet, Reconciled, Begun, TypeOK, AnalysisRow, PromotionIsOnce
<1>4. CASE UNCHANGED <<analyses, findings>>
  BY <1>4 DEF StoreIsQuiet, Reconciled, Begun, PromotionIsOnce
<1> QED
  BY <1>1, <1>2, <1>3, <1>4 DEF UpdateFindingReview, storeVars

\* A late promotion stores its snapshot and reconciles nothing.
LEMMA LatePromotionIsQuiet ==
    ASSUME TypeOK, NEW a \in Analyses, NEW s \in Snapshots, ~Reconciled(a),
           SaveCompletedSnapshot(a, s), ~Authoritative(a), PromotionIsOnce
    PROVE  StoreIsQuiet
<1>1. UNCHANGED findings
  BY DEF SaveCompletedSnapshot, lifecycle
<1>2. ~Reconciled(a)'
  BY DEF SaveCompletedSnapshot, Reconciled, TypeOK, AnalysisRow
<1>3. \A b \in Analyses \ {a} : analyses'[b] = analyses[b]
  BY DEF SaveCompletedSnapshot, TypeOK
<1>4. Reconciled(a) = Reconciled(a)'
  <2>1. Reconciled(a) \in BOOLEAN /\ Reconciled(a)' \in BOOLEAN
    BY DEF Reconciled, TypeOK, AnalysisRow, SaveCompletedSnapshot, Authoritative
  <2> QED
    BY <1>2, <2>1
<1>5. \A b \in Analyses : Reconciled(b)' = Reconciled(b)
  BY <1>3, <1>4 DEF Reconciled
<1>6. \A b \in Analyses : Reconciled(b) => b # a /\ Begun(b)
  BY DEF PromotionIsOnce
<1> QED
  BY <1>1, <1>3, <1>5, <1>6 DEF StoreIsQuiet, Begun

\* Every step of the service is quiet, or it is a promotion with authority.
LEMMA QuietOrPromotes ==
    ASSUME TypeOK, AttemptsAreShaped, PromotionIsOnce, [ServiceNext]_vars
    PROVE  Quiet \/ \E a \in Analyses : Save(a) /\ Authoritative(a)
<1>1. ASSUME NEW a \in Analyses, NEW p, Only(a, p), p \in Before => pc[a] \in Before,
             StoreIsQuiet
      PROVE  Quiet
  BY <1>1 DEF Only, GoTo, AttemptsAreShaped, Quiet, StoreIsQuiet
<1>2. ASSUME UNCHANGED storeVars
      PROVE  StoreIsQuiet
  BY <1>2 DEF storeVars, StoreIsQuiet, Reconciled, Begun, PromotionIsOnce
<1>3. ASSUME NEW a \in Analyses, NEW r \in Repositories, Start(a, r)
      PROVE  Quiet
  BY <1>2, <1>3 DEF Start, GoTo, AttemptsAreShaped, Quiet, StoreIsQuiet, Before
<1>4. ASSUME NEW a \in Analyses, Step(a), ~Save(a)
      PROVE  Quiet
  <2>1. ASSUME NEW s \in Snapshots, Discover(a, s)
        PROVE  Quiet
    BY <1>2, <2>1 DEF Discover, GoTo, AttemptsAreShaped, Quiet, StoreIsQuiet, Before
  <2>2. CASE Begin(a)
    <3>1. target[a] \in Repositories
      BY <2>2 DEF Begin, AttemptsAreShaped
    <3> QED
      BY <1>1, <2>2, <3>1, TransactionsAreQuiet DEF Begin, Before, Carrying
  <2>3. CASE PassCheck(a)
    <3>1. pc[a] \in Before
      BY <2>3 DEF PassCheck, Before, Carrying, Checked
    <3> QED
      BY <1>1, <1>2, <2>3, <3>1 DEF PassCheck
  <2>4. CASE Report(a)
    <3>1. Reported[pc[a]] \in ProgressPhases
      BY <2>4, PhaseAssumption DEF Report, Reported, ReportPoints
    <3>2. StoreIsQuiet
      BY <2>4, <3>1, TransactionsAreQuiet DEF Report
    <3>3. PICK p : /\ p = IF pc[a] = "report-completed" THEN "returned" ELSE Reported[pc[a]]
                   /\ Only(a, p)
      BY <2>4 DEF Report
    <3>4. p \in Before => pc[a] \in Before
      BY <2>4, <3>3 DEF Report, ReportPoints, Before, Carrying
    <3> QED
      BY <1>1, <3>2, <3>3, <3>4
  <2>5. CASE NoticeCancel(a)
    <3>1. PICK p \in {"cancelled", "on-cancel"} : Only(a, p)
      BY <2>5 DEF NoticeCancel
    <3> QED
      BY <1>1, <1>2, <2>5, <3>1 DEF NoticeCancel, Before, Carrying
  <2>6. CASE RecordCancel(a)
    BY <1>1, <2>6, TransactionsAreQuiet DEF RecordCancel, Before, Carrying
  <2>7. CASE RecordFailure(a)
    BY <1>1, <2>7, TransactionsAreQuiet DEF RecordFailure, Before, Carrying
  <2> QED
    BY <1>4, <2>1, <2>2, <2>3, <2>4, <2>5, <2>6, <2>7 DEF Step
<1>5. ASSUME NEW a \in Analyses, ReportFile(a)
      PROVE  Quiet
  <2>1. StoreIsQuiet
    BY <1>5, PhaseAssumption, TransactionsAreQuiet DEF ReportFile
  <2> QED
    BY <1>1, <1>5, <2>1 DEF ReportFile, Before, Carrying
<1>6. ASSUME NEW a \in Analyses,
             Fail(a) \/ FinalReportFails(a) \/ HandlerFails(a) \/ Die(a)
      PROVE  Quiet
  <2>1. PICK p \in {"failed", "on-failure", "lost", "dead"} : Only(a, p)
    BY <1>6 DEF Fail, FinalReportFails, HandlerFails, Die
  <2> QED
    BY <1>1, <1>2, <1>6, <2>1
       DEF Fail, FinalReportFails, HandlerFails, Die, Before, Carrying
<1>7. ASSUME NEW a \in Analyses, RequestCancel(a)
      PROVE  Quiet
  BY <1>2, <1>7 DEF RequestCancel, Quiet, StoreIsQuiet
<1>8. ASSUME NEW f \in Findings, NEW expected \in 0 .. MaxDecisions,
             NEW decision \in Decisions, Decide(f, expected, decision)
      PROVE  Quiet
  <2>1. UNCHANGED <<analyses, findings, pc>>
    BY <1>8 DEF Decide, UpdateFindingReview, serviceVars
  <2> QED
    BY <2>1 DEF Quiet, Reconciled, Begun, PromotionIsOnce
<1>9. ASSUME NEW a \in Analyses, Save(a), ~Authoritative(a)
      PROVE  Quiet
  <2>1. observed[a] \in Snapshots /\ ~Reconciled(a)
    BY <1>9 DEF Save, AttemptsAreShaped, Carrying, Before, PromotionIsOnce
  <2>2. StoreIsQuiet
    BY <1>9, <2>1, LatePromotionIsQuiet DEF Save
  <2> QED
    BY <1>1, <1>9, <2>2 DEF Save, Before, Carrying
<1>10. CASE UNCHANGED vars
  BY <1>2, <1>10 DEF vars, serviceVars, Quiet, StoreIsQuiet
<1> QED
  BY <1>3, <1>4, <1>5, <1>6, <1>7, <1>8, <1>9, <1>10 DEF ServiceNext

\* A promotion with authority makes its attempt the newest reconciliation, and
\* leaves the findings it saw.
LEMMA PromotionKeepsFollow ==
    ASSUME TypeOK, GenerationsAreIssued, GenerationsAreUnique, AttemptsAreShaped,
           FollowInv, NEW a \in Analyses, Save(a), Authoritative(a)
    PROVE  FollowInv'
<1>1. PICK s \in Snapshots : s = observed[a]
  BY DEF Save, AttemptsAreShaped, Carrying
<1>2. SaveCompletedSnapshot(a, s) /\ Begun(a)
  BY <1>1 DEF Save, SaveCompletedSnapshot, Begun
<1>3. /\ Reconciled(a)' /\ Begun(a)'
      /\ analyses'[a].snapshot = s
      /\ analyses'[a].repository = analyses[a].repository
      /\ analyses'[a].generation = analyses[a].generation
      /\ analyses[a].repository = Content[s].repository
      /\ \A b \in Analyses \ {a} : analyses'[b] = analyses[b]
  BY <1>2 DEF SaveCompletedSnapshot, Reconciled, Begun, TypeOK, AnalysisRow
<1>4. PromotionIsOnce'
  BY <1>3 DEF FollowInv, PromotionIsOnce, Save, Only, GoTo, AttemptsAreShaped, Before,
              Carrying, Reconciled, Begun
<1>5. \A b \in Analyses :
          Reconciled(b)' /\ analyses'[b].repository = analyses[a].repository =>
              analyses'[b].generation <= analyses[a].generation
  <2> SUFFICES ASSUME NEW b \in Analyses, Reconciled(b)',
                      analyses'[b].repository = analyses[a].repository
               PROVE  analyses'[b].generation <= analyses[a].generation
    OBVIOUS
  <2>1. CASE b = a
    <3>1. analyses[a].generation \in Nat
      BY DEF TypeOK, AnalysisRow
    <3> QED
      BY <1>3, <2>1, <3>1
  <2>2. CASE b # a
    <3>1. analyses'[b] = analyses[b] /\ Begun(b)
      BY <1>3, <2>2 DEF FollowInv, PromotionIsOnce, Reconciled
    <3> QED
      BY <1>2, <3>1 DEF GenerationsAreIssued, Authoritative
  <2> QED
    BY <2>1, <2>2
<1>6. NewestReconciled(a)'
  BY <1>3, <1>5 DEF NewestReconciled
<1>7. FindingsLeftBy(a)'
  <2>1. ReconcileFindings(s, SkipReason(a, s) = "none")
    BY <1>2 DEF SaveCompletedSnapshot
  <2>2. ASSUME NEW f \in Content[s].findings
        PROVE  findings'[f].state = "active" /\ findings'[f].lastSeen = s
    <3>1. f \in Findings
      BY <2>2, ContentAssumption DEF SnapshotContent
    <3>2. CASE Observes(f, s)
      BY <2>1, <3>1, <3>2 DEF ReconcileFindings, ObservedFinding
    <3>3. CASE ~Observes(f, s)
      BY <2>1, <2>2, <3>1, <3>3 DEF ReconcileFindings, Observes, Resolves
    <3> QED
      BY <3>2, <3>3
  <2>3. ASSUME Complete(s), NEW f \in Findings, Owner[f] = analyses[a].repository,
               f \notin Content[s].findings
        PROVE  findings'[f].state # "active"
    <3>1. SkipReason(a, s) = "none"
      BY <2>3 DEF Complete, SkipReason
    <3>2. CASE Resolves(f, s)
      BY <2>1, <2>3, <3>1, <3>2 DEF ReconcileFindings, Observes, TypeOK, FindingRow
    <3>3. CASE ~Resolves(f, s)
      BY <1>3, <2>1, <2>3, <3>1, <3>3 DEF ReconcileFindings, Observes, Resolves
    <3> QED
      BY <3>2, <3>3
  <2> QED
    BY <1>3, <2>2, <2>3 DEF FindingsLeftBy
<1>8. ASSUME NEW b \in Analyses, analyses'[b].repository # analyses[a].repository
      PROVE  /\ analyses'[b] = analyses[b]
             /\ NewestReconciled(b)' <=> NewestReconciled(b)
  BY <1>3, <1>8 DEF Reconciled, NewestReconciled
<1>9. NewestLeftFindings'
  <2> SUFFICES ASSUME NEW b \in Analyses, NewestReconciled(b)'
               PROVE  FindingsLeftBy(b)'
    BY DEF NewestLeftFindings
  <2>1. CASE analyses'[b].repository = analyses[a].repository
    <3>1. analyses'[b].generation = analyses'[a].generation
      <4>1. analyses'[b].generation <= analyses[a].generation
        BY <1>5, <2>1 DEF NewestReconciled
      <4>2. analyses'[a].generation <= analyses'[b].generation
        BY <1>3, <2>1 DEF NewestReconciled
      <4>3. analyses'[b].generation \in Nat /\ analyses[a].generation \in Nat
        BY <1>2, <1>3 DEF TypeOK, AnalysisRow
      <4> QED
        BY <1>3, <4>1, <4>2, <4>3
    <3>2. b = a
      <4>1. CASE b # a
        <5>1. analyses'[b] = analyses[b] /\ Begun(b)
          BY <1>3, <4>1 DEF NewestReconciled, Reconciled, FollowInv, PromotionIsOnce
        <5> QED
          BY <1>2, <1>3, <2>1, <3>1, <4>1, <5>1 DEF GenerationsAreUnique
      <4> QED
        BY <4>1
    <3> QED
      BY <1>7, <3>2
  <2>2. CASE analyses'[b].repository # analyses[a].repository
    <3>1. NewestReconciled(b) /\ analyses'[b] = analyses[b]
      BY <1>8, <2>2
    <3>2. FindingsLeftBy(b)
      BY <3>1 DEF FollowInv, NewestLeftFindings
    <3>3. /\ analyses[b].snapshot \in Snapshots
          /\ Content[analyses[b].snapshot].repository = analyses[b].repository
      BY <3>1 DEF NewestReconciled, FollowInv, PromotionIsOnce
    <3>4. ASSUME NEW f \in Findings, Owner[f] # Content[s].repository
          PROVE  findings'[f] = findings[f]
      BY <1>2, <3>4, ContentAssumption
         DEF SaveCompletedSnapshot, ReconcileFindings, Observes, Resolves
    <3>5. \A f \in Content[analyses[b].snapshot].findings :
              f \in Findings /\ Owner[f] = analyses[b].repository
      BY <3>3, ContentAssumption DEF SnapshotContent
    <3> QED
      BY <1>3, <2>2, <3>1, <3>2, <3>4, <3>5 DEF FindingsLeftBy, Complete
  <2> QED
    BY <2>1, <2>2
<1>10. NewestExists'
  <2> SUFFICES ASSUME NEW b \in Analyses, Reconciled(b)'
               PROVE  \E c \in Analyses :
                          /\ NewestReconciled(c)'
                          /\ analyses'[c].repository = analyses'[b].repository
    BY DEF NewestExists
  <2>1. CASE analyses'[b].repository = analyses[a].repository
    BY <1>3, <1>6, <2>1
  <2>2. CASE analyses'[b].repository # analyses[a].repository
    <3>1. analyses'[b] = analyses[b]
      BY <1>8, <2>2
    <3>2. PICK c \in Analyses :
              NewestReconciled(c) /\ analyses[c].repository = analyses[b].repository
      BY <3>1 DEF FollowInv, NewestExists, Reconciled
    <3>3. c # a
      BY <2>2, <3>1, <3>2
    <3> QED
      BY <1>3, <1>8, <2>2, <3>1, <3>2, <3>3
  <2> QED
    BY <2>1, <2>2
<1> QED
  BY <1>4, <1>9, <1>10 DEF FollowInv

\* The invariant holds of every behaviour of the service.
LEMMA FollowInvariant == ServiceSpec => []FollowInv
<1>1. ServiceInit => FollowInv
  BY DEF ServiceInit, Init, FollowInv, PromotionIsOnce, NewestLeftFindings, NewestExists,
         NewestReconciled, Reconciled, AbsentAnalysis
<1>2. TypeOK /\ GenerationsAreIssued /\ GenerationsAreUnique /\ AttemptsAreShaped
          /\ FollowInv /\ [ServiceNext]_vars => FollowInv'
  BY QuietKeepsFollow, QuietOrPromotes, PromotionKeepsFollow DEF FollowInv
<1> QED
  BY <1>1, <1>2, ServiceImplementsStore, TypeCorrect, GenerationsIssued, ShapeKept, PTL
     DEF ServiceSpec

\* However attempts overlap, fail, are cancelled or die, the findings of every
\* repository are those the newest reconciling attempt left.
THEOREM FindingsFollow == ServiceSpec => []FindingsFollowNewestReconciliation
<1>1. GenerationsAreUnique /\ FollowInv => FindingsFollowNewestReconciliation
  <2> SUFFICES ASSUME GenerationsAreUnique, FollowInv, NEW r \in Repositories,
                      ReconciledOf(r) # {}
               PROVE  /\ \A f \in Content[analyses[NewestOf(ReconciledOf(r))].snapshot].findings :
                             /\ findings[f].state = "active"
                             /\ findings[f].lastSeen = analyses[NewestOf(ReconciledOf(r))].snapshot
                      /\ Complete(analyses[NewestOf(ReconciledOf(r))].snapshot) =>
                             ActiveFindings(r) =
                                 Content[analyses[NewestOf(ReconciledOf(r))].snapshot].findings
    BY DEF FindingsFollowNewestReconciliation
  <2>1. PICK b \in Analyses : NewestReconciled(b) /\ analyses[b].repository = r
    BY DEF ReconciledOf, FollowInv, NewestExists, Reconciled
  <2>2. b \in ReconciledOf(r) /\ \A c \in ReconciledOf(r) :
            analyses[c].generation <= analyses[b].generation
    BY <2>1 DEF ReconciledOf, NewestReconciled, Reconciled
  <2>3. PICK a : a = NewestOf(ReconciledOf(r))
    OBVIOUS
  <2>4. a \in ReconciledOf(r) /\ \A c \in ReconciledOf(r) :
            analyses[c].generation <= analyses[a].generation
    BY <2>2, <2>3 DEF NewestOf
  <2>5. a \in Analyses /\ NewestReconciled(a) /\ analyses[a].repository = r
    BY <2>4 DEF ReconciledOf, NewestReconciled, Reconciled
  <2>6. /\ FindingsLeftBy(a)
        /\ analyses[a].snapshot \in Snapshots
        /\ Content[analyses[a].snapshot].repository = r
    BY <2>5 DEF FollowInv, NewestLeftFindings, PromotionIsOnce, NewestReconciled
  <2>7. \A f \in Content[analyses[a].snapshot].findings : f \in Findings /\ Owner[f] = r
    BY <2>6, ContentAssumption DEF SnapshotContent
  <2> QED
    BY <2>3, <2>5, <2>6, <2>7 DEF FindingsLeftBy, ActiveFindings
<1> QED
  BY <1>1, FollowInvariant, ServiceImplementsStore, GenerationsUnique, PTL
-----------------------------------------------------------------------------
(* What the row of an attempt says at each of its points                       *)

Promoted(a) == analyses[a].snapshot # NoSnapshot

\* The points at which the row is there and not finished.
Open == {"analysis", "relationships", "findings", "storage", "on-cancel",
         "report-relationships", "report-findings", "report-storage"}

\* An attempt that fails after its promotion is the only one whose row can be
\* failed and name a snapshot.
PointFits(a) ==
    /\ pc[a] \in {"idle", "discovery", "begin"} => analyses[a].state = "absent"
    /\ pc[a] \in Open => analyses[a].state = "started"
    /\ pc[a] \in {"report-completed", "returned"} =>
           analyses[a].state = "completed" /\ analyses[a].snapshot = observed[a]
    /\ pc[a] = "on-failure" => analyses[a].state \in {"started", "completed"}
    /\ pc[a] = "cancelled" => analyses[a].state \in {"absent", "cancelled"}
    /\ pc[a] = "failed" => analyses[a].state \in {"absent", "failed"}
    /\ pc[a] \in {"lost", "dead"} => analyses[a].state \in {"absent", "started", "completed"}
    /\ pc[a] = "lost" => "handler" \in Disturbances

SnapshotFits(a) ==
    /\ analyses[a].state \in {"absent", "started", "cancelled"} => ~Promoted(a)
    /\ analyses[a].state = "completed" => analyses[a].snapshot \in snapshots
    /\ analyses[a].reconciled => Promoted(a)
    /\ analyses[a].reconciled /\ analyses[a].skipReason = "none" => Complete(analyses[a].snapshot)

\* As long as the report after a promotion never fails.
FailuresPromoteNothing(a) ==
    "final-report" \notin Disturbances =>
        /\ analyses[a].state = "failed" => ~Promoted(a)
        /\ pc[a] \in {"on-failure", "lost"} => analyses[a].state = "started"

RowFits(a) == PointFits(a) /\ SnapshotFits(a) /\ FailuresPromoteNothing(a)

RowsFit == \A a \in Analyses : RowFits(a)

\* An attempt that a step does not touch.
LEMMA UntouchedFits ==
    ASSUME NEW b \in Analyses, RowFits(b), analyses'[b] = analyses[b],
           pc'[b] = pc[b], observed'[b] = observed[b], snapshots \subseteq snapshots'
    PROVE  RowFits(b)'
BY DEF RowFits, PointFits, SnapshotFits, FailuresPromoteNothing, Promoted, Complete

\* An attempt that only moves.
LEMMA MovedFits ==
    ASSUME AttemptsAreShaped, RowsFit, NEW a \in Analyses, NEW p, Only(a, p),
           UNCHANGED storeVars, PointFits(a)',
           "final-report" \notin Disturbances /\ p \in {"on-failure", "lost"} =>
               analyses[a].state = "started"
    PROVE  RowsFit'
<1>1. /\ pc'[a] = p /\ UNCHANGED <<observed, analyses, snapshots>>
      /\ \A b \in Analyses \ {a} : pc'[b] = pc[b]
  BY DEF Only, GoTo, AttemptsAreShaped, storeVars
<1>2. \A b \in Analyses : b # a => RowFits(b)'
  BY <1>1, UntouchedFits DEF RowsFit
<1>3. RowFits(a)'
  BY <1>1 DEF RowsFit, RowFits, SnapshotFits, FailuresPromoteNothing, Promoted, Complete
<1> QED
  BY <1>2, <1>3 DEF RowsFit

\* An attempt whose transaction writes its row.
LEMMA WrittenFits ==
    ASSUME AttemptsAreShaped, RowsFit, NEW a \in Analyses, NEW p, Only(a, p),
           \A b \in Analyses \ {a} : analyses'[b] = analyses[b],
           snapshots \subseteq snapshots', RowFits(a)'
    PROVE  RowsFit'
<1>1. /\ UNCHANGED observed
      /\ \A b \in Analyses \ {a} : pc'[b] = pc[b]
  BY DEF Only, GoTo, AttemptsAreShaped
<1>2. \A b \in Analyses : b # a => RowFits(b)'
  BY <1>1, UntouchedFits DEF RowsFit
<1> QED
  BY <1>2 DEF RowsFit

\* A report writes the phase and nothing else.
LEMMA ReportedFits ==
    ASSUME TypeOK, AttemptsAreShaped, RowsFit, NEW a \in Analyses, NEW p, Only(a, p),
           NEW phase, UpdateProgress(a, phase), pc[a] \in Open \cup {"report-completed"},
           p \in IF pc[a] = "report-completed" THEN {"returned"} ELSE Open
    PROVE  RowsFit'
<1>1. /\ analyses'[a].state = analyses[a].state /\ analyses'[a].snapshot = analyses[a].snapshot
      /\ analyses'[a].reconciled = analyses[a].reconciled
      /\ analyses'[a].skipReason = analyses[a].skipReason
      /\ \A b \in Analyses \ {a} : analyses'[b] = analyses[b]
      /\ UNCHANGED snapshots
  BY DEF UpdateProgress, TypeOK, AnalysisRow
<1>2. pc'[a] = p /\ UNCHANGED observed /\ p \notin {"on-failure", "lost"}
  BY DEF Only, GoTo, AttemptsAreShaped, Open
<1>3. PointFits(a)'
  BY <1>1, <1>2 DEF RowsFit, RowFits, PointFits, Open
<1>4. SnapshotFits(a)' /\ FailuresPromoteNothing(a)'
  BY <1>1, <1>2 DEF RowsFit, RowFits, SnapshotFits, FailuresPromoteNothing, Promoted, Complete
<1> QED
  BY <1>1, <1>3, <1>4, WrittenFits DEF RowFits

\* The row of an attempt that ends as cancelled or failed.
LEMMA FinishedFits ==
    ASSUME TypeOK, AttemptsAreShaped, RowsFit, NEW a \in Analyses,
           NEW outcome \in {"cancelled", "failed"}, Only(a, outcome), FinishAnalysis(a, outcome),
           pc[a] = IF outcome = "cancelled" THEN "on-cancel" ELSE "on-failure"
    PROVE  RowsFit'
<1>1. /\ analyses'[a].state = outcome /\ analyses'[a].snapshot = analyses[a].snapshot
      /\ analyses'[a].reconciled = analyses[a].reconciled
      /\ analyses'[a].skipReason = analyses[a].skipReason
      /\ \A b \in Analyses \ {a} : analyses'[b] = analyses[b]
      /\ UNCHANGED snapshots
  BY DEF FinishAnalysis, TypeOK, AnalysisRow
<1>2. pc'[a] = outcome /\ UNCHANGED observed
  BY DEF Only, GoTo, AttemptsAreShaped
<1>3. RowFits(a)
  BY DEF RowsFit
<1>4. PointFits(a)'
  BY <1>1, <1>2 DEF PointFits, Open
<1>5. SnapshotFits(a)' /\ FailuresPromoteNothing(a)'
  <2>1. outcome = "cancelled" => ~Promoted(a)
    BY <1>3 DEF RowFits, PointFits, SnapshotFits, Open
  <2>2. outcome = "failed" /\ "final-report" \notin Disturbances => ~Promoted(a)
    BY <1>3 DEF RowFits, SnapshotFits, FailuresPromoteNothing
  <2> QED
    BY <1>1, <1>2, <1>3, <2>1, <2>2
       DEF RowFits, SnapshotFits, FailuresPromoteNothing, Promoted, Complete
<1> QED
  BY <1>1, <1>4, <1>5, WrittenFits DEF RowFits

\* The row of an attempt that is promoted.
LEMMA PromotedFits ==
    ASSUME TypeOK, AttemptsAreShaped, RowsFit, NEW a \in Analyses, Save(a)
    PROVE  RowsFit' /\ Promoted(a)'
<1>1. PICK s \in Snapshots : s = observed[a]
  BY DEF Save, AttemptsAreShaped, Carrying
<1>2. SaveCompletedSnapshot(a, s) /\ Only(a, "report-completed")
  BY <1>1 DEF Save
<1>3. /\ analyses'[a].state = "completed" /\ analyses'[a].snapshot = s
      /\ analyses'[a].reconciled = Authoritative(a)
      /\ analyses'[a].skipReason = SkipReason(a, s)
      /\ \A b \in Analyses \ {a} : analyses'[b] = analyses[b]
      /\ s \in snapshots' /\ snapshots \subseteq snapshots'
  BY <1>2 DEF SaveCompletedSnapshot, TypeOK, AnalysisRow
<1>4. pc'[a] = "report-completed" /\ observed'[a] = s
  BY <1>1, <1>2 DEF Only, GoTo, AttemptsAreShaped
<1>5. Promoted(a)'
  BY <1>3, NullAssumption DEF Promoted
<1>6. PointFits(a)' /\ FailuresPromoteNothing(a)'
  BY <1>3, <1>4 DEF PointFits, Open, FailuresPromoteNothing
<1>7. SnapshotFits(a)'
  BY <1>3, <1>5 DEF SnapshotFits, SkipReason, Complete
<1> QED
  BY <1>2, <1>3, <1>5, <1>6, <1>7, WrittenFits DEF RowFits

\* Every step of the service keeps row and point together.
LEMMA RowsFitStep ==
    ASSUME TypeOK, AttemptsAreShaped, RowsFit, [ServiceNext]_vars
    PROVE  RowsFit'
<1>1. ASSUME NEW a \in Analyses, NEW r \in Repositories, Start(a, r)
      PROVE  RowsFit'
  <2>1. /\ UNCHANGED <<storeVars, observed>> /\ pc[a] = "idle" /\ pc'[a] = "discovery"
        /\ \A b \in Analyses \ {a} : pc'[b] = pc[b]
    BY <1>1 DEF Start, GoTo, AttemptsAreShaped
  <2>2. \A b \in Analyses : b # a => RowFits(b)'
    BY <2>1, UntouchedFits DEF RowsFit, storeVars
  <2>3. RowFits(a)'
    BY <2>1 DEF RowsFit, RowFits, PointFits, SnapshotFits, FailuresPromoteNothing, Promoted,
                Complete, storeVars, Open
  <2> QED
    BY <2>2, <2>3 DEF RowsFit
<1>2. ASSUME NEW a \in Analyses, Step(a)
      PROVE  RowsFit'
  <2>1. ASSUME NEW s \in Snapshots, Discover(a, s)
        PROVE  RowsFit'
    <3>1. /\ UNCHANGED storeVars /\ pc[a] = "discovery" /\ pc'[a] = "begin"
          /\ \A b \in Analyses \ {a} : pc'[b] = pc[b] /\ observed'[b] = observed[b]
      BY <2>1 DEF Discover, GoTo, AttemptsAreShaped
    <3>2. \A b \in Analyses : b # a => RowFits(b)'
      BY <3>1, UntouchedFits DEF RowsFit, storeVars
    <3>3. RowFits(a)'
      BY <3>1 DEF RowsFit, RowFits, PointFits, SnapshotFits, FailuresPromoteNothing, Promoted,
                  Complete, storeVars, Open
    <3> QED
      BY <3>2, <3>3 DEF RowsFit
  <2>2. CASE Begin(a)
    <3>1. /\ Only(a, "analysis") /\ analyses'[a].state = "started"
          /\ analyses'[a].snapshot = NoSnapshot /\ ~analyses'[a].reconciled
          /\ \A b \in Analyses \ {a} : analyses'[b] = analyses[b]
          /\ UNCHANGED snapshots
      BY <2>2 DEF Begin, BeginAnalysis, TypeOK, AbsentAnalysis
    <3>2. pc'[a] = "analysis"
      BY <3>1 DEF Only, GoTo, AttemptsAreShaped
    <3>3. RowFits(a)'
      BY <3>1, <3>2 DEF RowFits, PointFits, SnapshotFits, FailuresPromoteNothing, Promoted, Open
    <3> QED
      BY <3>1, <3>3, WrittenFits
  <2>3. CASE PassCheck(a)
    <3>1. PICK p : p = AfterCheck[pc[a]] /\ Only(a, p)
      BY <2>3 DEF PassCheck
    <3>2. pc[a] \in Open /\ p \in Open /\ p \notin {"on-failure", "lost"}
      BY <2>3, <3>1 DEF PassCheck, AfterCheck, Checked, Open
    <3>3. PointFits(a)' /\ UNCHANGED storeVars
      BY <2>3, <3>1, <3>2
         DEF PassCheck, Only, GoTo, AttemptsAreShaped, RowsFit, RowFits, PointFits, Open, storeVars
    <3> QED
      BY <3>1, <3>2, <3>3, MovedFits
  <2>4. CASE Report(a)
    <3>1. PICK p : /\ p = IF pc[a] = "report-completed" THEN "returned" ELSE Reported[pc[a]]
                   /\ Only(a, p)
      BY <2>4 DEF Report
    <3>2. UpdateProgress(a, Reported[pc[a]]) /\ pc[a] \in ReportPoints
      BY <2>4 DEF Report
    <3>3. /\ pc[a] \in Open \cup {"report-completed"}
          /\ p \in IF pc[a] = "report-completed" THEN {"returned"} ELSE Open
      BY <3>1, <3>2 DEF Reported, ReportPoints, Open
    <3> QED
      BY <3>1, <3>2, <3>3, ReportedFits
  <2>5. CASE Save(a)
    BY <2>5, PromotedFits
  <2>6. CASE NoticeCancel(a)
    <3>1. PICK p : /\ p = IF pc[a] = "discovery" THEN "cancelled" ELSE "on-cancel"
                   /\ Only(a, p)
      BY <2>6 DEF NoticeCancel
    <3>2. UNCHANGED storeVars /\ pc[a] \in Checked /\ p \notin {"on-failure", "lost"}
      BY <2>6, <3>1 DEF NoticeCancel
    <3>3. PointFits(a)'
      BY <3>1, <3>2
         DEF Only, GoTo, AttemptsAreShaped, RowsFit, RowFits, PointFits, Open, Checked, storeVars
    <3> QED
      BY <3>1, <3>2, <3>3, MovedFits
  <2>7. CASE RecordCancel(a)
    BY <2>7, FinishedFits DEF RecordCancel
  <2>8. CASE RecordFailure(a)
    BY <2>8, FinishedFits DEF RecordFailure
  <2> QED
    BY <1>2, <2>1, <2>2, <2>3, <2>4, <2>5, <2>6, <2>7, <2>8 DEF Step
<1>3. ASSUME NEW a \in Analyses, ReportFile(a)
      PROVE  RowsFit'
  <2>1. Only(a, "analysis") /\ UpdateProgress(a, "analysis") 
        /\ pc[a] \in Open \cup {"report-completed"}
        /\ "analysis" \in IF pc[a] = "report-completed" THEN {"returned"} ELSE Open
    BY <1>3 DEF ReportFile, Open
  <2> QED
    BY <2>1, ReportedFits
<1>4. ASSUME NEW a \in Analyses, Fail(a)
      PROVE  RowsFit'
  <2>1. PICK p : /\ p = IF pc[a] \in {"discovery", "begin"} THEN "failed" ELSE "on-failure"
                 /\ Only(a, p)
    BY <1>4 DEF Fail
  <2>2. /\ UNCHANGED storeVars
        /\ pc[a] \in {"discovery", "begin"} \/ pc[a] \in Open
    BY <1>4 DEF Fail, Checked, ReportPoints, Open
  <2>3. PointFits(a)' /\ (p = "on-failure" => analyses[a].state = "started")
    BY <2>1, <2>2 DEF Only, GoTo, AttemptsAreShaped, RowsFit, RowFits, PointFits, Open, storeVars
  <2> QED
    BY <2>1, <2>2, <2>3, MovedFits
<1>5. ASSUME NEW a \in Analyses, FinalReportFails(a)
      PROVE  RowsFit'
  <2>1. /\ UNCHANGED storeVars /\ Only(a, "on-failure") /\ pc[a] = "report-completed"
        /\ "final-report" \in Disturbances
    BY <1>5 DEF FinalReportFails
  <2>2. PointFits(a)'
    BY <2>1 DEF Only, GoTo, AttemptsAreShaped, RowsFit, RowFits, PointFits, Open, storeVars
  <2> QED
    BY <2>1, <2>2, MovedFits
<1>6. ASSUME NEW a \in Analyses, HandlerFails(a)
      PROVE  RowsFit'
  <2>1. /\ UNCHANGED storeVars /\ Only(a, "lost") /\ pc[a] \in {"on-cancel", "on-failure"}
        /\ "handler" \in Disturbances
    BY <1>6 DEF HandlerFails
  <2>2. PointFits(a)'
    BY <2>1 DEF Only, GoTo, AttemptsAreShaped, RowsFit, RowFits, PointFits, Open, storeVars
  <2>3. "final-report" \notin Disturbances => analyses[a].state = "started"
    BY <2>1 DEF RowsFit, RowFits, PointFits, FailuresPromoteNothing, Open
  <2> QED
    BY <2>1, <2>2, <2>3, MovedFits
<1>7. ASSUME NEW a \in Analyses, Die(a)
      PROVE  RowsFit'
  <2>1. UNCHANGED storeVars /\ Only(a, "dead") /\ Running(a)
    BY <1>7 DEF Die
  <2>2. /\ PointFits(a)
        /\ analyses[a].state \in {"absent", "started", "completed"}
    BY <2>1 DEF RowsFit, RowFits, PointFits, Open, Running, Ended, AttemptsAreShaped, Points,
                Checked, ReportPoints
  <2>3. PointFits(a)'
    BY <2>1, <2>2 DEF Only, GoTo, AttemptsAreShaped, PointFits, Open, storeVars
  <2> QED
    BY <2>1, <2>3, MovedFits
<1>8. CASE UNCHANGED <<pc, observed, analyses, snapshots>>
  BY <1>8, UntouchedFits DEF RowsFit
<1> QED
  BY <1>1, <1>2, <1>3, <1>4, <1>5, <1>6, <1>7, <1>8
     DEF ServiceNext, RequestCancel, Decide, UpdateFindingReview, vars, storeVars, serviceVars

\* The newest promoted attempt of a repository.
NewestPromoted(a) ==
    /\ Promoted(a)
    /\ \A b \in Analyses :
           Promoted(b) /\ analyses[b].repository = analyses[a].repository =>
               analyses[b].generation <= analyses[a].generation

NewestPromotedExists ==
    \A a \in Analyses : Promoted(a) =>
        \E b \in Analyses :
            NewestPromoted(b) /\ analyses[b].repository = analyses[a].repository

\* A step that promotes nothing keeps the promoted rows as they are.
PromotesNothing ==
    \A a \in Analyses :
        /\ Promoted(a)' <=> Promoted(a)
        /\ Promoted(a) => /\ analyses'[a].repository = analyses[a].repository
                          /\ analyses'[a].generation = analyses[a].generation

LEMMA NewestPromotedKept ==
    ASSUME NewestPromotedExists, PromotesNothing
    PROVE  NewestPromotedExists'
<1>1. \A a \in Analyses : NewestPromoted(a) => NewestPromoted(a)'
  BY DEF PromotesNothing, NewestPromoted
<1> QED
  BY <1>1 DEF NewestPromotedExists, PromotesNothing, NewestPromoted

\* Every step of the service promotes nothing, or saves.
LEMMA PromotesOrSaves ==
    ASSUME TypeOK, AttemptsAreShaped, RowsFit, [ServiceNext]_vars
    PROVE  PromotesNothing \/ \E a \in Analyses : Save(a)
<1>1. ASSUME UNCHANGED analyses
      PROVE  PromotesNothing
  BY <1>1 DEF PromotesNothing, Promoted
<1>2. ASSUME NEW a \in Analyses, NEW phase, UpdateProgress(a, phase)
      PROVE  PromotesNothing
  BY <1>2 DEF UpdateProgress, TypeOK, AnalysisRow, PromotesNothing, Promoted
<1>3. ASSUME NEW a \in Analyses, NEW outcome, FinishAnalysis(a, outcome)
      PROVE  PromotesNothing
  BY <1>3 DEF FinishAnalysis, TypeOK, AnalysisRow, PromotesNothing, Promoted
<1>4. ASSUME NEW a \in Analyses, Begin(a)
      PROVE  PromotesNothing
  <2>1. /\ analyses'[a].snapshot = NoSnapshot /\ analyses[a].state = "absent"
        /\ \A b \in Analyses \ {a} : analyses'[b] = analyses[b]
    BY <1>4 DEF Begin, BeginAnalysis, TypeOK, AbsentAnalysis
  <2>2. ~Promoted(a)
    BY <2>1 DEF RowsFit, RowFits, SnapshotFits
  <2> QED
    BY <2>1, <2>2 DEF PromotesNothing, Promoted
<1>5. ASSUME NEW a \in Analyses, Step(a), ~Save(a)
      PROVE  PromotesNothing
  BY <1>1, <1>2, <1>3, <1>4, <1>5
     DEF Step, Discover, PassCheck, Report, NoticeCancel, RecordCancel, RecordFailure, storeVars
<1> QED
  BY <1>1, <1>2, <1>5
     DEF ServiceNext, Start, ReportFile, Fail, FinalReportFails, HandlerFails, Die, RequestCancel,
         Decide, UpdateFindingReview, vars, storeVars

\* A promotion adds one attempt: it is the newest, or the newest stays.
LEMMA PromotionKeepsNewest ==
    ASSUME TypeOK, AttemptsAreShaped, RowsFit, NewestPromotedExists,
           NEW a \in Analyses, Save(a)
    PROVE  NewestPromotedExists'
<1>1. PICK s \in Snapshots : SaveCompletedSnapshot(a, s)
  BY DEF Save, AttemptsAreShaped, Carrying
<1>2. /\ Promoted(a)'
      /\ analyses'[a].repository = analyses[a].repository
      /\ analyses'[a].generation = analyses[a].generation
      /\ \A b \in Analyses \ {a} : analyses'[b] = analyses[b]
  BY <1>1, PromotedFits DEF SaveCompletedSnapshot, TypeOK, AnalysisRow
<1>3. \A b \in Analyses : analyses[b].generation \in Nat
  BY DEF TypeOK, AnalysisRow
<1>4. \A b \in Analyses : /\ analyses'[b].repository = analyses[b].repository
                          /\ analyses'[b].generation = analyses[b].generation
                          /\ Promoted(b)' <=> Promoted(b) \/ b = a
  BY <1>2 DEF Promoted
<1>5. ASSUME NEW b \in Analyses, Promoted(b)'
      PROVE  \E c \in Analyses :
                 NewestPromoted(c)' /\ analyses'[c].repository = analyses'[b].repository
  <2>1. CASE analyses[b].repository # analyses[a].repository
    <3>1. PICK c \in Analyses : NewestPromoted(c) /\ analyses[c].repository = analyses[b].repository
      BY <1>4, <1>5, <2>1 DEF NewestPromotedExists
    <3>2. NewestPromoted(c)'
      BY <1>4, <2>1, <3>1 DEF NewestPromoted
    <3> QED
      BY <1>4, <3>1, <3>2
  <2>2. CASE analyses[b].repository = analyses[a].repository
    <3>1. CASE \E c \in Analyses : Promoted(c) /\ analyses[c].repository = analyses[a].repository
      <4>1. PICK c \in Analyses :
                NewestPromoted(c) /\ analyses[c].repository = analyses[a].repository
        BY <3>1 DEF NewestPromotedExists
      <4>2. CASE analyses[a].generation <= analyses[c].generation
        <5>1. NewestPromoted(c)'
          BY <1>4, <4>1, <4>2 DEF NewestPromoted
        <5> QED
          BY <1>4, <2>2, <4>1, <5>1
      <4>3. CASE analyses[c].generation <= analyses[a].generation
        <5>1. \A d \in Analyses : Promoted(d) /\ analyses[d].repository = analyses[a].repository =>
                  analyses[d].generation <= analyses[a].generation
          BY <1>3, <4>1, <4>3 DEF NewestPromoted
        <5>2. NewestPromoted(a)'
          BY <1>3, <1>4, <5>1 DEF NewestPromoted
        <5> QED
          BY <1>4, <2>2, <5>2
      <4> QED
        BY <1>3, <4>2, <4>3
    <3>2. CASE ~\E c \in Analyses : Promoted(c) /\ analyses[c].repository = analyses[a].repository
      <4>1. NewestPromoted(a)'
        BY <1>3, <1>4, <3>2 DEF NewestPromoted
      <4> QED
        BY <1>4, <2>2, <4>1
    <3> QED
      BY <3>1, <3>2
  <2> QED
    BY <2>1, <2>2
<1> QED
  BY <1>5 DEF NewestPromotedExists

\* The invariants of the service hold of every behaviour.
LEMMA RowsAlwaysFit == ServiceSpec => [](RowsFit /\ NewestPromotedExists)
<1>1. ServiceInit => RowsFit /\ NewestPromotedExists
  BY DEF ServiceInit, Init, AbsentAnalysis, RowsFit, RowFits, PointFits, SnapshotFits,
         FailuresPromoteNothing, Open, Promoted, NewestPromotedExists
<1>2. TypeOK /\ AttemptsAreShaped /\ RowsFit /\ NewestPromotedExists /\ [ServiceNext]_vars
          => RowsFit' /\ NewestPromotedExists'
  BY RowsFitStep, PromotesOrSaves, NewestPromotedKept, PromotionKeepsNewest
<1> QED
  BY <1>1, <1>2, ServiceImplementsStore, TypeCorrect, ShapeKept, PTL DEF ServiceSpec

\* Unless a scan failed after its promotion, the completed attempts of a repository
\* are the promoted ones, and the newest of them is the newest that reconciled.
LEMMA SummaryFollows ==
    ASSUME TypeOK, RowsFit, NewestPromotedExists, FollowInv
    PROVE  SummaryIsTruthful
<1> SUFFICES ASSUME NEW r \in Repositories, ReconciliationComplete(r), ~FailedAfterPromotion(r)
             PROVE  ActiveFindings(r) =
                        Content[analyses[NewestOf(CompletedOf(r))].snapshot].findings
  BY DEF SummaryIsTruthful
<1>1. ASSUME NEW a \in Analyses
      PROVE  a \in CompletedOf(r) <=> Promoted(a) /\ analyses[a].repository = r
  <2>1. analyses[a].state \in {"absent", "started", "completed", "failed", "cancelled"}
    BY DEF TypeOK, AnalysisRow, AnalysisStates
  <2>2. analyses[a].state = "completed" => Promoted(a)
    BY NullAssumption DEF TypeOK, RowsFit, RowFits, SnapshotFits, Promoted
  <2>3. Promoted(a) /\ analyses[a].repository = r => analyses[a].state = "completed"
    BY <2>1 DEF RowsFit, RowFits, SnapshotFits, FailedAfterPromotion, Promoted
  <2> QED
    BY <2>2, <2>3 DEF CompletedOf
<1>2. CompletedOf(r) \subseteq Analyses /\ CompletedOf(r) # {}
  BY DEF CompletedOf, ReconciliationComplete
<1>3. PICK a : a = NewestOf(CompletedOf(r))
  OBVIOUS
<1>4. a \in CompletedOf(r) /\ \A b \in CompletedOf(r) :
          analyses[b].generation <= analyses[a].generation
  <2>1. PICK b \in Analyses : NewestPromoted(b) /\ analyses[b].repository = r
    BY <1>1, <1>2 DEF NewestPromotedExists
  <2>2. b \in CompletedOf(r) /\ \A c \in CompletedOf(r) :
            analyses[c].generation <= analyses[b].generation
    BY <1>1, <1>2, <2>1 DEF NewestPromoted
  <2> QED
    BY <1>3, <2>2 DEF NewestOf
<1>5. /\ a \in Analyses /\ analyses[a].repository = r
      /\ analyses[a].reconciled /\ analyses[a].skipReason = "none"
  BY <1>1, <1>2, <1>3, <1>4 DEF ReconciliationComplete
<1>6. Complete(analyses[a].snapshot)
  BY <1>5 DEF RowsFit, RowFits, SnapshotFits
<1>7. NewestReconciled(a)
  <2>1. \A b \in Analyses : Reconciled(b) /\ analyses[b].repository = r => b \in CompletedOf(r)
    BY <1>1 DEF RowsFit, RowFits, SnapshotFits, Reconciled
  <2> QED
    BY <1>4, <1>5, <2>1 DEF NewestReconciled, Reconciled
<1>8. /\ FindingsLeftBy(a)
      /\ analyses[a].snapshot \in Snapshots
      /\ Content[analyses[a].snapshot].repository = r
  BY <1>5, <1>7 DEF FollowInv, NewestLeftFindings, PromotionIsOnce, Reconciled
<1>9. \A f \in Content[analyses[a].snapshot].findings : f \in Findings /\ Owner[f] = r
  BY <1>8, ContentAssumption DEF SnapshotContent
<1>10. ActiveFindings(r) = Content[analyses[a].snapshot].findings
  BY <1>5, <1>6, <1>8, <1>9 DEF FindingsLeftBy, ActiveFindings
<1> QED
  BY <1>3, <1>10

\* A summary that claims complete reconciliation shows the findings of the newest
\* completed scan, unless a scan of the repository failed after its promotion.
THEOREM SummariesAreTruthful == ServiceSpec => []SummaryIsTruthful
<1>1. TypeOK /\ RowsFit /\ NewestPromotedExists /\ FollowInv => SummaryIsTruthful
  BY SummaryFollows
<1> QED
  BY <1>1, RowsAlwaysFit, FollowInvariant, ServiceImplementsStore, TypeCorrect, PTL

\* As long as the report after a promotion never fails, attempts that are failed or
\* cancelled own no snapshot, as the documentation has it.
THEOREM FailedOwnNothing ==
    ASSUME "final-report" \notin Disturbances
    PROVE  ServiceSpec => []FailedAttemptsOwnNoSnapshot
<1>1. RowsFit => FailedAttemptsOwnNoSnapshot
  BY DEF RowsFit, RowFits, SnapshotFits, FailuresPromoteNothing, FailedAttemptsOwnNoSnapshot, Promoted
<1> QED
  BY <1>1, RowsAlwaysFit, PTL

-----------------------------------------------------------------------------
(* A step of the jobs is a step of the service, or it comes from outside.       *)

\* A cancellation asked for at any time, or the death of the process: the attempts
\* that run are dead together, and the store stays.
Outside ==
    /\ UNCHANGED <<storeVars, target, observed, startedAt, clock>>
    /\ cancel' \in SUBSET Analyses
    /\ pc' \in [Analyses -> Points]
    /\ \A a \in Analyses : pc'[a] = pc[a] \/ (Running(a) /\ pc'[a] = "dead")

\* The invariant of the attempts.
AttemptInv == AttemptsAreShaped /\ RowsFit /\ NewestPromotedExists /\ FollowInv

LEMMA JobStepIs ==
    ASSUME AttemptsAreShaped, [JobNext]_jobVars
    PROVE  [ServiceNext]_vars \/ Outside
<1>1. ASSUME NEW a \in Analyses, CancelJob(a)
      PROVE  Outside
  <2>1. /\ UNCHANGED <<storeVars, target, observed, startedAt, clock>>
        /\ cancel' = cancel \cup {a} /\ pc' = pc
    BY <1>1, Zenon DEF CancelJob
  <2>2. cancel' \in SUBSET Analyses /\ pc' \in [Analyses -> Points]
    BY <2>1 DEF AttemptsAreShaped
  <2> QED
    BY <2>1, <2>2 DEF Outside
<1>2. CASE Crash
  <2>1. /\ UNCHANGED <<storeVars, target, observed, startedAt, clock>>
        /\ cancel' = cancel
        /\ pc' = [a \in Analyses |-> IF Running(a) THEN "dead" ELSE pc[a]]
    BY <1>2, Zenon DEF Crash
  <2>2. \A a \in Analyses : pc'[a] = pc[a] \/ (Running(a) /\ pc'[a] = "dead")
    BY <2>1
  <2>3. cancel' \in SUBSET Analyses /\ pc' \in [Analyses -> Points]
    BY <2>1 DEF AttemptsAreShaped, Points, Ended
  <2> QED
    BY <2>1, <2>2, <2>3 DEF Outside
<1>3. ASSUME UNCHANGED vars
      PROVE  [ServiceNext]_vars
  BY <1>3
<1>4. ASSUME NEW a \in Analyses, NEW r \in Repositories, PickUpJob(a, r)
      PROVE  ServiceNext
  BY <1>4 DEF PickUpJob, ServiceNext
<1>5. ASSUME NEW a \in Analyses, Work(a) \/ WorkOnFile(a) \/ WorkGoesWrong(a)
      PROVE  ServiceNext
  BY <1>5 DEF Work, WorkOnFile, WorkGoesWrong, ServiceNext
<1>6. ASSUME NEW a \in Analyses, SubmitJob(a) \/ ReportDiscovery(a) \/ EndJob(a)
      PROVE  UNCHANGED vars
  BY <1>6 DEF SubmitJob, ReportDiscovery, EndJob
<1>7. ASSUME UNCHANGED jobVars
      PROVE  UNCHANGED vars
  BY <1>7 DEF jobVars
<1> QED
  BY <1>1, <1>2, <1>3, <1>4, <1>5, <1>6, <1>7 DEF JobNext

\* What comes from outside leaves the attempts in order.
LEMMA OutsideKeeps ==
    ASSUME AttemptInv, Outside
    PROVE  AttemptInv' /\ [Next]_storeVars
<1>1. AttemptsAreShaped'
  <2>1. \A a \in Analyses : /\ pc'[a] # "idle" => pc[a] # "idle"
                            /\ pc'[a] \in Carrying => pc[a] \in Carrying
    BY DEF Outside, Running, Carrying
  <2>2. /\ target' = target /\ observed' = observed /\ startedAt' = startedAt /\ clock' = clock
        /\ cancel' \in SUBSET Analyses /\ pc' \in [Analyses -> Points]
    BY DEF Outside
  <2> QED
    BY <2>1, <2>2 DEF AttemptInv, AttemptsAreShaped
<1>2. UNCHANGED <<analyses, findings, snapshots, observed>>
  BY DEF Outside, storeVars
<1>3. RowsFit'
  <2>1. ASSUME NEW a \in Analyses, pc'[a] = pc[a]
        PROVE  RowFits(a)'
    BY <1>2, <2>1, UntouchedFits DEF AttemptInv, RowsFit
  <2>2. ASSUME NEW a \in Analyses, Running(a), pc'[a] = "dead"
        PROVE  RowFits(a)'
    <3>1. RowFits(a) /\ pc[a] \in Points
      BY DEF AttemptInv, RowsFit, AttemptsAreShaped
    <3>2. analyses[a].state \in {"absent", "started", "completed"}
      BY <2>2, <3>1 DEF RowFits, PointFits, Open, Running, Ended, Points, Checked, ReportPoints
    <3>3. PointFits(a)'
      BY <1>2, <2>2, <3>2 DEF PointFits, Open
    <3>4. SnapshotFits(a)' /\ FailuresPromoteNothing(a)'
      BY <1>2, <2>2, <3>1 DEF RowFits, SnapshotFits, FailuresPromoteNothing, Promoted, Complete
    <3> QED
      BY <3>3, <3>4 DEF RowFits
  <2> QED
    BY <2>1, <2>2 DEF RowsFit, Outside
<1>4. NewestPromotedExists'
  BY <1>2, NewestPromotedKept DEF AttemptInv, PromotesNothing, Promoted
<1>5. FollowInv'
  <2>1. \A a \in Analyses : pc'[a] \in Before => pc[a] \in Before
    BY DEF Outside, Before, Carrying
  <2>2. Quiet
    BY <1>2, <2>1 DEF Quiet, Reconciled, Begun, AttemptInv, FollowInv, PromotionIsOnce
  <2> QED
    BY <2>2, QuietKeepsFollow DEF AttemptInv
<1> QED
  BY <1>1, <1>3, <1>4, <1>5 DEF AttemptInv, Outside

\* Jobs use the store through its operations only.
LEMMA JobsUseTheStore ==
    ASSUME AttemptsAreShaped, [JobNext]_jobVars
    PROVE  AttemptsAreShaped' /\ [Next]_storeVars
<1>1. CASE [ServiceNext]_vars
  BY <1>1, ServiceStep
<1>2. CASE Outside
  <2>1. \A a \in Analyses : /\ pc'[a] # "idle" => pc[a] # "idle"
                            /\ pc'[a] \in Carrying => pc[a] \in Carrying
    BY <1>2 DEF Outside, Running, Carrying
  <2>2. /\ target' = target /\ observed' = observed /\ startedAt' = startedAt /\ clock' = clock
        /\ cancel' \in SUBSET Analyses /\ pc' \in [Analyses -> Points]
    BY <1>2 DEF Outside
  <2> QED
    BY <1>2, <2>1, <2>2 DEF AttemptsAreShaped, Outside
<1> QED
  BY <1>1, <1>2, JobStepIs

LEMMA JobShapeKept == JobSpec => []AttemptsAreShaped
<1>1. JobInit => AttemptsAreShaped
  BY DEF JobInit, ServiceInit, AttemptsAreShaped, Points, Carrying
<1> QED
  BY <1>1, JobsUseTheStore, PTL DEF JobSpec

\* The jobs of the workspace, its crashes and its cancellations included, are a
\* user of the store: all that is proved of the store holds of them.
THEOREM JobsImplementStore == JobSpec => Spec
<1>1. JobInit => Init
  BY DEF JobInit, ServiceInit
<1>2. AttemptsAreShaped /\ [JobNext]_jobVars => [Next]_storeVars
  BY JobsUseTheStore
<1> QED
  BY <1>1, <1>2, JobShapeKept, PTL DEF JobSpec, Spec

\* The invariant of the attempts holds of every behaviour of the jobs.
LEMMA AttemptInvStep ==
    ASSUME TypeOK, GenerationsAreIssued, GenerationsAreUnique, AttemptInv, [JobNext]_jobVars
    PROVE  AttemptInv'
<1>1. CASE [ServiceNext]_vars
  <2>1. AttemptsAreShaped'
    BY <1>1, ServiceStep DEF AttemptInv
  <2>2. RowsFit'
    BY <1>1, RowsFitStep DEF AttemptInv
  <2>3. NewestPromotedExists'
    BY <1>1, PromotesOrSaves, NewestPromotedKept, PromotionKeepsNewest DEF AttemptInv
  <2>4. FollowInv'
    BY <1>1, QuietKeepsFollow, QuietOrPromotes, PromotionKeepsFollow DEF AttemptInv, FollowInv
  <2> QED
    BY <2>1, <2>2, <2>3, <2>4 DEF AttemptInv
<1>2. CASE Outside
  BY <1>2, OutsideKeeps
<1> QED
  BY <1>1, <1>2, JobStepIs DEF AttemptInv

LEMMA AttemptInvariant == JobSpec => []AttemptInv
<1>1. JobInit => AttemptInv
  BY DEF JobInit, ServiceInit, Init, AbsentAnalysis, AttemptInv, AttemptsAreShaped, Points, Carrying,
         RowsFit, RowFits, PointFits, SnapshotFits, FailuresPromoteNothing, Open, Promoted,
         NewestPromotedExists, FollowInv, PromotionIsOnce, NewestLeftFindings, NewestExists,
         NewestReconciled, Reconciled
<1> QED
  BY <1>1, AttemptInvStep, JobsImplementStore, TypeCorrect, GenerationsIssued, PTL DEF JobSpec

\* The summary of a workspace that crashes and starts again can be relied on like
\* that of one that does not.
THEOREM JobSummariesAreTruthful == JobSpec => []SummaryIsTruthful
<1>1. TypeOK /\ AttemptInv => SummaryIsTruthful
  BY SummaryFollows DEF AttemptInv
<1> QED
  BY <1>1, AttemptInvariant, JobsImplementStore, TypeCorrect, PTL

-----------------------------------------------------------------------------
(* What the records of the jobs say                                            *)

JobRow == [state : JobStates, phase : JobPhases, snapshot : Snapshots \cup {NoSnapshot}]

RecordsAreTyped ==
    /\ allocated \in SUBSET Analyses
    /\ jobs \in [Analyses -> JobRow]
    /\ queue \in Seq(Analyses)
    /\ workers \in SUBSET Analyses
    /\ crashes \in 0 .. MaxCrashes

\* A record agrees with the point its attempt has reached.
JobFits(a) ==
    /\ a \notin allocated => pc[a] = "idle" /\ jobs[a] = NoJob
    /\ jobs[a].state = "completed" => pc[a] = "returned" /\ jobs[a].snapshot = observed[a]
    /\ jobs[a].state = "cancelled" => pc[a] = "cancelled" /\ jobs[a].snapshot = NoSnapshot
    /\ jobs[a].state = "failed" => pc[a] \in {"failed", "lost"} /\ jobs[a].snapshot = NoSnapshot
    /\ a \in workers => a \in allocated /\ jobs[a].state = "started" /\ pc[a] # "idle"

\* A job waits once, and nobody has begun it.
QueueFits ==
    /\ \A i \in 1 .. Len(queue) :
           queue[i] \in allocated /\ jobs[queue[i]].state = "started" /\ pc[queue[i]] = "idle"
    /\ \A i, j \in 1 .. Len(queue) : i # j => queue[i] # queue[j]

JobInv == RecordsAreTyped /\ (\A a \in Analyses : JobFits(a)) /\ QueueFits

\* A job that a step does not touch.
LEMMA UntouchedJob ==
    ASSUME NEW b \in Analyses, JobFits(b), jobs'[b] = jobs[b], pc'[b] = pc[b],
           observed'[b] = observed[b], b \in allocated' <=> b \in allocated,
           b \in workers' => b \in workers
    PROVE  JobFits(b)'
BY DEF JobFits

\* A record that changes its phase only.
LEMMA PhaseKeeps ==
    ASSUME RecordsAreTyped, NEW a \in Analyses, NEW phase \in JobPhases,
           jobs' = [jobs EXCEPT ![a].phase = phase]
    PROVE  /\ jobs' \in [Analyses -> JobRow]
           /\ jobs'[a].state = jobs[a].state /\ jobs'[a].snapshot = jobs[a].snapshot
           /\ \A b \in Analyses \ {a} : jobs'[b] = jobs[b]
BY DEF RecordsAreTyped, JobRow

\* A step of a thread on its job: the attempt moves, the record keeps its state.
LEMMA ThreadKeeps ==
    ASSUME AttemptsAreShaped, JobInv, NEW a \in workers, UNCHANGED <<allocated, queue, workers, crashes>>,
           jobs' \in [Analyses -> JobRow],
           jobs'[a].state = jobs[a].state, jobs'[a].snapshot = jobs[a].snapshot,
           \A b \in Analyses \ {a} :
               jobs'[b] = jobs[b] /\ pc'[b] = pc[b] /\ observed'[b] = observed[b],
           pc'[a] # "idle"
    PROVE  JobInv'
<1>1. /\ a \in Analyses /\ a \in allocated /\ jobs[a].state = "started" /\ pc[a] # "idle"
      /\ queue \in Seq(Analyses) /\ Len(queue) \in Nat
  BY DEF JobInv, RecordsAreTyped, JobFits
<1>2. RecordsAreTyped'
  BY DEF JobInv, RecordsAreTyped
<1>3. JobFits(a)'
  BY <1>1 DEF JobFits
<1>4. \A b \in Analyses \ {a} : JobFits(b)'
  BY UntouchedJob DEF JobInv
<1>5. \A i \in 1 .. Len(queue) : queue[i] # a /\ queue[i] \in Analyses
  BY <1>1 DEF JobInv, QueueFits
<1>6. QueueFits'
  BY <1>5 DEF JobInv, QueueFits
<1> QED
  BY <1>2, <1>3, <1>4, <1>6 DEF JobInv

\* A step of an attempt moves no other attempt and never makes it idle again.
LEMMA AttemptMoves ==
    ASSUME AttemptsAreShaped, NEW a \in Analyses,
           Step(a) \/ ReportFile(a) \/ Fail(a) \/ FinalReportFails(a) \/ HandlerFails(a)
    PROVE  /\ pc'[a] # "idle"
           /\ \A b \in Analyses \ {a} : pc'[b] = pc[b] /\ observed'[b] = observed[b]
<1>1. ASSUME NEW p, Only(a, p), p # "idle"
      PROVE  /\ pc'[a] # "idle"
             /\ \A b \in Analyses \ {a} : pc'[b] = pc[b] /\ observed'[b] = observed[b]
  BY <1>1 DEF Only, GoTo, AttemptsAreShaped
<1>2. ASSUME NEW s \in Snapshots, Discover(a, s)
      PROVE  /\ pc'[a] # "idle"
             /\ \A b \in Analyses \ {a} : pc'[b] = pc[b] /\ observed'[b] = observed[b]
  BY <1>2 DEF Discover, GoTo, AttemptsAreShaped
<1>3. CASE PassCheck(a)
  <2>1. PICK p : p = AfterCheck[pc[a]] /\ Only(a, p) /\ pc[a] \in Checked \ {"discovery"}
    BY <1>3 DEF PassCheck
  <2>2. p # "idle"
    BY <2>1 DEF AfterCheck, Checked
  <2> QED
    BY <1>1, <2>1, <2>2
<1>4. CASE Report(a)
  <2>1. PICK p : /\ p = IF pc[a] = "report-completed" THEN "returned" ELSE Reported[pc[a]]
                 /\ Only(a, p) /\ pc[a] \in ReportPoints
    BY <1>4 DEF Report
  <2>2. p # "idle"
    BY <2>1 DEF Reported, ReportPoints
  <2> QED
    BY <1>1, <2>1, <2>2
<1>5. CASE NoticeCancel(a)
  <2>1. PICK p \in {"cancelled", "on-cancel"} : Only(a, p)
    BY <1>5 DEF NoticeCancel
  <2> QED
    BY <1>1, <2>1
<1>6. CASE Fail(a)
  <2>1. PICK p \in {"failed", "on-failure"} : Only(a, p)
    BY <1>6 DEF Fail
  <2> QED
    BY <1>1, <2>1
<1>7. CASE Begin(a) \/ ReportFile(a)
  BY <1>1, <1>7 DEF Begin, ReportFile
<1>8. CASE Save(a) \/ RecordCancel(a) \/ RecordFailure(a) \/ FinalReportFails(a) \/ HandlerFails(a)
  BY <1>1, <1>8 DEF Save, RecordCancel, RecordFailure, FinalReportFails, HandlerFails
<1> QED
  BY <1>2, <1>3, <1>4, <1>5, <1>6, <1>7, <1>8 DEF Step

LEMMA SubmitKeeps ==
    ASSUME JobInv, NEW a \in Analyses, SubmitJob(a)
    PROVE  JobInv'
<1>1. /\ a \notin allocated /\ allocated' = allocated \cup {a} /\ queue' = Append(queue, a)
      /\ UNCHANGED <<workers, crashes, pc, observed>>
      /\ pc[a] = "idle" /\ jobs[a] = NoJob
  BY DEF SubmitJob, Fresh, JobInv, JobFits, vars, serviceVars
<1> DEFINE row == [NoJob EXCEPT !.state = "started", !.phase = "queued"]
<1>2. row \in JobRow /\ row.state = "started" /\ row.snapshot = NoSnapshot
  BY DEF NoJob, JobRow, JobStates, JobPhases
<1>3. jobs' = [jobs EXCEPT ![a] = row]
  BY DEF SubmitJob
<1> HIDE DEF row
<1>4. /\ jobs' \in [Analyses -> JobRow] /\ jobs'[a] = row
      /\ \A b \in Analyses \ {a} : jobs'[b] = jobs[b]
  BY <1>2, <1>3 DEF JobInv, RecordsAreTyped
<1>5. /\ queue \in Seq(Analyses) /\ queue' \in Seq(Analyses)
      /\ Len(queue) \in Nat /\ Len(queue') = Len(queue) + 1
      /\ queue'[Len(queue) + 1] = a
      /\ \A i \in 1 .. Len(queue) : queue'[i] = queue[i] /\ queue[i] \in Analyses
  BY <1>1 DEF JobInv, RecordsAreTyped
<1>6. RecordsAreTyped'
  BY <1>1, <1>4, <1>5 DEF JobInv, RecordsAreTyped
<1>7. \A i \in 1 .. Len(queue) : queue[i] # a
  BY <1>1 DEF JobInv, QueueFits
<1>8. JobFits(a)'
  <2>1. a \notin workers
    BY <1>1 DEF JobInv, JobFits
  <2> QED
    BY <1>1, <1>2, <1>4, <2>1 DEF JobFits
<1>9. \A b \in Analyses \ {a} : JobFits(b)'
  BY <1>1, <1>4, UntouchedJob DEF JobInv
<1>10. QueueFits'
  <2>1. ASSUME NEW i \in 1 .. Len(queue') PROVE i = Len(queue) + 1 \/ i \in 1 .. Len(queue)
    BY <1>5
  <2>2. ASSUME NEW i \in 1 .. Len(queue')
        PROVE  queue'[i] \in allocated' /\ jobs'[queue'[i]].state = "started" /\ pc'[queue'[i]] = "idle"
    <3>1. CASE i = Len(queue) + 1
      BY <1>1, <1>2, <1>4, <1>5, <3>1
    <3>2. CASE i \in 1 .. Len(queue)
      <4>1. /\ queue[i] \in allocated /\ jobs[queue[i]].state = "started" /\ pc[queue[i]] = "idle"
        BY <3>2 DEF JobInv, QueueFits
      <4> QED
        BY <1>1, <1>4, <1>5, <1>7, <3>2, <4>1
    <3> QED
      BY <2>1, <3>1, <3>2
  <2>3. ASSUME NEW i \in 1 .. Len(queue'), NEW j \in 1 .. Len(queue'), i # j
        PROVE  queue'[i] # queue'[j]
    <3>1. CASE i \in 1 .. Len(queue) /\ j \in 1 .. Len(queue)
      BY <1>5, <2>3, <3>1 DEF JobInv, QueueFits
    <3>2. CASE i = Len(queue) + 1 \/ j = Len(queue) + 1
      BY <1>5, <1>7, <2>1, <2>3, <3>2
    <3> QED
      BY <2>1, <3>1, <3>2
  <2> QED
    BY <2>2, <2>3 DEF QueueFits
<1> QED
  BY <1>6, <1>8, <1>9, <1>10 DEF JobInv

LEMMA PickUpKeeps ==
    ASSUME AttemptsAreShaped, JobInv, NEW a \in Analyses, NEW r \in Repositories, PickUpJob(a, r)
    PROVE  JobInv'
<1>1. /\ queue # <<>> /\ a = Head(queue) /\ queue' = Tail(queue) /\ workers' = workers \cup {a}
      /\ jobs' = [jobs EXCEPT ![a].phase = "discovery"] /\ UNCHANGED <<allocated, crashes>>
      /\ pc' = [pc EXCEPT ![a] = "discovery"] /\ UNCHANGED observed
  BY DEF PickUpJob, Start, GoTo
<1>2. /\ jobs' \in [Analyses -> JobRow]
      /\ jobs'[a].state = jobs[a].state /\ jobs'[a].snapshot = jobs[a].snapshot
      /\ \A b \in Analyses \ {a} : jobs'[b] = jobs[b]
  BY <1>1, PhaseKeeps DEF JobInv, JobPhases
<1>3. pc'[a] = "discovery" /\ \A b \in Analyses \ {a} : pc'[b] = pc[b]
  BY <1>1 DEF AttemptsAreShaped
<1>4. /\ queue \in Seq(Analyses) /\ queue' \in Seq(Analyses)
      /\ Len(queue) \in Nat \ {0} /\ Len(queue') = Len(queue) - 1 /\ queue[1] = a
      /\ \A i \in 1 .. Len(queue') : queue'[i] = queue[i + 1]
      /\ \A i \in 1 .. Len(queue) : queue[i] \in Analyses
  BY <1>1 DEF JobInv, RecordsAreTyped
<1>5. a \in allocated /\ jobs[a].state = "started"
  BY <1>4 DEF JobInv, QueueFits
<1>6. \A i \in 1 .. Len(queue') : i + 1 \in 1 .. Len(queue) /\ queue'[i] # a
  BY <1>4 DEF JobInv, QueueFits
<1>7. RecordsAreTyped'
  BY <1>1, <1>2, <1>4 DEF JobInv, RecordsAreTyped
<1>8. JobFits(a)'
  BY <1>1, <1>2, <1>3, <1>5 DEF JobFits
<1>9. \A b \in Analyses \ {a} : JobFits(b)'
  BY <1>1, <1>2, <1>3, UntouchedJob DEF JobInv
<1>10. QueueFits'
  <2>1. ASSUME NEW i \in 1 .. Len(queue')
        PROVE  queue'[i] \in allocated' /\ jobs'[queue'[i]].state = "started" /\ pc'[queue'[i]] = "idle"
    <3>1. /\ queue[i + 1] \in allocated /\ jobs[queue[i + 1]].state = "started"
          /\ pc[queue[i + 1]] = "idle"
      BY <1>6 DEF JobInv, QueueFits
    <3> QED
      BY <1>1, <1>2, <1>3, <1>4, <1>6, <3>1
  <2>2. ASSUME NEW i \in 1 .. Len(queue'), NEW j \in 1 .. Len(queue'), i # j
        PROVE  queue'[i] # queue'[j]
    <3>1. i + 1 # j + 1 /\ i + 1 \in 1 .. Len(queue) /\ j + 1 \in 1 .. Len(queue)
      BY <1>4, <1>6, <2>2
    <3> QED
      BY <1>4, <3>1 DEF JobInv, QueueFits
  <2> QED
    BY <2>1, <2>2 DEF QueueFits
<1> QED
  BY <1>7, <1>8, <1>9, <1>10 DEF JobInv

LEMMA EndJobKeeps ==
    ASSUME JobInv, AttemptsAreShaped, NEW a \in Analyses, EndJob(a)
    PROVE  JobInv'
<1> DEFINE outcome == Outcome[pc[a]]
           row == [state |-> outcome, phase |-> outcome,
                   snapshot |-> IF outcome = "completed" THEN observed[a] ELSE NoSnapshot]
<1>1. /\ a \in workers /\ workers' = workers \ {a} /\ jobs' = [jobs EXCEPT ![a] = row]
      /\ UNCHANGED <<pc, observed, allocated, queue, crashes>>
      /\ pc[a] \in {"returned", "cancelled", "failed", "lost"}
  BY DEF EndJob, Outcome, vars, serviceVars
<1>2. /\ outcome \in {"completed", "cancelled", "failed"}
      /\ outcome = "completed" => pc[a] = "returned"
      /\ outcome = "cancelled" => pc[a] = "cancelled"
      /\ outcome = "failed" => pc[a] \in {"failed", "lost"}
  BY <1>1 DEF Outcome
<1>3. row \in JobRow /\ row.state = outcome
  BY <1>2, PhaseAssumption DEF JobRow, JobStates, JobPhases, AttemptsAreShaped
<1>4. row.snapshot = IF outcome = "completed" THEN observed[a] ELSE NoSnapshot
  OBVIOUS
<1> HIDE DEF row, outcome
<1>5. /\ jobs' \in [Analyses -> JobRow] /\ jobs'[a] = row
      /\ \A b \in Analyses \ {a} : jobs'[b] = jobs[b]
  BY <1>1, <1>3 DEF JobInv, RecordsAreTyped
<1>6. a \in allocated /\ jobs[a].state = "started" /\ pc[a] # "idle"
  BY <1>1 DEF JobInv, JobFits
<1>7. RecordsAreTyped'
  BY <1>1, <1>5 DEF JobInv, RecordsAreTyped
<1>8. JobFits(a)'
  BY <1>1, <1>2, <1>3, <1>4, <1>5, <1>6 DEF JobFits
<1>9. \A b \in Analyses \ {a} : JobFits(b)'
  BY <1>1, <1>5, UntouchedJob DEF JobInv
<1>10. QueueFits'
  <2>1. \A i \in 1 .. Len(queue) : queue[i] # a /\ queue[i] \in Analyses
    BY <1>6 DEF JobInv, QueueFits, RecordsAreTyped
  <2> QED
    BY <1>1, <1>5, <2>1 DEF JobInv, QueueFits
<1> QED
  BY <1>7, <1>8, <1>9, <1>10 DEF JobInv

LEMMA CrashKeeps ==
    ASSUME JobInv, AttemptsAreShaped, Crash
    PROVE  JobInv'
<1>1. /\ crashes < MaxCrashes /\ crashes' = crashes + 1 /\ workers' = {} /\ queue' = <<>>
      /\ jobs' = [a \in Analyses |-> NoJob] /\ UNCHANGED <<allocated, observed>>
      /\ pc' = [a \in Analyses |-> IF Running(a) THEN "dead" ELSE pc[a]]
  BY DEF Crash
<1>2. NoJob \in JobRow /\ NoJob.state = "none"
  BY DEF NoJob, JobRow, JobStates, JobPhases
<1>3. RecordsAreTyped'
  <2>1. crashes \in Nat /\ crashes + 1 \in 0 .. MaxCrashes
    BY <1>1, WorkerAssumption DEF JobInv, RecordsAreTyped
  <2> QED
    BY <1>1, <1>2, <2>1 DEF JobInv, RecordsAreTyped
<1>4. ASSUME NEW a \in Analyses PROVE JobFits(a)'
  <2>1. a \notin allocated => pc'[a] = "idle"
    BY <1>1 DEF JobInv, JobFits, Running
  <2> QED
    BY <1>1, <1>2, <2>1 DEF JobFits
<1>5. QueueFits'
  BY <1>1 DEF QueueFits
<1> QED
  BY <1>3, <1>4, <1>5 DEF JobInv

LEMMA JobInvStep ==
    ASSUME AttemptsAreShaped, JobInv, [JobNext]_jobVars
    PROVE  JobInv'
<1>1. ASSUME NEW a \in Analyses, CancelJob(a)
      PROVE  JobInv'
  <2> DEFINE phase == IF jobs[a].state = "started" THEN "cancelling" ELSE jobs[a].phase
  <2>1. /\ jobs' = [jobs EXCEPT ![a].phase = phase]
        /\ UNCHANGED <<allocated, queue, workers, crashes, pc, observed>>
        /\ jobs[a].state # "none"
    BY <1>1 DEF CancelJob
  <2>2. phase \in JobPhases
    BY DEF JobInv, RecordsAreTyped, JobRow, JobPhases
  <2> HIDE DEF phase
  <2>3. /\ jobs' \in [Analyses -> JobRow]
        /\ jobs'[a].state = jobs[a].state /\ jobs'[a].snapshot = jobs[a].snapshot
        /\ \A b \in Analyses \ {a} : jobs'[b] = jobs[b]
    BY <2>1, <2>2, PhaseKeeps DEF JobInv
  <2>4. \A b \in Analyses : jobs'[b].state = jobs[b].state /\ jobs'[b].snapshot = jobs[b].snapshot
    BY <2>3
  <2>5. a \in allocated
    BY <2>1 DEF JobInv, JobFits, NoJob
  <2>6. RecordsAreTyped'
    BY <2>1, <2>3 DEF JobInv, RecordsAreTyped
  <2>7. \A b \in Analyses : JobFits(b)'
    BY <2>1, <2>3, <2>4, <2>5 DEF JobInv, JobFits
  <2>8. QueueFits'
    <3>1. queue \in Seq(Analyses) /\ \A i \in 1 .. Len(queue) : queue[i] \in Analyses
      BY DEF JobInv, RecordsAreTyped
    <3> QED
      BY <2>1, <2>4, <3>1 DEF JobInv, QueueFits
  <2> QED
    BY <2>6, <2>7, <2>8 DEF JobInv
<1>2. ASSUME NEW a \in Analyses, ReportDiscovery(a) \/ Work(a) \/ WorkOnFile(a)
      PROVE  JobInv'
  <2>1. PICK phase \in JobPhases : jobs' = [jobs EXCEPT ![a].phase = phase]
    <3>1. CASE ReportDiscovery(a)
      BY <3>1 DEF ReportDiscovery, JobPhases
    <3>2. CASE WorkOnFile(a)
      BY <3>2, PhaseAssumption DEF WorkOnFile, JobPhases
    <3>3. CASE Work(a)
      <4>1. jobs' = [jobs EXCEPT ![a].phase =
                        IF pc[a] \in ReportPoints THEN Reported[pc[a]] ELSE jobs[a].phase]
        BY <3>3 DEF Work
      <4>2. (IF pc[a] \in ReportPoints THEN Reported[pc[a]] ELSE jobs[a].phase) \in JobPhases
        BY PhaseAssumption DEF ReportPoints, Reported, JobPhases, JobInv, RecordsAreTyped, JobRow
      <4> QED
        BY <4>1, <4>2
    <3> QED
      BY <1>2, <3>1, <3>2, <3>3
  <2>2. a \in workers /\ UNCHANGED <<allocated, queue, workers, crashes>>
    BY <1>2 DEF ReportDiscovery, Work, WorkOnFile
  <2>3. /\ pc'[a] # "idle"
        /\ \A b \in Analyses \ {a} : pc'[b] = pc[b] /\ observed'[b] = observed[b]
    <3>1. CASE ReportDiscovery(a)
      BY <3>1 DEF ReportDiscovery, vars, serviceVars
    <3>2. CASE Work(a) \/ WorkOnFile(a)
      BY <3>2, AttemptMoves DEF Work, WorkOnFile
    <3> QED
      BY <1>2, <3>1, <3>2
  <2> QED
    BY <2>1, <2>2, <2>3, PhaseKeeps, ThreadKeeps DEF JobInv
<1>3. ASSUME NEW a \in Analyses, WorkGoesWrong(a)
      PROVE  JobInv'
  <2>1. a \in workers /\ UNCHANGED <<allocated, jobs, queue, workers, crashes>>
    BY <1>3 DEF WorkGoesWrong, managerVars
  <2>2. /\ pc'[a] # "idle"
        /\ \A b \in Analyses \ {a} : pc'[b] = pc[b] /\ observed'[b] = observed[b]
    BY <1>3, AttemptMoves DEF WorkGoesWrong
  <2>3. jobs' \in [Analyses -> JobRow]
    BY <2>1 DEF JobInv, RecordsAreTyped
  <2> QED
    BY <2>1, <2>2, <2>3, ThreadKeeps
<1>4. CASE UNCHANGED jobVars
  BY <1>4, UntouchedJob DEF jobVars, managerVars, vars, serviceVars, JobInv, RecordsAreTyped, QueueFits
<1> QED
  BY <1>1, <1>2, <1>3, <1>4, SubmitKeeps, PickUpKeeps, EndJobKeeps, CrashKeeps DEF JobNext

LEMMA JobInvariant == JobSpec => []JobInv
<1>1. JobInit => JobInv
  BY WorkerAssumption DEF JobInit, ServiceInit, JobInv, RecordsAreTyped, JobFits, QueueFits, NoJob, JobRow, JobStates,
         JobPhases
<1> QED
  BY <1>1, JobInvStep, JobShapeKept, PTL DEF JobSpec

\* The records, the queue and the threads keep their types.
THEOREM JobsTyped == JobSpec => []JobTypeOK
<1>1. TypeOK /\ AttemptsAreShaped /\ JobInv => JobTypeOK
  BY DEF JobInv, RecordsAreTyped, JobRow, JobTypeOK, ServiceTypeOK, AttemptsAreShaped
<1> QED
  BY <1>1, JobInvariant, JobShapeKept, JobsImplementStore, TypeCorrect, PTL

-----------------------------------------------------------------------------
(* What polls are told                                                         *)

\* What an answer says of an attempt whose job has ended.
LEMMA AnswerFacts ==
    ASSUME TypeOK, RowsFit, JobInv, NEW a \in Analyses
    PROVE  /\ jobs[a].state = "completed" =>
                  /\ analyses[a].state = "completed" /\ analyses[a].snapshot = jobs[a].snapshot
                  /\ analyses[a].snapshot \in snapshots
           /\ jobs[a].state = "cancelled" =>
                  /\ analyses[a].state \in {"absent", "cancelled"} /\ analyses[a].snapshot = NoSnapshot
           /\ jobs[a].state = "failed" /\ "final-report" \notin Disturbances =>
                  analyses[a].snapshot = NoSnapshot
           /\ analyses[a].state = "completed" => analyses[a].snapshot \in snapshots
           /\ analyses[a].state = "cancelled" => analyses[a].snapshot = NoSnapshot
           /\ analyses[a].state = "failed" /\ "final-report" \notin Disturbances =>
                  analyses[a].snapshot = NoSnapshot
<1>1. RowFits(a) /\ JobFits(a)
  BY DEF RowsFit, JobInv
<1>2. CASE jobs[a].state = "failed" /\ "final-report" \notin Disturbances
  <2>1. pc[a] \in {"failed", "lost"}
    BY <1>1, <1>2 DEF JobFits
  <2>2. analyses[a].state \in {"absent", "started", "failed"}
    BY <1>1, <1>2, <2>1 DEF RowFits, PointFits, FailuresPromoteNothing
  <2>3. ~Promoted(a)
    BY <1>1, <1>2, <2>2 DEF RowFits, SnapshotFits, FailuresPromoteNothing
  <2> QED
    BY <1>1, <1>2, <2>3 DEF RowFits, SnapshotFits, FailuresPromoteNothing, Promoted, JobFits
<1>3. CASE ~(jobs[a].state = "failed" /\ "final-report" \notin Disturbances)
  BY <1>1, <1>3 DEF RowFits, PointFits, SnapshotFits, FailuresPromoteNothing, Promoted, JobFits
<1> QED
  BY <1>2, <1>3

\* A poll that answers "completed" names the stored snapshot of a completed attempt,
\* whatever goes wrong.
THEOREM CompletedAnswersName ==
    JobSpec => [](\A a \in Analyses : Answer(a).state = "completed" =>
                      Answer(a).snapshot \in snapshots /\ analyses[a].state = "completed")
<1>1. TypeOK /\ AttemptInv /\ JobInv =>
          \A a \in Analyses : Answer(a).state = "completed" =>
              Answer(a).snapshot \in snapshots /\ analyses[a].state = "completed"
  BY AnswerFacts DEF AttemptInv, Answer
<1> QED
  BY <1>1, AttemptInvariant, JobInvariant, JobsImplementStore, TypeCorrect, PTL

\* As long as the report after a promotion never fails, an answer "failed" or
\* "cancelled" also means that nothing was promoted.
THEOREM AnswersAreStored ==
    ASSUME "final-report" \notin Disturbances
    PROVE  JobSpec => []CompletedAnswersAreStored
<1>1. TypeOK /\ AttemptInv /\ JobInv => CompletedAnswersAreStored
  <2> SUFFICES ASSUME TypeOK, AttemptInv, JobInv, NEW a \in Analyses
               PROVE  /\ Answer(a).state = "completed" =>
                             Answer(a).snapshot \in snapshots /\ analyses[a].state = "completed"
                      /\ Answer(a).state \in {"cancelled", "failed"} =>
                             analyses[a].snapshot = NoSnapshot
    BY DEF CompletedAnswersAreStored
  <2> QED
    BY AnswerFacts DEF AttemptInv, Answer
<1> QED
  BY <1>1, AttemptInvariant, JobInvariant, JobsImplementStore, TypeCorrect, PTL

\* A step of one attempt writes no row of another.
LEMMA AttemptWrites ==
    ASSUME TypeOK, NEW b \in Analyses, NEW a \in Analyses, a # b,
           Step(b) \/ ReportFile(b) \/ Fail(b) \/ FinalReportFails(b) \/ HandlerFails(b)
    PROVE  analyses'[a] = analyses[a]
<1>1. ASSUME NEW phase, UpdateProgress(b, phase)
      PROVE  analyses'[a] = analyses[a]
  BY <1>1 DEF UpdateProgress, TypeOK
<1>2. ASSUME NEW outcome, FinishAnalysis(b, outcome)
      PROVE  analyses'[a] = analyses[a]
  BY <1>2 DEF FinishAnalysis, TypeOK
<1>3. ASSUME NEW s, SaveCompletedSnapshot(b, s)
      PROVE  analyses'[a] = analyses[a]
  BY <1>3 DEF SaveCompletedSnapshot, TypeOK
<1>4. ASSUME NEW r, BeginAnalysis(b, r)
      PROVE  analyses'[a] = analyses[a]
  BY <1>4 DEF BeginAnalysis, TypeOK
<1>5. ASSUME UNCHANGED storeVars
      PROVE  analyses'[a] = analyses[a]
  BY <1>5 DEF storeVars
<1>6. ASSUME Step(b)
      PROVE  analyses'[a] = analyses[a]
  BY <1>1, <1>2, <1>3, <1>4, <1>5, <1>6
     DEF Step, Discover, Begin, PassCheck, Report, Save, NoticeCancel, RecordCancel, RecordFailure
<1> QED
  BY <1>1, <1>5, <1>6 DEF ReportFile, Fail, FinalReportFails, HandlerFails

\* No step but a crash changes what is known of a job that no thread runs, once its
\* identifier is handed out.
LEMMA BystanderKeeps ==
    ASSUME TypeOK, JobInv, NEW a \in allocated \ workers, [JobNext]_jobVars
    PROVE  /\ analyses'[a] = analyses[a]
           /\ Crash \/ (jobs'[a].state = jobs[a].state /\ jobs'[a].snapshot = jobs[a].snapshot)
<1>1. a \in Analyses
  BY DEF JobInv, RecordsAreTyped
<1>2. ASSUME NEW b \in Analyses, SubmitJob(b)
      PROVE  analyses'[a] = analyses[a] /\ jobs'[a] = jobs[a]
  BY <1>1, <1>2 DEF SubmitJob, Fresh, vars, storeVars, JobInv, RecordsAreTyped
<1>3. ASSUME NEW b \in Analyses, NEW phase, jobs' = [jobs EXCEPT ![b].phase = phase]
      PROVE  jobs'[a].state = jobs[a].state /\ jobs'[a].snapshot = jobs[a].snapshot
  BY <1>1, <1>3 DEF JobInv, RecordsAreTyped, JobRow
<1>4. ASSUME NEW b \in Analyses, CancelJob(b)
      PROVE  /\ analyses'[a] = analyses[a]
             /\ jobs'[a].state = jobs[a].state /\ jobs'[a].snapshot = jobs[a].snapshot
  <2>1. analyses' = analyses
    BY <1>4 DEF CancelJob, storeVars
  <2>2. PICK phase : jobs' = [jobs EXCEPT ![b].phase = phase]
    BY <1>4 DEF CancelJob
  <2> QED
    BY <1>3, <2>1, <2>2
<1>5. ASSUME NEW b \in Analyses, NEW r \in Repositories, PickUpJob(b, r)
      PROVE  /\ analyses'[a] = analyses[a]
             /\ jobs'[a].state = jobs[a].state /\ jobs'[a].snapshot = jobs[a].snapshot
  BY <1>3, <1>5 DEF PickUpJob, Start, storeVars
<1>6. ASSUME NEW b \in workers, ReportDiscovery(b) \/ Work(b) \/ WorkOnFile(b) \/ WorkGoesWrong(b)
      PROVE  /\ analyses'[a] = analyses[a]
             /\ jobs'[a].state = jobs[a].state /\ jobs'[a].snapshot = jobs[a].snapshot
  <2>1. b \in Analyses /\ b # a
    BY DEF JobInv, RecordsAreTyped
  <2>2. analyses'[a] = analyses[a]
    <3>1. CASE ReportDiscovery(b)
      BY <3>1 DEF ReportDiscovery, vars, storeVars
    <3>2. CASE Work(b) \/ WorkOnFile(b) \/ WorkGoesWrong(b)
      BY <1>1, <2>1, <3>2, AttemptWrites DEF Work, WorkOnFile, WorkGoesWrong
    <3> QED
      BY <1>6, <3>1, <3>2
  <2>3. jobs' = jobs \/ \E phase : jobs' = [jobs EXCEPT ![b].phase = phase]
    BY <1>6 DEF ReportDiscovery, Work, WorkOnFile, WorkGoesWrong, managerVars
  <2> QED
    BY <1>3, <2>1, <2>2, <2>3
<1>7. ASSUME NEW b \in workers, EndJob(b)
      PROVE  analyses'[a] = analyses[a] /\ jobs'[a] = jobs[a]
  BY <1>1, <1>7 DEF EndJob, vars, storeVars, JobInv, RecordsAreTyped
<1>8. CASE Crash
  BY <1>8 DEF Crash, storeVars
<1>9. CASE UNCHANGED jobVars
  BY <1>9 DEF jobVars, managerVars, vars, storeVars
<1>10. ASSUME NEW b \in Analyses, ReportDiscovery(b) \/ Work(b) \/ WorkOnFile(b) \/ WorkGoesWrong(b) \/ EndJob(b)
       PROVE  b \in workers
  BY <1>10 DEF ReportDiscovery, Work, WorkOnFile, WorkGoesWrong, EndJob
<1> QED
  BY <1>2, <1>4, <1>5, <1>6, <1>7, <1>8, <1>9, <1>10 DEF JobNext

\* An answer that says how a job ended stays, unless it was of a job that ended
\* before it had a row and the process is gone.
LEMMA AnswerStays ==
    ASSUME TypeOK, AttemptInv, JobInv, [JobNext]_jobVars,
           "final-report" \notin Disturbances, "handler" \notin Disturbances,
           NEW a \in Analyses, Answer(a).state \in Terminal
    PROVE  \/ Answer(a)' = Answer(a)
           \/ Answer(a)'.state = "none" /\ Answer(a).snapshot = NoSnapshot
<1>1. RowFits(a) /\ JobFits(a)
  BY DEF AttemptInv, RowsFit, JobInv
<1>2. \/ jobs[a].state \in Terminal
      \/ jobs[a].state = "none" /\ analyses[a].state \in Terminal
  BY DEF Answer, Terminal
<1>3. a \in allocated \ workers
  <2>1. a \notin workers
    BY <1>1, <1>2 DEF JobFits, Terminal
  <2>2. a \in allocated
    BY <1>1, <1>2 DEF JobFits, NoJob, RowFits, PointFits, Terminal
  <2> QED
    BY <2>1, <2>2
<1>4. CASE jobs'[a].state = jobs[a].state /\ jobs'[a].snapshot = jobs[a].snapshot
  BY <1>3, <1>4, BystanderKeeps DEF Answer
<1>5. CASE Crash
  <2>1. jobs'[a].state = "none" /\ analyses'[a] = analyses[a]
    BY <1>3, <1>5, BystanderKeeps DEF Crash, NoJob
  <2>2. CASE jobs[a].state = "none"
    BY <2>1, <2>2 DEF Answer
  <2>3. CASE jobs[a].state = "completed"
    <3>1. analyses[a].state = "completed" /\ analyses[a].snapshot = jobs[a].snapshot
      BY <1>1, <2>3 DEF JobFits, RowFits, PointFits
    <3> QED
      BY <2>1, <2>3, <3>1 DEF Answer
  <2>4. CASE jobs[a].state \in {"cancelled", "failed"}
    <3>1. /\ jobs[a].snapshot = NoSnapshot /\ analyses[a].snapshot = NoSnapshot
          /\ analyses[a].state \in {"absent", jobs[a].state}
      BY <1>1, <2>4 DEF JobFits, RowFits, PointFits, SnapshotFits, FailuresPromoteNothing, Promoted
    <3> QED
      BY <2>1, <2>4, <3>1 DEF Answer
  <2> QED
    BY <1>2, <2>2, <2>3, <2>4 DEF Terminal
<1> QED
  BY <1>3, <1>4, <1>5, BystanderKeeps

\* As long as neither the report after a promotion nor the write that records a
\* failure fails, the answers of polls are final across crashes.
THEOREM AnswersStayFinal ==
    ASSUME "final-report" \notin Disturbances, "handler" \notin Disturbances
    PROVE  JobSpec => AnswersAreFinal
<1>1. TypeOK /\ AttemptInv /\ JobInv /\ [JobNext]_jobVars =>
          [\A a \in Analyses : Answer(a).state \in Terminal =>
              \/ Answer(a)' = Answer(a)
              \/ Answer(a)'.state = "none" /\ Answer(a).snapshot = NoSnapshot]_jobVars
  BY AnswerStays
<1> QED
  BY <1>1, AttemptInvariant, JobInvariant, JobsImplementStore, TypeCorrect, PTL
     DEF JobSpec, AnswersAreFinal
=============================================================================

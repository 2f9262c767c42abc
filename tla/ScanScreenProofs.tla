--------------------------- MODULE ScanScreenProofs ----------------------------
(* The shell, for any paths and roots, any number of scans and calls under way,  *)
(* and any order of their answers: what is scanned is what the form says, and    *)
(* what the user agreed to.                                                      *)
EXTENDS ScanScreen, SequenceTheorems, TLAPS

-----------------------------------------------------------------------------
(* The inductive invariant.                                                   *)

IsCall(c) ==
    /\ c = [stage |-> c.stage, about |-> c.about, id |-> c.id, live |-> c.live, answer |-> c.answer]
    /\ c.live \in BOOLEAN

\* A resolution that still counts is one of the path in the form, and what it
\* answers is the root of the path it was asked for.
ResolutionFits(c) ==
    c.stage = "resolving" =>
        /\ c.live => path # Nothing /\ c.about = path
        /\ c.answer # Nothing => c.answer = Root[c.about]

\* A scope to be confirmed is one of the path in the form.
ScopeInv ==
    /\ path \in Paths \cup {Nothing}
    /\ pendingScope # Nothing => pendingScope = path
    /\ \A c \in calls : IsCall(c) /\ ResolutionFits(c)
JobsInv == \E rows : jobs \in Seq(rows)

LEMMA CallIs ==
    ASSUME NEW stage, NEW about, NEW id
    PROVE  LET c == Call(stage, about, id)
           IN  IsCall(c) /\ c.stage = stage /\ c.about = about /\ c.answer = Nothing
  BY DEF Call, IsCall

\* A counter that is bumped changes nothing of the calls but whether they count.
LEMMA SupersededCalls ==
    ASSUME NEW set, \A c \in set : IsCall(c), NEW stages, NEW d \in Superseded(set, stages)
    PROVE  /\ IsCall(d) /\ (d.live => d \in set /\ d.stage \notin stages)
           /\ \E c \in set : d.stage = c.stage /\ d.about = c.about /\ d.answer = c.answer
  <1>1. PICK c \in set : d = IF c.stage \in stages THEN [c EXCEPT !.live = FALSE] ELSE c
    BY DEF Superseded
  <1>2. c = [stage |-> c.stage, about |-> c.about, id |-> c.id, live |-> c.live, answer |-> c.answer]
        /\ c.live \in BOOLEAN
    BY DEF IsCall
  <1>3. CASE c.stage \in stages
    <2>1. d = [stage |-> c.stage, about |-> c.about, id |-> c.id, live |-> FALSE, answer |-> c.answer]
      BY <1>1, <1>2, <1>3
    <2> QED  BY <2>1 DEF IsCall
  <1>4. CASE c.stage \notin stages
    BY <1>1, <1>2, <1>4
  <1> QED  BY <1>3, <1>4

\* The calls after a counter was bumped still fit, if those that count are as before.
LEMMA SupersededFit ==
    ASSUME ScopeInv, NEW stages, NEW set, set \subseteq calls,
           "resolving" \in stages \/ path' = path
    PROVE  \A d \in Superseded(set, stages) : IsCall(d) /\ ResolutionFits(d)'
  <1> SUFFICES ASSUME NEW d \in Superseded(set, stages)
               PROVE  IsCall(d) /\ ResolutionFits(d)'
    OBVIOUS
  <1>1. \A c \in set : IsCall(c) /\ ResolutionFits(c)  BY DEF ScopeInv
  <1>2. /\ IsCall(d) /\ (d.live => d \in set /\ d.stage \notin stages)
        /\ \E c \in set : d.stage = c.stage /\ d.about = c.about /\ d.answer = c.answer
    BY <1>1, SupersededCalls
  <1> QED  BY <1>1, <1>2 DEF ResolutionFits

-----------------------------------------------------------------------------
(* What a step does to the calls: of those that are new, a live one that starts *)
(* a scan is for the path in the form.                                          *)

Begins(c) == c.stage = "starting" /\ c.id = 0 /\ c.live
Agreed(c) == path # Nothing /\ c.about = Root[path] /\ (path \in Nested => pendingScope = path)
StepFits ==
    /\ \A d \in calls' : IsCall(d) /\ ResolutionFits(d)'
    /\ \A d \in calls' \ calls : Begins(d) => Agreed(d)

LEMMA BeginAnalysisFits ==
    ASSUME ScopeInv, path' = path, NEW root, NEW gone, BeginAnalysis(root, gone),
           path # Nothing, root = Root[path], path \in Nested => pendingScope = path
    PROVE  StepFits
  <1>1. CASE analysisStarting
    <2>1. calls' = calls \ gone  BY <1>1 DEF BeginAnalysis
    <2> QED  BY <2>1 DEF StepFits, ScopeInv, ResolutionFits
  <1>2. CASE ~analysisStarting
    <2> DEFINE kept == Superseded(calls \ gone, ScanStages)
               call == Call("starting", root, 0)
    <2>1. calls' = kept \cup {call}  BY <1>2 DEF BeginAnalysis
    <2>2. IsCall(call) /\ call.stage = "starting" /\ call.about = root  BY CallIs
    <2>3. \A d \in kept : IsCall(d) /\ ResolutionFits(d)'  BY SupersededFit
    <2>4. \A d \in kept : d.live => d \in calls  BY SupersededCalls DEF ScopeInv
    <2> HIDE DEF kept, call
    <2>5. \A d \in calls' : IsCall(d) /\ ResolutionFits(d)'
      BY <2>1, <2>2, <2>3 DEF ResolutionFits
    <2>6. \A d \in calls' \ calls : Begins(d) => Agreed(d)
      BY <2>1, <2>2, <2>4 DEF Begins, Agreed
    <2> QED  BY <2>5, <2>6 DEF StepFits
  <1> QED  BY <1>1, <1>2

\* The scope is left, with or without a call that is not one of a scope or scan.
LEMMA InvalidatedFits ==
    ASSUME ScopeInv, NEW set, InvalidatePendingScope(set),
           NEW fresh, \A c \in fresh : IsCall(c) /\ c.stage \notin {"resolving", "starting"},
           set = calls \cup fresh
    PROVE  StepFits
  <1>1. calls' = Superseded(set, {"resolving"})  BY DEF InvalidatePendingScope
  <1>2. \A c \in set : IsCall(c)  BY DEF ScopeInv
  <1> SUFFICES ASSUME NEW d \in calls'
               PROVE  IsCall(d) /\ ResolutionFits(d)' /\ (d \notin calls /\ Begins(d) => Agreed(d))
    BY DEF StepFits
  <1>3. /\ IsCall(d) /\ (d.live => d \in set /\ d.stage # "resolving")
        /\ \E c \in set : d.stage = c.stage /\ d.about = c.about /\ d.answer = c.answer
    BY <1>1, <1>2, SupersededCalls
  <1>4. ResolutionFits(d)'  BY <1>3 DEF ResolutionFits, ScopeInv
  <1> QED  BY <1>3, <1>4 DEF Begins

LEMMA LeftFits ==
    ASSUME ScopeInv, InvalidatePendingScope(calls)
    PROVE  StepFits
  <1> DEFINE fresh == {}
  <1>1. \A c \in fresh : IsCall(c) /\ c.stage \notin {"resolving", "starting"}  OBVIOUS
  <1>2. calls = calls \cup fresh  OBVIOUS
  <1> HIDE DEF fresh
  <1> QED  BY <1>1, <1>2, InvalidatedFits

\* A call is over.
LEMMA OverFits ==
    ASSUME ScopeInv, path' = path, calls' \subseteq calls
    PROVE  StepFits
  BY DEF StepFits, ScopeInv, ResolutionFits

\* A call goes on.
LEMMA MovedFits ==
    ASSUME ScopeInv, path' = path, NEW c \in calls, NEW next,
           calls' = (calls \ {c}) \cup next,
           \A d \in next : IsCall(d) /\ ResolutionFits(d) /\ ~Begins(d)
    PROVE  StepFits
  BY DEF StepFits, ScopeInv, ResolutionFits

LEMMA AddedFits ==
    ASSUME ScopeInv, path' = path, NEW stage, NEW about, NEW id,
           stage \notin {"resolving", "starting"}, calls' = calls \cup {Call(stage, about, id)}
    PROVE  StepFits
  <1>1. IsCall(Call(stage, about, id)) /\ Call(stage, about, id).stage = stage  BY CallIs
  <1> HIDE DEF Call
  <1> QED  BY <1>1 DEF StepFits, ScopeInv, ResolutionFits, Begins

-----------------------------------------------------------------------------
(* The steps.                                                                 *)

LEMMA JobsStep ==
    ASSUME JobsInv, [Next]_vars
    PROVE  JobsInv'
  <1>1. PICK rows : jobs \in Seq(rows)  BY DEF JobsInv
  <1>2. ASSUME NEW i, NEW e PROVE [jobs EXCEPT ![i] = e] \in Seq(rows \cup {e})
    <2>1. jobs \in Seq(rows \cup {e})  BY <1>1
    <2>2. CASE i \in 1 .. Len(jobs)  BY <2>1, <2>2, ExceptSeq
    <2>3. CASE i \notin 1 .. Len(jobs)
      <3>1. [jobs EXCEPT ![i] = e] = jobs  BY <2>1, <2>3
      <3> QED  BY <2>1, <3>1
    <2> QED  BY <2>2, <2>3
  <1>3. ASSUME NEW e PROVE Append(jobs, e) \in Seq(rows \cup {e})
    BY <1>1
  <1>4. CASE UNCHANGED jobs  BY <1>1, <1>4 DEF JobsInv
  <1>5. ASSUME NEW c \in calls, ServeStart(c) PROVE JobsInv'
    BY <1>3, <1>5 DEF ServeStart, JobsInv
  <1>6. ASSUME NEW c \in calls, ServeView(c) PROVE JobsInv'
    <2>1. jobs' = jobs \/ jobs' = [jobs EXCEPT ![c.id] = [jobs[c.id] EXCEPT !.cancelled = TRUE]]
      BY <1>6 DEF ServeView
    <2> DEFINE e == [jobs[c.id] EXCEPT !.cancelled = TRUE]
    <2>2. [jobs EXCEPT ![c.id] = e] \in Seq(rows \cup {e})  BY <1>2
    <2> QED  BY <1>1, <2>1, <2>2 DEF JobsInv
  <1>7. ASSUME NEW id, NEW state, JobEnds(id, state) PROVE JobsInv'
    <2>1. jobs' = [jobs EXCEPT ![id] = [jobs[id] EXCEPT !.state = state]]
      BY <1>7 DEF JobEnds
    <2> QED  BY <1>2, <2>1 DEF JobsInv
  <1>8. CASE User
    BY <1>4, <1>8 DEF User, EnterPath, ScanRepository, ConfirmScope, CancelScope, CancelScan,
       OpenRecentRepository, LoadSnapshot, service
  <1>9. CASE Browser
    BY <1>4, <1>9 DEF Browser, Resume, ReceiveScope, ReceiveView, Poll, ReceiveFinishedScan,
       ReceiveCancel, ReceiveRecent, ReceiveSnapshot, LoseCall, service
  <1>10. CASE Serve
    <2>1. PICK c \in calls : ServeScope(c) \/ ServeStart(c) \/ ServeView(c) \/ ServeSnapshots(c)
      BY <1>10 DEF Serve
    <2>2. ServeScope(c) \/ ServeSnapshots(c) => UNCHANGED jobs
      BY DEF ServeScope, ServeSnapshots, service
    <2> QED  BY <1>4, <1>5, <1>6, <2>1, <2>2
  <1>11. CASE JobsEnd  BY <1>7, <1>11 DEF JobsEnd
  <1>12. CASE UNCHANGED vars  BY <1>4, <1>12 DEF vars, service
  <1> QED  BY <1>8, <1>9, <1>10, <1>11, <1>12 DEF Next

ScopeFits ==
    /\ path' \in Paths \cup {Nothing}
    /\ pendingScope' # Nothing => pendingScope' = path'

LEMMA UserStep ==
    ASSUME ScopeInv, User
    PROVE  ScopeFits /\ StepFits
  <1>1. ASSUME NEW p \in Paths, EnterPath(p) PROVE ScopeFits /\ StepFits
    <2>1. path' = p /\ InvalidatePendingScope(calls) /\ pendingScope' = Nothing
      BY <1>1 DEF EnterPath, InvalidatePendingScope
    <2>2. StepFits  BY <2>1, LeftFits
    <2> QED  BY <2>1, <2>2 DEF ScopeFits
  <1>2. CASE ScanRepository
    <2> DEFINE kept == Superseded(calls, {"resolving"})
               call == Call("resolving", path, 0)
    <2>1. /\ path # Nothing /\ path' = path /\ pendingScope' = pendingScope
          /\ calls' = kept \cup {call}
      BY <1>2 DEF ScanRepository
    <2>2. IsCall(call) /\ call.stage = "resolving" /\ call.about = path /\ call.answer = Nothing
      BY CallIs
    <2>3. \A d \in kept : IsCall(d) /\ ResolutionFits(d)'  BY SupersededFit
    <2>4. \A d \in kept : d.live => d \in calls  BY SupersededCalls DEF ScopeInv
    <2> HIDE DEF kept, call
    <2>5. \A d \in calls' : IsCall(d) /\ ResolutionFits(d)'
      BY <2>1, <2>2, <2>3 DEF ResolutionFits
    <2>6. \A d \in calls' \ calls : ~Begins(d)  BY <2>1, <2>2, <2>4 DEF Begins
    <2>7. StepFits  BY <2>5, <2>6 DEF StepFits
    <2> QED  BY <2>1, <2>7 DEF ScopeFits, ScopeInv
  <1>3. CASE ConfirmScope
    <2>1. /\ pendingScope # Nothing /\ BeginAnalysis(Root[pendingScope], {})
          /\ pendingScope' = Nothing /\ path' = path
      BY <1>3 DEF ConfirmScope
    <2>2. pendingScope = path  BY <2>1 DEF ScopeInv
    <2>3. StepFits  BY <2>1, <2>2, BeginAnalysisFits
    <2> QED  BY <2>1, <2>3 DEF ScopeFits, ScopeInv
  <1>4. CASE CancelScope
    <2>1. path' = path /\ InvalidatePendingScope(calls) /\ pendingScope' = Nothing
      BY <1>4 DEF CancelScope, InvalidatePendingScope
    <2>2. StepFits  BY <2>1, LeftFits
    <2> QED  BY <2>1, <2>2 DEF ScopeFits, ScopeInv
  <1>5. CASE CancelScan
    <2>1. UNCHANGED <<path, pendingScope>> /\ calls' = calls \cup {Call("cancelling", job.root, job.id)}
      BY <1>5 DEF CancelScan, scope
    <2> QED  BY <2>1, AddedFits DEF ScopeFits, ScopeInv
  <1>6. ASSUME NEW r \in Roots, OpenRecentRepository(r) PROVE ScopeFits /\ StepFits
    <2> DEFINE fresh == {Call("opening", r, 0)}
    <2>1. path' = path /\ InvalidatePendingScope(calls \cup fresh) /\ pendingScope' = Nothing
      BY <1>6 DEF OpenRecentRepository, InvalidatePendingScope
    <2>2. \A c \in fresh : IsCall(c) /\ c.stage \notin {"resolving", "starting"}  BY CallIs
    <2> HIDE DEF fresh
    <2>3. StepFits  BY <2>1, <2>2, InvalidatedFits
    <2> QED  BY <2>1, <2>3 DEF ScopeFits, ScopeInv
  <1>7. ASSUME NEW s \in snapshots, LoadSnapshot(s) PROVE ScopeFits /\ StepFits
    <2>1. UNCHANGED <<path, pendingScope>> /\ calls' = calls \cup {Call("switching", s, 0)}
      BY <1>7 DEF LoadSnapshot, scope
    <2> QED  BY <2>1, AddedFits DEF ScopeFits, ScopeInv
  <1> QED  BY <1>1, <1>2, <1>3, <1>4, <1>5, <1>6, <1>7 DEF User

LEMMA ReceiveStep ==
    ASSUME ScopeInv, NEW c \in calls, Resume(c)
    PROVE  ScopeFits /\ StepFits
  <1>1. c = [stage |-> c.stage, about |-> c.about, id |-> c.id, live |-> c.live, answer |-> c.answer]
        /\ c.live \in BOOLEAN /\ ResolutionFits(c)
    BY DEF ScopeInv, IsCall
  <1>2. CASE ReceiveScope(c)
    <2>1. c.stage = "resolving" /\ c.answer # Nothing /\ path' = path
      BY <1>2 DEF ReceiveScope
    <2>2. CASE calls' = calls \ {c} /\ pendingScope' = pendingScope
      <3>1. StepFits  BY <2>1, <2>2, OverFits
      <3> QED  BY <2>1, <2>2, <3>1 DEF ScopeFits, ScopeInv
    <2>3. CASE c.live /\ calls' = calls \ {c} /\ pendingScope' = c.about
      <3>1. StepFits  BY <2>1, <2>3, OverFits
      <3> QED  BY <1>1, <2>1, <2>3, <3>1 DEF ScopeFits, ScopeInv, ResolutionFits
    <2>4. CASE /\ c.live /\ c.about \notin Nested /\ pendingScope' = pendingScope
               /\ BeginAnalysis(c.answer, {c})
      <3>1. path # Nothing /\ c.about = path /\ c.answer = Root[path]
        BY <1>1, <2>1, <2>4 DEF ResolutionFits
      <3>2. StepFits  BY <2>1, <2>4, <3>1, BeginAnalysisFits
      <3> QED  BY <2>1, <2>4, <3>2 DEF ScopeFits, ScopeInv
    <2> QED  BY <1>2, <2>2, <2>3, <2>4 DEF ReceiveScope, UsesScope, NeedsConfirmation
  <1> SUFFICES ASSUME \/ ReceiveView(c) \/ Poll(c) \/ ReceiveFinishedScan(c) \/ ReceiveCancel(c)
                      \/ ReceiveRecent(c) \/ ReceiveSnapshot(c) \/ LoseCall(c)
               PROVE  ScopeFits /\ StepFits
    BY <1>2 DEF Resume
  <1>3. UNCHANGED <<path, pendingScope>>
    BY DEF ReceiveView, Poll, ReceiveFinishedScan, ReceiveCancel, ReceiveRecent, ReceiveSnapshot,
       LoseCall, scope
  <1>4. \/ calls' = calls \ {c}
        \/ calls' = (calls \ {c}) \cup {[c EXCEPT !.stage = "polling"]}
        \/ calls' = (calls \ {c}) \cup {[[c EXCEPT !.answer = Nothing] EXCEPT !.stage = "waiting"]}
        \/ calls' = (calls \ {c}) \cup {[[c EXCEPT !.answer = Nothing] EXCEPT !.stage = "loading"]}
    BY DEF ReceiveView, Poll, ReceiveFinishedScan, ReceiveCancel, ReceiveRecent, ReceiveSnapshot,
       LoseCall, Move
  <1>5. ASSUME NEW d, d.stage \in {"polling", "waiting", "loading"}, IsCall(d),
               calls' = (calls \ {c}) \cup {d}
        PROVE  StepFits
    <2>1. \A e \in {d} : IsCall(e) /\ ResolutionFits(e) /\ ~Begins(e)
      BY <1>5 DEF ResolutionFits, Begins
    <2> QED  BY <1>3, <1>5, <2>1, MovedFits
  <1>6. StepFits
    <2>1. CASE calls' = calls \ {c}
      BY <1>3, <2>1, OverFits
    <2>2. ASSUME NEW stage \in {"polling", "waiting", "loading"}, NEW answer,
                 calls' = (calls \ {c}) \cup {[[c EXCEPT !.answer = answer] EXCEPT !.stage = stage]}
          PROVE  StepFits
      <3> DEFINE d == [stage |-> stage, about |-> c.about, id |-> c.id, live |-> c.live,
                       answer |-> answer]
                 unanswered == [c EXCEPT !.answer = answer]
      <3>1. unanswered = [stage |-> c.stage, about |-> c.about, id |-> c.id, live |-> c.live,
                          answer |-> answer]
        BY <1>1
      <3> HIDE DEF unanswered
      <3>2. [unanswered EXCEPT !.stage = stage] = d  BY <3>1
      <3>3. d.stage = stage /\ IsCall(d)  BY <1>1 DEF IsCall
      <3>4. calls' = (calls \ {c}) \cup {d}  BY <2>2, <3>2 DEF unanswered
      <3> HIDE DEF d
      <3> QED  BY <1>5, <3>3, <3>4
    <2>3. [c EXCEPT !.stage = "polling"] = [[c EXCEPT !.answer = c.answer] EXCEPT !.stage = "polling"]
      <3>1. [c EXCEPT !.answer = c.answer] = c  BY <1>1
      <3> QED  BY <3>1
    <2> QED  BY <1>4, <2>1, <2>2, <2>3
  <1> QED  BY <1>3, <1>6 DEF ScopeFits, ScopeInv

LEMMA ServeStep ==
    ASSUME ScopeInv, JobsInv, NEW c \in calls,
           ServeScope(c) \/ ServeStart(c) \/ ServeView(c) \/ ServeSnapshots(c)
    PROVE  ScopeFits /\ StepFits
  <1>1. c = [stage |-> c.stage, about |-> c.about, id |-> c.id, live |-> c.live, answer |-> c.answer]
        /\ c.live \in BOOLEAN /\ ResolutionFits(c)
    BY DEF ScopeInv, IsCall
  <1>2. UNCHANGED <<path, pendingScope>>
    BY DEF ServeScope, ServeStart, ServeView, ServeSnapshots, scope
  <1>3. ASSUME NEW d, IsCall(d), ResolutionFits(d), ~Begins(d), calls' = (calls \ {c}) \cup {d}
        PROVE  StepFits
    BY <1>2, <1>3, MovedFits
  <1>4. ASSUME NEW answer
        PROVE  LET d == [c EXCEPT !.answer = answer]
               IN  /\ IsCall(d) /\ d.stage = c.stage /\ d.about = c.about /\ d.id = c.id
                   /\ d.live = c.live /\ d.answer = answer
    BY <1>1 DEF IsCall
  <1>5. CASE ServeScope(c)
    <2> DEFINE d == [c EXCEPT !.answer = Root[c.about]]
    <2>1. c.stage = "resolving" /\ calls' = (calls \ {c}) \cup {d}
      BY <1>5 DEF ServeScope, Move
    <2>2. /\ IsCall(d) /\ d.stage = c.stage /\ d.about = c.about
          /\ d.live = c.live /\ d.answer = Root[c.about]
      BY <1>4
    <2> HIDE DEF d
    <2>3. ResolutionFits(d) /\ ~Begins(d)
      BY <1>1, <2>1, <2>2 DEF ResolutionFits, Begins
    <2> QED  BY <1>2, <1>3, <2>1, <2>2, <2>3 DEF ScopeFits, ScopeInv
  <1>6. CASE ServeStart(c)
    <2> DEFINE d == [c EXCEPT !.id = Len(jobs')]
    <2>1. /\ c.stage = "starting" /\ calls' = (calls \ {c}) \cup {d}
          /\ \E e : jobs' = Append(jobs, e)
      BY <1>6 DEF ServeStart, Move
    <2>2. Len(jobs') # 0
      <3>1. PICK rows : jobs \in Seq(rows)  BY DEF JobsInv
      <3>2. PICK e : jobs' = Append(jobs, e)  BY <2>1
      <3>3. jobs \in Seq(rows \cup {e})  BY <3>1
      <3>4. Len(Append(jobs, e)) = Len(jobs) + 1 /\ Len(jobs) \in Nat  BY <3>3
      <3> QED  BY <3>2, <3>4
    <2>3. d = [stage |-> c.stage, about |-> c.about, id |-> Len(jobs'), live |-> c.live,
               answer |-> c.answer]
      BY <1>1
    <2> HIDE DEF d
    <2>4. IsCall(d) /\ d.stage = "starting" /\ d.id # 0
      BY <1>1, <2>1, <2>2, <2>3 DEF IsCall
    <2>5. ResolutionFits(d) /\ ~Begins(d)
      BY <2>4 DEF ResolutionFits, Begins
    <2> QED  BY <1>2, <1>3, <2>1, <2>4, <2>5 DEF ScopeFits, ScopeInv
  <1>7. CASE ServeView(c) \/ ServeSnapshots(c)
    <2>1. PICK answer : /\ calls' = (calls \ {c}) \cup {[c EXCEPT !.answer = answer]}
                        /\ c.stage # "resolving" /\ (c.id # 0 \/ c.stage # "starting")
      BY <1>7 DEF ServeView, ServeSnapshots, Move
    <2> DEFINE d == [c EXCEPT !.answer = answer]
    <2>2. IsCall(d) /\ d.stage = c.stage /\ d.id = c.id  BY <1>4
    <2> HIDE DEF d
    <2>3. ResolutionFits(d) /\ ~Begins(d)
      BY <2>1, <2>2 DEF ResolutionFits, Begins
    <2> QED  BY <1>2, <1>3, <2>1, <2>2, <2>3 DEF ScopeFits, ScopeInv, d
  <1> QED  BY <1>5, <1>6, <1>7

LEMMA ScopeStep ==
    ASSUME ScopeInv, JobsInv, [Next]_vars
    PROVE  ScopeFits /\ StepFits
  <1>1. CASE UNCHANGED <<path, pendingScope, calls>>
    BY <1>1 DEF ScopeFits, StepFits, ScopeInv, ResolutionFits
  <1>2. CASE User  BY <1>2, UserStep
  <1>3. CASE Browser  BY <1>3, ReceiveStep DEF Browser
  <1>4. CASE Serve  BY <1>4, ServeStep DEF Serve
  <1>5. CASE JobsEnd
    <2>1. UNCHANGED <<path, pendingScope, calls>>  BY <1>5 DEF JobsEnd, JobEnds, scope
    <2> QED  BY <1>1, <2>1
  <1>6. CASE UNCHANGED vars
    <2>1. UNCHANGED <<path, pendingScope, calls>>  BY <1>6 DEF vars, scope
    <2> QED  BY <1>1, <2>1
  <1> QED  BY <1>2, <1>3, <1>4, <1>5, <1>6 DEF Next

(* What is scanned is what the form says, and what the user agreed to.        *)
THEOREM ScansAlwaysWhatThePathSays == Spec => ScansWhatThePathSays
  <1>1. Init => ScopeInv /\ JobsInv
    <2>1. <<>> \in Seq({})  OBVIOUS
    <2> QED  BY <2>1 DEF Init, ScopeInv, JobsInv
  <1>2. ScopeInv /\ JobsInv /\ [Next]_vars => ScopeInv' /\ JobsInv'
    BY JobsStep, ScopeStep DEF ScopeFits, StepFits, ScopeInv
  <1>3. ScopeInv /\ JobsInv /\ [Next]_vars =>
          [\A c \in BegunScans :
              /\ path # Nothing /\ c.about = Root[path]
              /\ path \in Nested => pendingScope = path]_vars
    BY ScopeStep DEF StepFits, BegunScans, Begins, Agreed
  <1> QED  BY <1>1, <1>2, <1>3, PTL DEF Spec, ScansWhatThePathSays
=============================================================================

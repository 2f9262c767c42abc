--------------------------- MODULE HandoffRendering ---------------------------
(* One handoff, from the comparison it draws on to the two texts (zscripts/    *)
(* infrastructure/handoff_rendering.py, called by _render_handoff_selection of *)
(* application/repository_review.py).  A text is the payload it was rendered   *)
(* from; its length is the sum of the lengths of its parts.                    *)
EXTENDS SnapshotComparison, FiniteSetsExt

CONSTANTS
    Pairs,          \* [baseline, target] of [repository, real, unread, evidence]
    NoBaseline,     \* instead of a baseline: a handoff of one snapshot
    Findings,       \* findings the store knows in the repository
    NoteLength,     \* length of the review note of a finding
    Selections,     \* what a request may choose beside deltas, with its budget
    StaleDeltas,    \* deltas of other comparisons a request may still hold
    JsonLength, MarkdownLength    \* [required, item, notice]: of the parts of a text

HandoffSections == Sections \cup {"comparison", "task-objective"}
Limits == {"sections", "items", "findings", "notes", "noteLength", "objective",
           "json", "markdown"}
Lengths == [required : Nat, item : Nat, notice : Nat]

ASSUME RenderingAssumption ==
    /\ JsonLength \in Lengths /\ MarkdownLength \in Lengths
    /\ NoteLength \in [Findings -> Nat] /\ IsFiniteSet(Findings)
    /\ \A s \in Selections :
          /\ s.budget \in [Limits -> Nat] /\ s.objective \in Nat
          /\ IsFiniteSet(s.findings) /\ IsFiniteSet(s.notes)

(* The evidence of every snapshot is what its analysis observed.              *)
ASSUME ObservationAssumption ==
    \A p \in Pairs :
        \A side \in {p.target} \cup ({p.baseline} \ {NoBaseline}) :
            /\ side.evidence \in Evidence /\ side.real \in Items
            /\ Observes(side.evidence, side.real, side.unread)

VARIABLES
    pair,          \* the two snapshots
    comparison,    \* the deltas between them
    selection,     \* what the request asks for
    phase,
    payload,       \* what the texts are rendered from
    assembled,     \* the payload before it was fitted to the budgets (history)
    json,          \* the payload normalized_json was made from
    markdown       \* [of: payload, gaps: the warnings it shows, cut: whether it is truncated]

vars == <<pair, comparison, selection, phase, payload, assembled, json, markdown>>

HasBaseline == pair.baseline # NoBaseline
Base == pair.baseline.evidence
Target == pair.target.evidence
Budget == selection.budget
Enabled == selection.sections

-----------------------------------------------------------------------------
(* Payloads.  A count that is absent from omitted_counts is 0 here; truncated  *)
(* is set wherever something is counted.                                       *)

JsonWarning == <<"json-budget">>
MarkdownWarning == <<"markdown-budget">>
TruncationWarning == <<"truncated">>
Counts == Sections \cup {"review-note-characters", "json-budget-items", "markdown-characters"}
Payload(changes, findings, warnings, omitted) ==
    [changes |-> changes, findings |-> findings, warnings |-> warnings, omitted |-> omitted]
Empty == Payload({}, {}, {}, [c \in Counts |-> 0])

Whole(p) == [of |-> p, gaps |-> p.warnings, cut |-> FALSE]
Counted(p) == {c \in Counts : p.omitted[c] > 0}
Evident(p) == Cardinality(p.changes) + Cardinality(p.findings)

(* _pretty_json and _render_markdown: the counts are only in the JSON, the     *)
(* Markdown has a line that says that something was truncated.  What does not  *)
(* depend on the evidence, the summary of the comparison too, is required.     *)
Objective == IF "task-objective" \in Enabled THEN selection.objective ELSE 0
JsonBytes(p) ==
    JsonLength.required + Objective + JsonLength.item * Evident(p)
    + JsonLength.notice * (Cardinality(p.warnings) + Cardinality(Counted(p)))
MarkdownCharacters(p) ==
    MarkdownLength.required + Objective + MarkdownLength.item * Evident(p)
    + MarkdownLength.notice * (Cardinality(p.warnings) + IF Counted(p) # {} THEN 1 ELSE 0)

WithMarkdownNotice(p) ==
    Payload(p.changes, p.findings, p.warnings \cup {MarkdownWarning},
            [p.omitted EXCEPT !["markdown-characters"] = 1])
WithoutMarkdownNotice(p) ==
    Payload(p.changes, p.findings, p.warnings \ {MarkdownWarning},
            [p.omitted EXCEPT !["markdown-characters"] = 0])

(* _apply_json_budget_omission: too long a JSON loses all optional evidence.  *)
BugWithoutEvidence(p) ==
    Payload({}, {}, p.warnings \cup {JsonWarning},
            [p.omitted EXCEPT !["json-budget-items"] = @ + Cardinality(p.changes)])
WithoutEvidence(p) ==
    Payload({}, {}, p.warnings \cup {JsonWarning},
            [p.omitted EXCEPT !["json-budget-items"] = @ + Evident(p)])
BugOmitted(p) ==
    IF JsonBytes(WithMarkdownNotice(p)) > Budget.json /\ Evident(p) > 0
    THEN WithoutEvidence(p) ELSE p
Omitted(p) ==
    IF JsonBytes(p) > Budget.json /\ Evident(p) > 0 THEN WithoutEvidence(p) ELSE p

-----------------------------------------------------------------------------
(* The request.                                                               *)

Init ==
    /\ pair \in Pairs
    /\ comparison = {} /\ selection = <<>> /\ phase = "open"
    /\ payload = Empty /\ assembled = Empty /\ json = Empty
    /\ markdown = Whole(Empty)

(* compare_snapshots refuses snapshots of different repositories.             *)
Compare ==
    /\ phase = "open"
    /\ IF ~HasBaseline
       THEN phase' = "compared" /\ comparison' = {}
       ELSE IF pair.baseline.repository # pair.target.repository
       THEN phase' = "refused" /\ UNCHANGED comparison
       ELSE phase' = "compared" /\ comparison' = CompareSnapshots(Base, Target)
    /\ UNCHANGED <<pair, selection, payload, assembled, json, markdown>>

(* A list of deltas, some perhaps of another comparison, and findings.  A      *)
(* cycle is also selected by its identifiers, which name the same delta.       *)
Ask ==
    /\ phase = "compared" /\ phase' = "asked"
    /\ \E s \in Selections, deltas \in SUBSET (comparison \cup StaleDeltas) :
          /\ IsFiniteSet(deltas)
          /\ selection' = [deltas |-> deltas, sections |-> s.sections, findings |-> s.findings,
                           notes |-> s.notes, objective |-> s.objective, budget |-> s.budget]
    /\ UNCHANGED <<pair, comparison, payload, assembled, json, markdown>>

(* The checks of _render_handoff_selection, render_handoff and                 *)
(* _validate_render_selection.                                                 *)
Acceptable ==
    /\ Enabled \subseteq HandoffSections /\ Cardinality(Enabled) <= Budget.sections
    /\ selection.objective <= Budget.objective
    /\ selection.findings \subseteq Findings
    /\ selection.notes \subseteq selection.findings
    /\ Cardinality(selection.notes) <= Budget.notes
    /\ \A d \in selection.deltas : d \in comparison /\ d.section \in Enabled

Refuse ==
    /\ phase = "asked" /\ ~Acceptable
    /\ phase' = "refused"
    /\ UNCHANGED <<pair, comparison, selection, payload, assembled, json, markdown>>

-----------------------------------------------------------------------------
(* render_handoff.                                                            *)

SideWarnings(side, e) ==
    {w \in {<<side, "truncated">>, <<side, "parse-gaps">>, <<side, "lifecycle">>} :
        \/ w[2] = "truncated" /\ e.truncated
        \/ w[2] = "parse-gaps" /\ e.gaps
        \/ w[2] = "lifecycle" /\ ~e.reconciled}
AnalysisWarnings ==
    SideWarnings("target", Target)
    \cup IF ~HasBaseline THEN {}
         ELSE SideWarnings("baseline", Base)
              \cup {<<"comparison", s>> : s \in {s \in Sections : ~Supported(s, Base, Target)}}

Selected(s) == {d \in selection.deltas : d.section = s}
Least(a, b) == IF a <= b THEN a ELSE b
Excess(size, limit) == size - Least(size, limit)

(* The first items of every section, in an order of the keys that is left      *)
(* open, and the count of those that remain.                                   *)
CutSections ==
    /\ phase = "asked" /\ Acceptable /\ phase' = "sections"
    /\ \E included \in SUBSET selection.deltas :
          /\ \A s \in Sections :
                Cardinality({d \in included : d.section = s})
                    = Least(Cardinality(Selected(s)), Budget.items)
          /\ payload' = Payload(included, {}, AnalysisWarnings,
                [c \in Counts |-> IF c \in Sections
                                  THEN Excess(Cardinality(Selected(c)), Budget.items) ELSE 0])
    /\ UNCHANGED <<pair, comparison, selection, assembled, json, markdown>>

(* The count of the findings replaces that of the finding occurrences, when    *)
(* both are cut.  Findings that do not fit are counted, and notes shortened,   *)
(* even where the section is not enabled.                                      *)
FindingsOmitted(p) ==
    IF Cardinality(selection.findings) > Budget.findings
    THEN Excess(Cardinality(selection.findings), Budget.findings)
    ELSE p.omitted["findings"]
NoteExcess(shown) ==
    MapThenSumSet(LAMBDA f : Excess(NoteLength[f], Budget.noteLength),
                  shown \cap selection.notes)

CutFindings ==
    /\ phase = "sections" /\ phase' = "assembled"
    /\ \E shown \in SUBSET selection.findings :
          /\ Cardinality(shown) = Least(Cardinality(selection.findings), Budget.findings)
          /\ LET p == Payload(payload.changes, IF "findings" \in Enabled THEN shown ELSE {},
                    payload.warnings,
                    [payload.omitted EXCEPT !["findings"] = FindingsOmitted(payload),
                                            !["review-note-characters"] = NoteExcess(shown)])
             IN payload' = IF Counted(p) # {}
                           THEN Payload(p.changes, p.findings,
                                        p.warnings \cup {TruncationWarning}, p.omitted)
                           ELSE p
    /\ assembled' = payload'
    /\ UNCHANGED <<pair, comparison, selection, json, markdown>>

-----------------------------------------------------------------------------
(* _finalize_budgeted_outputs.                                                *)

FitJson ==
    /\ phase = "assembled"
    /\ payload' = Omitted(payload) /\ json' = payload'
    /\ phase' = IF JsonBytes(payload') > Budget.json THEN "too small" ELSE "json"
    /\ UNCHANGED <<pair, comparison, selection, assembled, markdown>>

FitMarkdown ==
    /\ phase = "json" /\ MarkdownCharacters(payload) <= Budget.markdown
    /\ markdown' = Whole(payload)
    /\ phase' = "done"
    /\ UNCHANGED <<pair, comparison, selection, payload, assembled, json>>

AnnounceCut ==
    /\ phase = "json" /\ MarkdownCharacters(payload) > Budget.markdown
    /\ payload' = Omitted(WithMarkdownNotice(payload))
    /\ json' = payload'
    /\ phase' = "announced"
    /\ UNCHANGED <<pair, comparison, selection, assembled, markdown>>

BugRetract ==
    /\ phase = "announced" /\ MarkdownCharacters(payload) <= Budget.markdown
    /\ payload' = WithoutMarkdownNotice(payload)
    /\ UNCHANGED json
    /\ IF JsonBytes(payload') > Budget.json
       THEN phase' = "too small" /\ UNCHANGED markdown
       ELSE phase' = "done" /\ markdown' = Whole(payload')
    /\ UNCHANGED <<pair, comparison, selection, assembled>>
Retract ==
    /\ phase = "announced" /\ MarkdownCharacters(payload) <= Budget.markdown
    /\ payload' = WithoutMarkdownNotice(payload)
    /\ json' = payload'
    /\ IF JsonBytes(payload') > Budget.json
       THEN phase' = "too small" /\ UNCHANGED markdown
       ELSE phase' = "done" /\ markdown' = Whole(payload')
    /\ UNCHANGED <<pair, comparison, selection, assembled>>

(* The end of a text that is too long gives way to the line that says so; the  *)
(* Analysis Gaps come late in it, and any of them may be cut off.              *)
CutMarkdown ==
    /\ phase = "announced" /\ MarkdownCharacters(payload) > Budget.markdown
    /\ IF JsonBytes(payload) > Budget.json
       THEN phase' = "too small" /\ UNCHANGED markdown
       ELSE /\ phase' = "done"
            /\ \E gaps \in SUBSET payload.warnings :
                   markdown' = [of |-> payload, gaps |-> gaps, cut |-> TRUE]
    /\ UNCHANGED <<pair, comparison, selection, payload, assembled, json>>

Next ==
    \/ Compare \/ Ask \/ Refuse \/ CutSections \/ CutFindings
    \/ FitJson \/ FitMarkdown \/ AnnounceCut \/ Retract \/ CutMarkdown
Spec == Init /\ [][Next]_vars

-----------------------------------------------------------------------------
Phases == {"open", "compared", "asked", "sections", "assembled", "json", "announced",
           "done", "refused", "too small"}

(* Every variable keeps its shape; a payload never shows evidence that was not *)
(* selected.                                                                   *)
PayloadOK(p) ==
    /\ p.changes \subseteq comparison /\ p.findings \subseteq Findings
    /\ p.omitted \in [Counts -> Nat]
    /\ phase \notin {"open", "compared", "refused"} =>
           p.changes \subseteq selection.deltas /\ p.findings \subseteq selection.findings
TypeOK ==
    /\ pair \in Pairs /\ phase \in Phases /\ markdown.cut \in BOOLEAN
    /\ \A p \in {payload, assembled, json, markdown.of} : PayloadOK(p)

(* docs/api.md:173: partial absence never masquerades as a confirmed addition  *)
(* or removal.  What is reported as added was really absent from the baseline, *)
(* what is reported as removed really is absent from the target, whatever the  *)
(* two analyses cut, did not parse or made up and whichever versions they ran. *)
(* It is not so, against that line, of what depends on a file an analysis      *)
(* could not read or took for binary: that may be told as added or removed     *)
(* while it is there.                                                          *)
AbsenceIsTrue ==
    HasBaseline => AbsenceIsReal(comparison, pair.baseline.real, pair.baseline.unread,
                                 pair.target.real, pair.target.unread)

(* Comparing the other way round tells the same differences, seen from there:  *)
(* neither side is judged by the reasons of the other.                         *)
ComparisonMirrors ==
    phase = "compared" /\ HasBaseline =>
        CompareSnapshots(Target, Base) = {Mirrored(d) : d \in comparison}

(* docs/repository-review.md:329: complete evidence yields what was added and  *)
(* removed.  Between complete snapshots of one version nothing goes untold of  *)
(* the relationships, and of the other keys that occur at most once in each:   *)
(* the deltas lead from the real content of one to that of the other, but for  *)
(* what depends on files that were not read.                                   *)
DeltasTellTheDifference ==
    phase = "compared" /\ HasBaseline =>
        \A s \in Sections \ {"cycles"}, k \in Keys :
            Comparable(s, k, Base, Target, pair.baseline.real, pair.baseline.unread,
                       pair.target.real, pair.target.unread) =>
                Replays(comparison, s, k, pair.baseline.real, pair.target.real)

(* Whatever is cut, dropped or shown: the items of the texts and the omitted   *)
(* counts make up what was selected, but for what the code shows and counts    *)
(* nowhere, against docs/repository-review.md:189: the findings within the     *)
(* budget when their section is not enabled, and the occurrences of findings   *)
(* that were cut when findings are cut too.                                    *)
Lost ==
    (IF "findings" \in Enabled THEN 0
     ELSE Least(Cardinality(selection.findings), Budget.findings))
    + IF Cardinality(selection.findings) > Budget.findings
      THEN Excess(Cardinality(Selected("findings")), Budget.items) ELSE 0
OmittedEvidence(p) ==
    p.omitted["files"] + p.omitted["symbols"] + p.omitted["relationships"]
    + p.omitted["cycles"] + p.omitted["metrics"] + p.omitted["findings"]
    + p.omitted["json-budget-items"]
SelectedEvidenceIsAccountedFor ==
    phase = "done" =>
        Evident(json) + OmittedEvidence(json) =
            Cardinality(selection.deltas) + Cardinality(selection.findings) - Lost

(* docs/repository-review.md:331: the digest covers both texts after all       *)
(* truncation and warning decisions.  Both texts are made from one payload; it *)
(* warns of a cut Markdown, and of evidence omitted for the sake of the JSON,  *)
(* exactly if there is such a thing.                                           *)
OutputsTellTheSame ==
    phase = "done" =>
        /\ json = markdown.of
        /\ markdown.cut <=> json.omitted["markdown-characters"] > 0
        /\ markdown.cut <=> MarkdownWarning \in json.warnings
        /\ json.omitted["json-budget-items"] > 0 <=> JsonWarning \in json.warnings

(* Evidence is dropped, and a request is turned down, only when no handoff     *)
(* with all the assembled evidence fits: neither one with the whole Markdown   *)
(* nor one that says that its Markdown is cut.  A request is turned down only  *)
(* if the latter does not fit without evidence either.                         *)
Fits(p) == JsonBytes(p) <= Budget.json /\ MarkdownCharacters(p) <= Budget.markdown
FitsCut(p) == JsonBytes(WithMarkdownNotice(p)) <= Budget.json
Bare(p) == IF Evident(p) > 0 THEN WithoutEvidence(p) ELSE p
EvidenceIsDroppedOnlyForRoom ==
    /\ \/ phase = "done" /\ json.omitted["json-budget-items"] > 0
       \/ phase = "too small"
       => ~Fits(assembled) /\ ~FitsCut(assembled)
    /\ phase = "too small" => ~FitsCut(Bare(assembled))

(* docs/api.md:173 again, in the handoff: a comparison that is not supported   *)
(* throughout, or a snapshot that is partial, is still said to be so after all *)
(* that was omitted and retracted: in the JSON always, in the Markdown unless  *)
(* it is cut, which may take the labels away and leaves its last line to tell. *)
Labelled(warnings) ==
    /\ \A d \in json.changes :
          d.change \in {"not-observed-in-baseline", "not-observed-in-target"} =>
              <<"comparison", d.section>> \in warnings
    /\ Complete(Target) \/ \E w \in warnings : w[1] = "target"
    /\ HasBaseline => Complete(Base) \/ \E w \in warnings : w[1] = "baseline"
PartialEvidenceIsLabelled ==
    phase = "done" =>
        Labelled(json.warnings) /\ (markdown.cut \/ Labelled(markdown.gaps))

(* What was selected reaches the reader as far as the two parts say.           *)
EvidenceIsAccountedFor == SelectedEvidenceIsAccountedFor /\ PartialEvidenceIsLabelled
=============================================================================

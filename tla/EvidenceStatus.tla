---------------------------- MODULE EvidenceStatus ----------------------------
(* What a reader of a snapshot is told about the limits of its evidence:       *)
(* build_snapshot_evidence_status (zscripts/domain/repository_review.py).      *)
EXTENDS Integers, Sequences, FiniteSets, SequencesExt

CurrentSchema == 4
Surfaces == {"generic", "overview", "symbols", "relationships", "findings"}

\* The oldest schema a view can read; 0: it reads every one.
MinimumSchema(surface) ==
    CASE surface = "generic" -> 0
      [] surface \in {"overview", "symbols"} -> 1
      [] surface = "relationships" -> 2
      [] surface = "findings" -> 3

\* A schema that is not a number is 0 here: it is not supported anywhere.
SchemaSupported(schema, surface) ==
    schema \in 1 .. CurrentSchema /\ schema >= MinimumSchema(surface)

LifecycleCode(reason) ==
    CASE reason = "truncated-scan" -> {"lifecycle-truncated-scan"}
      [] reason = "parse-gaps" -> {"lifecycle-parse-gaps"}
      [] reason = "superseded-by-newer-analysis" -> {"lifecycle-superseded"}
      [] reason = "analysis-status-unavailable" -> {"lifecycle-analysis-status-unavailable"}
      [] OTHER -> {}

\* facts: [truncated, gaps, schema, observed, reason] of one stored snapshot.
Limitations(facts, surface) ==
    {c \in {"snapshot-truncated"} : facts.truncated}
    \cup {c \in {"snapshot-parse-gaps"} : facts.gaps > 0}
    \cup {c \in {"snapshot-schema-unsupported"} : ~SchemaSupported(facts.schema, surface)}
    \cup {c \in {"observation-state-unknown"} : ~facts.observed}
    \cup LifecycleCode(facts.reason)

EvidenceComplete(facts, surface) == Limitations(facts, surface) = {}

=============================================================================

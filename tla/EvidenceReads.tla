----------------------------- MODULE EvidenceReads -----------------------------
(* How the evidence views of the workspace wait for the localhost API: a read  *)
(* that is asked for again makes the answers still out worthless (a            *)
(* generation counter, an "active" flag or an aborted request: all say whether *)
(* a call is the last one), and what is shown is kept with what it was asked   *)
(* for.  A reader is a record of both; a call is never forgotten before it is  *)
(* answered.                                                                   *)
EXTENDS FiniteSets, Integers

CONSTANTS
    Nothing,
    MaxCalls    \* bound: unanswered calls of one reader

ASSUME CallsAssumption == MaxCalls \in Nat \ {0}

Idle == [shown |-> Nothing, failed |-> Nothing, calls |-> {}]

Waits(reader) == \E c \in reader.calls : c.live

Superseded(calls) == {[c EXCEPT !.live = FALSE] : c \in calls}

CanAsk(reader) == Cardinality(reader.calls) < MaxCalls
Ask(reader, about) ==
    [reader EXCEPT !.calls = Superseded(@) \cup {[about |-> about, live |-> TRUE]}]

BugUsesAnyAnswer(c) == TRUE
UsesAnswer(c) == c.live

\* An answer, a call that failed, and one whose failure is not kept with its request.
Receive(reader, c, value) ==
    IF UsesAnswer(c)
    THEN [reader EXCEPT !.calls = @ \ {c}, !.shown = [about |-> c.about, value |-> value]]
    ELSE [reader EXCEPT !.calls = @ \ {c}]
Fail(reader, c) ==
    IF UsesAnswer(c)
    THEN [reader EXCEPT !.calls = @ \ {c}, !.failed = [about |-> c.about]]
    ELSE [reader EXCEPT !.calls = @ \ {c}]

Lose(reader, c) == [reader EXCEPT !.calls = @ \ {c}]

\* What is shown, or failed, for this very request.
ShownFor(reader, about) == reader.shown # Nothing /\ reader.shown.about = about
FailedFor(reader, about) == reader.failed # Nothing /\ reader.failed.about = about

=============================================================================

-------------------------- MODULE MCHandoffRendering --------------------------
(* Every pair of observations of one section with two keys is compared; for a  *)
(* few pairs with evidence in several sections handoffs are rendered, under    *)
(* budgets on both sides of every decision.                                    *)
EXTENDS HandoffRendering

old == [schema |-> 2, analyzer |-> "1"]
new == [schema |-> 3, analyzer |-> "3"]
MCVersions == {old, new}
MCBlind == {<<old, s, "k2">> : s \in Sections}

Nothing == [s \in Sections |-> [k \in Keys |-> <<>>]]
In(s, first, second) ==
    [Nothing EXCEPT ![s] = [k \in Keys |-> IF k = "k1" THEN first ELSE second]]
Snapshot(r, real, v, truncated, gaps, reconciled, items) ==
    [repository |-> r, real |-> real, unread |-> {},
     evidence |-> [version |-> v, truncated |-> truncated, gaps |-> gaps,
                   reconciled |-> reconciled, items |-> items]]

Unread(keys, snapshot) == [snapshot EXCEPT !.unread = keys]

(* Observations of one section: complete ones, those that are cut short or     *)
(* have gaps, and complete ones but for a file that could not be read.         *)
Contents(s) ==
    {In(s, first, second) : first \in {<<>>, <<"v1">>, <<"v2">>, <<"v1", "v2">>},
                            second \in {<<>>, <<"v1">>}}
Recognised(v, s, real) == In(s, real[s]["k1"], IF v = old THEN <<>> ELSE real[s]["k2"])
ObservationsOf(s) ==
    {Snapshot("r", real, v, FALSE, FALSE, TRUE, Recognised(v, s, real)) :
        real \in Contents(s), v \in Versions}
    \cup {Snapshot("r", real, new, truncated, ~truncated, FALSE, items) :
        real \in {In(s, <<"v1">>, <<"v1">>), In(s, <<"v1", "v2">>, <<>>)}, truncated \in BOOLEAN,
        items \in {Nothing, In(s, <<"v1">>, <<>>), In(s, <<"v2">>, <<>>)}}
    \cup {Unread({<<s, "k1">>},
                 Snapshot("r", In(s, <<"v1">>, <<"v1">>), new, FALSE, FALSE, TRUE, items)) :
        items \in {In(s, <<>>, <<"v1">>), In(s, <<"v2", "v2">>, <<"v1">>)}}
ComparedPairs ==
    UNION {[baseline : ObservationsOf(s), target : ObservationsOf(s)] :
               s \in {"symbols", "relationships", "cycles", "findings"}}

(* Observations handoffs are made of.                                          *)
Mixed(files, findings) ==
    [Nothing EXCEPT !["files"] = files, !["findings"] = findings]
Row(first, second) == [k \in Keys |-> IF k = "k1" THEN first ELSE second]
Before == Mixed(Row(<<"v1">>, <<>>), Row(<<>>, <<>>))
After == Mixed(Row(<<"v2">>, <<"v1">>), Row(<<"v1">>, <<"v1">>))
Half == Mixed(Row(<<>>, <<"v1">>), Row(<<"v1">>, <<>>))
RenderedPairs ==
    {[baseline |-> Snapshot("r", Before, new, FALSE, FALSE, TRUE, Before),
      target |-> Snapshot("r", After, new, FALSE, FALSE, TRUE, After)],
     [baseline |-> Snapshot("r", Before, new, TRUE, FALSE, TRUE, Before),
      target |-> Snapshot("r", After, new, FALSE, TRUE, FALSE, Half)],
     [baseline |-> Snapshot("other", Before, new, FALSE, FALSE, TRUE, Before),
      target |-> Snapshot("r", After, new, FALSE, FALSE, TRUE, After)],
     [baseline |-> NoBaseline,
      target |-> Snapshot("r", After, new, TRUE, FALSE, TRUE, Before)]}
MCPairs == ComparedPairs \cup RenderedPairs

Limit(items, findings, jsonBytes, markdownCharacters) ==
    [sections |-> 4, items |-> items, findings |-> findings, notes |-> 1, noteLength |-> 2,
     objective |-> 1, json |-> jsonBytes, markdown |-> markdownCharacters]
MCSelections ==
    [sections : {{"files", "findings"}, {"files", "comparison", "task-objective"}},
     findings : {{}, {"f1", "f2"}}, notes : {{}, {"f1"}}, objective : {1},
     budget : {Limit(1, 2, j, m) : j \in 4 .. 30, m \in 3 .. 16}
              \cup {Limit(i, 1, j, m) : i \in {1, 2}, j \in {9, 16, 23, 30}, m \in {6, 10, 14}}]
MCNoteLength == [f \in Findings |-> IF f = "f1" THEN 3 ELSE 0]
MCJsonLength == [required |-> 3, item |-> 4, notice |-> 2]
MCMarkdownLength == [required |-> 3, item |-> 2, notice |-> 1]
MCStale == {[section |-> "files", key |-> "k1", index |-> 1, before |-> {"v2"},
             after |-> {"v1"}, change |-> "changed"]}

(* Handoffs are made of the few pairs only.                                    *)
RenderFewPairs == phase = "open" \/ pair \in RenderedPairs
=============================================================================

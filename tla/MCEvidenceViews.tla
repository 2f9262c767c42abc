---------------------------- MODULE MCEvidenceViews ----------------------------
(* Three symbols, a package with two modules that import each other, a class   *)
(* that inherits from itself, two snapshots.                                 *)
EXTENDS EvidenceViews

Symbol(id, line, matches) ==
    [id |-> id, path |-> "a.py", lines |-> 2 * id, key |-> [id |-> id, line |-> line], matches |-> matches]
MCSymbols == {Symbol(1, 2, {"x"}), Symbol(2, 1, {"x", "class"}), Symbol(3, 1, {"class"})}

Node(id, type, kind, name, init, matches) ==
    [id |-> id, type |-> type, kind |-> kind, name |-> name, init |-> init, matches |-> matches]
MCNodes ==
    {Node(1, "package", "", <<"p">>, FALSE, {"p"}), Node(2, "module", "", <<"p">>, TRUE, {"p"}),
     Node(3, "module", "", <<"p", "m">>, FALSE, {"p", "m"}),
     Node(4, "symbol", "class", <<"p", "m", "C">>, FALSE, {"p", "m"}),
     Node(5, "package", "", <<"q">>, FALSE, {}), Node(6, "module", "", <<"q">>, TRUE, {})}
MCNodeOrder == <<1, 2, 3, 4, 5, 6>>
Edge(id, type, source, target) ==
    [id |-> id, type |-> type, source |-> source, target |-> target, status |-> "resolved-static",
     path |-> "a.py"]
MCRelationships ==
    {Edge(1, "imports", 2, 3), Edge(2, "imports", 3, 2), Edge(3, "inherits", 4, 4),
     Edge(4, "imports", 6, 3)}
MCCycles == {[type |-> "imports", members |-> {2, 3}], [type |-> "inherits", members |-> {4}]}
MCTrim == [t \in {"", " "} |-> IF t = " " THEN "" ELSE t]

Facts(truncated, gaps) ==
    [truncated |-> truncated, gaps |-> gaps, schema |-> 4, observed |-> TRUE, reason |-> "none"]
MCSnapshots == <<"s2", "s1">>
MCFactsOf == [s \in {"s1", "s2"} |-> Facts(s = "s1", IF s = "s2" THEN 1 ELSE 0)]
MCChangePages == [s \in {"files", "symbols"} |-> IF s = "files" THEN 2 ELSE 0]
=============================================================================

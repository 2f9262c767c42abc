----------------------------- MODULE FindingRules -----------------------------
(* The measures of modules and symbols, the rules that make findings of them,  *)
(* and the merging of findings that are one (zscripts/infrastructure/          *)
(* finding_analysis.py).  A finding is identified by its rule and by what it   *)
(* is about, never by where that is or how much it measures.                   *)
EXTENDS NameResolution, PythonSyntax

CONSTANT Policy     \* the thresholds of FindingPolicy

ResolvedStatuses == {"resolved-static", "probable-static"}
ResolvedEdges(edges, type) ==
    {e \in edges : e.type = type /\ e.target # NoName /\ e.status \in ResolvedStatuses}
FanIn(edges, type, id) == Cardinality({e \in ResolvedEdges(edges, type) : e.target = id})
FanOut(edges, type, id) == Cardinality({e \in ResolvedEdges(edges, type) : e.source = id})

IsTestPath(parts) ==
    \/ \E part \in Range(Front(parts)) : part \in {"test", "tests"}
    \/ Last(parts) \in {"test_a", "a_test"}
IsVendored(parts) == \E part \in Range(parts) : part \in {"generated", "vendor", "vendored"}

\* The modules a test imports.
NearbyTested(modules, edges) ==
    {e.target : e \in {d \in ResolvedEdges(edges, "imports") :
                          \E m \in modules : m.id = d.source /\ IsTestPath(m.parts)}}

\* Of several modules of one name the last one stands for its symbols.  The
\* code orders them by a digest, here the path does.
ModuleOf(modules, symbol) ==
    CHOOSE m \in Named(modules, symbol.module) :
        \A n \in Named(modules, symbol.module) : n.path <= m.path

Precedes(place, other) ==
    \/ place[1] < other[1]
    \/ place[1] = other[1] /\ place[2] < other[2]

\* The longest chain of bases above a class, NoName above a cycle: a chain that
\* has more steps than there are edges takes one of them twice.
Depth(edges, id) ==
    LET inherits == ResolvedEdges(edges, "inherits")
        above[n \in 0 .. Cardinality(inherits) + 1] ==
            IF n = 0 THEN {id}
            ELSE LET below == above[n - 1] IN {e.target : e \in {d \in inherits : d.source \in below}}
    IN IF above[Cardinality(inherits) + 1] # {} THEN NoName
       ELSE Max({n \in 0 .. Cardinality(inherits) : above[n] # {}})

-----------------------------------------------------------------------------
(* The rules.                                                                 *)

Finding(rule, type, keys, nodes, place, severity) ==
    [rule |-> rule, type |-> type, keys |-> keys, nodes |-> nodes, place |-> place,
     severity |-> severity]
FindingId(finding) == <<finding.rule, finding.type, finding.keys>>

ThresholdSeverity(value, threshold) ==
    IF value > 2 * threshold THEN "high"
    ELSE IF 2 * value > 3 * threshold THEN "medium" ELSE "low"

SymbolFinding(rule, symbol, severity) ==
    Finding(rule, "symbol", {QualifiedName(symbol)}, {symbol.id}, symbol.id, severity)
ModuleFinding(rule, module, severity) ==
    Finding(rule, "module", {NameOf(module)}, {module.id}, <<module.path, 1>>, severity)

NodeName(modules, symbols, id) ==
    IF \E m \in modules : m.id = id
    THEN NameOf(CHOOSE m \in modules : m.id = id)
    ELSE QualifiedName(CHOOSE s \in symbols : s.id = id)

CycleFindings(modules, symbols, cycles) ==
    {Finding(IF c.type = "imports" THEN "dependency-cycle" ELSE "inheritance-cycle", "cycle",
             {NodeName(modules, symbols, id) : id \in c.members}, c.members, NoName, "high") :
        c \in cycles}

\* What a rule may speak about.
Reviewable(modules, symbols) ==
    {s \in symbols : /\ s.visibility # "private"
                     /\ \A m \in modules : m.path = s.path => ~IsVendored(m.parts)}

\* Two symbols of one name are a candidate, methods only when there are five.
DuplicateFindings(modules, symbols) ==
    LET subjects == {s \in Reviewable(modules, symbols) : s.visibility # "dunder"}
        group(kind, name) == {s \in subjects : s.kind = kind /\ Last(s.inner) = name}
        names(g) == {QualifiedName(s) : s \in g}
        last(g, name) == CHOOSE s \in g : /\ QualifiedName(s) = name
                                          /\ \A r \in g : QualifiedName(r) = name => r = s \/ Precedes(r.id, s.id)
    IN {LET g == group(s.kind, Last(s.inner))
            shown == {last(g, name).id : name \in names(g)}
        IN Finding("exact-duplicate-symbol-name", "symbol-group", names(g), shown, NoName, "low") :
            s \in {t \in subjects : Cardinality(names(group(t.kind, Last(t.inner))))
                                        >= IF t.kind = "method" THEN 5 ELSE 2}}

ModuleFindings(modules, edges) ==
    {ModuleFinding("oversized-module", m, ThresholdSeverity(m.lines, Policy.moduleLines)) :
        m \in {n \in modules : n.lines > Policy.moduleLines}}
    \cup {ModuleFinding("high-resolved-fan-in", m, "medium") :
        m \in {n \in modules : FanIn(edges, "imports", n.id) > Policy.fanIn}}
    \cup {ModuleFinding("high-resolved-fan-out", m, "medium") :
        m \in {n \in modules : FanOut(edges, "imports", n.id) > Policy.fanOut}}

IsFunction(s) == s.kind \in {"function", "method"}
IsPublicTopLevel(s) == s.kind \in {"class", "function"} /\ Len(s.inner) = 1 /\ s.visibility = "public"

\* The measures of a symbol that have a threshold.
OverThreshold(s) ==
    LET span == IF s.kind = "class" THEN Policy.classLines ELSE Policy.functionLines
    IN {r \in {<<"oversized-symbol", s.lines, span>>} : s.lines > span}
       \cup {r \in {<<"high-maximum-nesting", s.nesting, Policy.nesting>>,
                    <<"high-parameter-count", s.parameters, Policy.parameters>>} :
                IsFunction(s) /\ r[2] > r[3]}

IsComplex(s) == IsFunction(s) /\ s.complexity > Policy.complexity
Incoming(edges, id) == UNION {ResolvedEdges({e \in edges : e.target = id}, t) :
                                 t \in {"imports", "inherits", "references-type"}}
IsExported(modules, s) ==
    \E m \in modules : \E name \in m.exports : QualifiedName(s) = Append(NameOf(m), name)
LooksOrphaned(modules, edges, s) ==
    /\ IsPublicTopLevel(s) /\ Incoming(edges, s.id) = {} /\ ~IsExported(modules, s)
    /\ Last(s.inner) \notin {"main", "cli"} /\ s.module # <<"__main__">>
    /\ \A m \in modules : m.path = s.path => ~IsTestPath(m.parts)

\* The rules that say something of a symbol, with its severity.
SaidOf(modules, edges, cycles, s) ==
    LET inCycle == \E c \in cycles : c.type = "inherits" /\ s.id \in c.members
        depth == Depth(edges, s.id)
        tested == ModuleOf(modules, s).id \in NearbyTested(modules, edges)
    IN {<<r[1], ThresholdSeverity(r[2], r[3])>> : r \in OverThreshold(s)}
       \cup {r \in {<<"high-cyclomatic-complexity", "medium">>} : IsComplex(s)}
       \cup {r \in {<<"complexity-without-nearby-test-evidence", "medium">>} : IsComplex(s) /\ ~tested}
       \cup {r \in {<<"deep-inheritance", "medium">>} :
                s.kind = "class" /\ ~inCycle /\ depth # NoName /\ depth > Policy.depth}
       \cup {r \in {<<"undocumented-public-symbol", "low">>} : IsPublicTopLevel(s) /\ ~s.doc}
       \cup {r \in {<<"orphan-looking-candidate", "low">>} : LooksOrphaned(modules, edges, s)}

SymbolFindings(modules, symbols, edges, cycles) ==
    UNION {{SymbolFinding(r[1], s, r[2]) : r \in SaidOf(modules, edges, cycles, s)} :
              s \in Reviewable(modules, symbols)}

AllFindings(modules, symbols, edges, cycles) ==
    CycleFindings(modules, symbols, cycles) \cup DuplicateFindings(modules, symbols)
    \cup ModuleFindings(modules, edges) \cup SymbolFindings(modules, symbols, edges, cycles)

-----------------------------------------------------------------------------
(* Two modules of one name, below src and below lib, give findings of one      *)
(* identity: they become one, about both, told from the first of them.         *)

First(group) ==
    CHOOSE f \in group : \A g \in group : f.place = NoName \/ f = g \/ Precedes(f.place, g.place)

MergedGroup(group) ==
    LET first == First(group)
    IN Finding(first.rule, first.type, first.keys, UNION {f.nodes : f \in group},
               IF \A f \in group : f.place = first.place THEN first.place
               ELSE IF \A f \in group : f.place[1] = first.place[1] THEN <<first.place[1], 0>>
               ELSE NoName,
               first.severity)

BugMergeFindings(findings) == findings
MergeFindings(findings) ==
    {MergedGroup({f \in findings : FindingId(f) = id}) : id \in {FindingId(f) : f \in findings}}

=============================================================================

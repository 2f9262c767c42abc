-------------------------- MODULE RepositoryAnalysis --------------------------
(* One scan, from the files to the evidence that is stored: discovery, the     *)
(* parsing of each file, the resolution of names, the findings (analyze in     *)
(* zscripts/application/repository_review.py and the analyzers it calls).      *)
(* The steps are those between which a cancellation is looked at.  ReviewService *)
(* has the attempts around this and what their transactions do.                *)
EXTENDS RepositoryDiscovery, FindingRules, EvidenceStatus

G == INSTANCE Graphs

CONSTANTS
    PartsOf,        \* [Paths -> the names a path is made of, without suffix]
    Trees,          \* [texts that parse -> their syntax]
    LinesOf,        \* [texts that parse -> number of lines]
    PrivateNames, DunderNames,
    IdPrecedes(_, _)  \* the order of the identifiers of nodes, which are digests

\* Texts that do not parse: one that cannot be decoded, one with an error, and
\* one nested so deep that the parser gives up in the middle of the scan.
Unparsed == {"undecodable", "malformed"}
TooDeep == "too deep"

\* The reasons of files that were left out because of their size or number.
Limits == {"file_size_limit", "file_count_limit", "total_byte_limit"}

IsName(name) == name \in Seq(STRING) /\ name # <<>>

\* What the parser gives: two definitions do not start at one place, and what is
\* imported at one place is imported by one statement, be it the same name twice.
IsSyntax(tree) ==
    LET definitions == Definitions(tree)
        imports == Range(Imports(tree))
    IN /\ IsDeepEnough(tree)
       /\ \A d, e \in definitions :
             /\ d.node.line \in Nat \ {0} /\ d.node.name \in STRING
             /\ d.node.line = e.node.line => d = e
             /\ \A r \in References(d.node) : IsName(r.text)
       /\ \A i, j \in imports :
             /\ i \in [op : {"import"}, module : Seq(STRING), name : STRING \cup {NoName},
                       alias : STRING \cup {NoName}, level : Nat, at : Nat]
             /\ i.name = NoName => i.level = 0 /\ i.module # <<>>
             /\ i.at = j.at => i.level = j.level /\ (i.level > 0 => i.module = j.module)

ASSUME AnalysisAssumption ==
    /\ MaxNesting \in Nat \ {0}
    /\ NoName \notin Paths \X Nat
    /\ None \notin Limits \cup {"unreadable"}
    /\ \A p \in Paths : IsName(PartsOf[p])
    /\ \A t \in DOMAIN Trees : IsSyntax(Trees[t])
    /\ \A p \in Paths : \A found \in Contents[p] :
          found.readable => found.text \in DOMAIN Trees \cup Unparsed \cup {TooDeep, Binary}

VARIABLES
    parsed,         \* path -> parse_status
    evidence        \* what the phases so far have made of the files, or None

analysisVars == <<parsed, evidence>>
repositoryVars == <<discoveryVars, analysisVars>>

AnalysisInit == DiscoveryInit /\ parsed = <<>> /\ evidence = None

Discovery == Discover /\ UNCHANGED analysisVars

-----------------------------------------------------------------------------
(* Parsing.                                                                   *)

StartAnalysis ==
    /\ stage = "discovered"
    /\ stage' = "analysis"
    /\ candidates' = Included
    /\ UNCHANGED <<checkout, edits, inGit, reading, records, curtailed, diagnostics, analysisVars>>

ParseStatus(text) ==
    CASE text = "undecodable" -> "decode_error"
      [] text = "malformed" -> "syntax_error"
      [] OTHER -> "parsed"
ParseDiagnostics(p) ==
    {Diagnostic(IF records[p].text = "malformed" THEN "PY_PARSE_ERROR" ELSE "PY_DECODE_ERROR", p) :
        q \in {r \in {p} : records[r].text \in Unparsed}}

AnalyzeFile(p) ==
    /\ stage = "analysis" /\ p \in candidates /\ \A q \in candidates : p <= q
    /\ records[p].text # TooDeep
    /\ candidates' = candidates \ {p}
    /\ parsed' = [q \in DOMAIN parsed \cup {p} |->
                     IF q = p THEN ParseStatus(records[p].text) ELSE parsed[q]]
    /\ diagnostics' = diagnostics \cup ParseDiagnostics(p)
    /\ UNCHANGED <<checkout, edits, inGit, stage, reading, records, curtailed, evidence>>

\* Only syntax and decoding errors are caught: any other one ends the scan.
ParserGivesUp(p) ==
    /\ stage = "analysis" /\ p \in candidates /\ \A q \in candidates : p <= q
    /\ records[p].text = TooDeep
    /\ stage' = "failed"
    /\ UNCHANGED <<checkout, edits, inGit, candidates, reading, records, curtailed, diagnostics,
                   analysisVars>>

Cancel ==
    /\ stage \in {"analysis", "relationships", "findings"}
    /\ stage' = "cancelled"
    /\ UNCHANGED <<checkout, edits, inGit, candidates, reading, records, curtailed, diagnostics,
                   analysisVars>>

-----------------------------------------------------------------------------
(* The evidence.                                                              *)

ParsedPaths == {p \in DOMAIN parsed : parsed[p] = "parsed"}
Tree(p) == Trees[records[p].text]

ModuleRecord(p) ==
    [id |-> ModuleId(p), path |-> p, parts |-> PartsOf[p],
     exports |-> Exports(Tree(p)), imports |-> Imports(Tree(p)),
     lines |-> LinesOf[records[p].text]]
Modules == {ModuleRecord(p) : p \in ParsedPaths}

Visibility(name) ==
    IF name \in DunderNames THEN "dunder" ELSE IF name \in PrivateNames THEN "private" ELSE "public"

SymbolRecord(p, d) ==
    [id |-> <<p, d.node.line>>, path |-> p, module |-> ModuleName(PartsOf[p]),
     inner |-> [i \in DOMAIN d.chain |-> d.chain[i].name], kind |-> Kind(d),
     parent |-> IF Len(d.chain) = 1 THEN None ELSE <<p, d.chain[Len(d.chain) - 1].line>>,
     visibility |-> Visibility(d.node.name), doc |-> d.node.doc, lines |-> d.node.lines,
     parameters |-> IF d.node.op = "def" THEN d.node.parameters ELSE 0,
     nesting |-> BodyNesting(d.node.body), complexity |-> Complexity(d.node.body)]
Symbols == UNION {{SymbolRecord(p, d) : d \in Definitions(Tree(p))} : p \in ParsedPaths}

ReferenceRecord(p, d, r) ==
    [source |-> <<p, d.node.line>>, module |-> ModuleName(PartsOf[p]), path |-> p,
     text |-> r.text, kind |-> r.kind, at |-> r.at, evidence |-> r.evidence]

\* A row for every import and for every reference, whatever edges they make: the
\* identifier of a row is a digest of its edge.
ImportRows(modules) ==
    UNION {{[row |-> <<m.id, i>>, edge |-> ImportEdges(modules, m)[i]] :
               i \in DOMAIN m.imports} : m \in modules}
ReferenceRow(modules, symbols, p, d, r) ==
    [row |-> <<<<p, d.node.line>>, r>>,
     edge |-> ReferenceEdge(modules, symbols, ReferenceRecord(p, d, r))]
ReferenceRows(modules, symbols, p) ==
    UNION {{ReferenceRow(modules, symbols, p, d, r) : r \in References(d.node)} :
              d \in Definitions(Tree(p))}

Relate ==
    /\ stage = "analysis" /\ candidates = {}
    /\ stage' = "relationships"
    /\ LET modules == Modules
           symbols == Symbols
           imports == ImportRows(modules)
           references == UNION {ReferenceRows(modules, symbols, p) : p \in ParsedPaths}
       IN evidence' = [modules |-> modules, symbols |-> symbols,
                       imports |-> imports, references |-> references,
                       edges |-> {r.edge : r \in imports \cup references}
                                 \cup Containment(modules, symbols),
                       cycles |-> {}, findings |-> {}]
    /\ UNCHANGED <<checkout, edits, inGit, candidates, reading, records, curtailed, diagnostics, parsed>>

Ascending(nodes) == SetToSortSeq(nodes, IdPrecedes)
\* strongly_connected_components.  One turn of the first pass: a node comes off
\* the stack to have the neighbors put there that never were, and later to finish.
TakeTurn(steps, search) ==
    LET top == Last(search.stack)
        fresh == {n \in {s[2] : s \in {t \in steps : t[1] = top.node}} : n \notin search.visited}
        pushed == [i \in DOMAIN Ascending(fresh) |->
                      [node |-> Reverse(Ascending(fresh))[i], expanded |-> FALSE]]
    IN IF search.stack = <<>> THEN search
       ELSE IF top.expanded
       THEN [search EXCEPT !.stack = Front(@), !.finished = Append(@, top.node)]
       ELSE [search EXCEPT !.stack = Append(Front(@), [top EXCEPT !.expanded = TRUE]) \o pushed,
                           !.visited = @ \cup fresh]
VisitFrom(nodes, steps, search, start) ==
    IF start \in search.visited THEN search
    ELSE FoldLeft(LAMBDA found, n : TakeTurn(steps, found),
                  [search EXCEPT !.visited = @ \cup {start},
                                 !.stack = <<[node |-> start, expanded |-> FALSE]>>],
                  [n \in 1 .. 2 * Cardinality(nodes) |-> n])
Finished(nodes, steps) ==
    FoldLeft(LAMBDA search, start : VisitFrom(nodes, steps, search, start),
             [visited |-> {}, stack |-> <<>>, finished |-> <<>>], Ascending(nodes)).finished

\* The second pass, from the node that finished last: what leads to a start and
\* is not assigned yet belongs to it.
Assign(nodes, steps, assigned, start) ==
    LET free == {n \in nodes : assigned[n] = NoName}
        leads == G!ConnectionsIn([node |-> free, edge |-> {s \in steps : s[1] \in free /\ s[2] \in free}])
    IN IF start \notin free THEN assigned
       ELSE [n \in nodes |-> IF n \in free /\ (n = start \/ leads[n, start]) THEN start ELSE assigned[n]]
Assigned(nodes, steps) ==
    FoldLeft(LAMBDA assigned, start : Assign(nodes, steps, assigned, start),
             [n \in nodes |-> NoName], Reverse(Finished(nodes, steps)))

\* cycle_groups: the components of more than one node, and what leads to itself.
\* A component need not be a cycle (see ComponentsAreStronglyConnected in RelationshipGraph).
Cycles(edges, type) ==
    LET steps == {<<e.source, e.target>> : e \in {d \in edges : /\ d.type = type /\ d.target # NoName
                                                               /\ d.status = "resolved-static"}}
        nodes == {s[1] : s \in steps} \cup {s[2] : s \in steps}
        assigned == Assigned(nodes, steps)
        members(n) == {m \in nodes : assigned[m] = n}
    IN {[type |-> type, members |-> members(n)] :
           n \in {m \in nodes : \/ Cardinality(members(m)) > 1
                                \/ members(m) = {m} /\ <<m, m>> \in steps}}

Find ==
    /\ stage = "relationships"
    /\ stage' = "findings"
    /\ LET cycles == Cycles(evidence.edges, "imports") \cup Cycles(evidence.edges, "inherits")
       IN evidence' = [evidence EXCEPT
              !.cycles = cycles,
              !.findings = MergeFindings(AllFindings(evidence.modules, evidence.symbols,
                                                     evidence.edges, cycles))]
    /\ UNCHANGED <<checkout, edits, inGit, candidates, reading, records, curtailed, diagnostics, parsed>>

-----------------------------------------------------------------------------
(* The rows of the snapshot, under the keys of its tables.  The rest of the    *)
(* transaction that stores them is in ReviewStore.                             *)

ModulesFit ==
    /\ IsInjective([m \in evidence.modules |-> m.id])
    /\ \A m \in evidence.modules : m.path \in DOMAIN records
SymbolsFit ==
    /\ IsInjective([s \in evidence.symbols |-> s.id])
    /\ \A s \in evidence.symbols : s.path \in DOMAIN records

RelationshipsDiffer ==
    /\ IsInjective([r \in evidence.imports |-> r.edge])
    /\ IsInjective([r \in evidence.references |-> r.edge])
RelationshipsHaveNodes ==
    LET nodes == GraphNodes(evidence.modules, evidence.symbols)
    IN \A e \in evidence.edges :
          /\ e.source \in nodes /\ e.target \in nodes \cup {NoName}
          /\ e.target # NoName <=> e.status \in ResolvedStatuses
CyclesFit ==
    \A c \in evidence.cycles : c.members \subseteq GraphNodes(evidence.modules, evidence.symbols)
OccurrencesFit == IsInjective([f \in evidence.findings |-> FindingId(f)])

InsertSnapshot ==
    /\ ModulesFit /\ SymbolsFit /\ RelationshipsDiffer /\ RelationshipsHaveNodes
    /\ CyclesFit /\ OccurrencesFit

Store ==
    /\ stage = "findings"
    /\ stage' = IF InsertSnapshot THEN "stored" ELSE "rejected"
    /\ UNCHANGED <<checkout, edits, inGit, candidates, reading, records, curtailed, diagnostics,
                   analysisVars>>

AnalysisNext ==
    \/ Discovery \/ StartAnalysis \/ Relate \/ Find \/ Store \/ Cancel
    \/ \E p \in Paths : AnalyzeFile(p) \/ ParserGivesUp(p)

AnalysisSpec == AnalysisInit /\ [][AnalysisNext]_repositoryVars

\* What the snapshot says of itself, and what its readers are told.
GapCodes == {"PY_PARSE_ERROR", "PY_DECODE_ERROR"}
SnapshotFacts ==
    [truncated |-> curtailed, gaps |-> Cardinality({d \in diagnostics : d.code \in GapCodes}),
     schema |-> CurrentSchema, observed |-> TRUE,
     reason |-> IF curtailed THEN "truncated-scan"
                ELSE IF \E d \in diagnostics : d.code \in GapCodes THEN "parse-gaps" ELSE "none"]
Told == Limitations(SnapshotFacts, "findings")

-----------------------------------------------------------------------------
(* Properties.                                                                *)

\* What is told of the files that are left out (docs/repository-review.md: "a
\* resource limit produces explicit exclusion/truncation evidence rather than a
\* silent partial result"): a file met by a limit truncates the snapshot, one that
\* does not parse is a gap, neither is told without a reason, and one that could
\* not be read has a diagnostic of its own.  Of an unreadable file its readers are
\* told no limitation, and a binary one has nothing but its record: with no
\* limitation told there is evidence of every file that was included, not of every
\* file that is there.
LeftOutFilesAreTold ==
    stage = "stored" =>
        /\ "snapshot-truncated" \in Told <=> \E p \in DOMAIN records : records[p].reason \in Limits
        /\ "snapshot-parse-gaps" \in Told <=> \E p \in Included : p \notin ParsedPaths
        /\ \A p \in DOMAIN records :
              records[p].reason = "unreadable" <=> Diagnostic("DISCOVERY_UNREADABLE", p) \in diagnostics
        /\ Told = {} => \A p \in Included : ModuleRecord(p) \in evidence.modules

\* One statement imports one name twice, whatever it is called afterwards.
ImportsTwice(p) ==
    \E i, j \in DOMAIN Imports(Tree(p)) :
        i # j /\ [Imports(Tree(p))[i] EXCEPT !.alias = NoName] = [Imports(Tree(p))[j] EXCEPT !.alias = NoName]
\* A definition refers twice, in one place and with one excerpt, to one class or
\* to one name of none: a base given twice, two names of a class in one string.
RefersTwice(p, d) ==
    LET edge(r) == ReferenceEdge(Modules, Symbols, ReferenceRecord(p, d, r))
    IN \E r, s \in References(d.node) :
          /\ r # s /\ r.kind = s.kind /\ r.at = s.at /\ r.evidence = s.evidence
          /\ edge(r).target = edge(s).target
          /\ edge(r).target = NoName => r.text = s.text
RepeatsItself(p) == ImportsTwice(p) \/ \E d \in Definitions(Tree(p)) : RefersTwice(p, d)

\* A scan that comes to its end is stored, unless a file repeats itself: the
\* whole transaction fails, and the scan with it, for nothing but an import, a
\* base or a type that one statement gives twice.  Whatever else the files say,
\* no two rows of one table have the same identity (two modules of one name, one
\* type in two places, an import and a base, two rules on one subject), every
\* relationship has its nodes and a resolved one its target.
EvidenceCanBeStored == stage = "rejected" => \E p \in ParsedPaths : RepeatsItself(p)

\* The directory a relative import starts from, and what lies in a place.  The
\* source roots are one tree here, as they are to the code: src/pkg and lib/pkg
\* are one package.
InTree(parts) == IF Head(parts) \in {"src", "lib"} THEN Tail(parts) ELSE parts
Upwards(p, level) == SubSeq(InTree(PartsOf[p]), 1, Len(InTree(PartsOf[p])) - level)
LiesAt(p, place) == InTree(PartsOf[p]) \in {place, Append(place, "__init__")}

\* A relative import that stays inside the source root of its file is resolved,
\* if at all, to what lies where the import says (_absolute_import_name goes by
\* names, in which an __init__ and the source root do not show).
RelativeImportsFollowTheTree ==
    stage = "stored" =>
        \A m \in evidence.modules : \A i \in DOMAIN m.imports :
            LET imported == m.imports[i]
                edge == ImportEdges(evidence.modules, m)[i]
                place == Upwards(m.path, imported.level) \o imported.module
            IN imported.level > 0 /\ edge.target # NoName /\ Len(InTree(PartsOf[m.path])) > imported.level
               => \/ LiesAt(edge.target[1], place)
                  \/ LiesAt(edge.target[1], Append(place, imported.name))

\* A symbol whose name modules go by as well, or m imports from: names do not
\* tell then which of them is meant.
MistakenForModules(m) ==
    {s \in evidence.symbols :
        \/ \E n \in evidence.modules : IsPrefix(QualifiedName(s), NameOf(n))
        \/ \E i \in DOMAIN m.imports : QualifiedName(s) = AbsoluteName(m, m.imports[i])}

\* What one module uses of another it imports: a resolved name of a class in
\* another module is backed by a resolved import of that module, so that fan-in
\* and fan-out, which count imports, miss no dependency the types show.  It is
\* not when the module shares its name with another, where the import is
\* ambiguous and the class need not be, when a package names what a module below
\* it defines, and when a symbol may be mistaken for a module.
UsesAreBackedByImports ==
    stage = "stored" =>
        \A e \in evidence.edges : \A m, n \in evidence.modules :
            /\ e.type \in {"inherits", "references-type"} /\ e.status = "resolved-static"
            /\ e.source[1] = m.path /\ e.target[1] = n.path /\ m # n
            => \/ \E d \in evidence.edges : /\ d.type = "imports" /\ d.status = "resolved-static"
                                           /\ d.source = m.id /\ d.target = n.id
               \/ Cardinality(Named(evidence.modules, NameOf(n))) > 1
               \/ IsStrictPrefix(NameOf(m), NameOf(n))
               \/ MistakenForModules(m) # {}

\* What a resolved row says of two modules is backed by the tree and by an import.
ResolutionsAreBacked == RelativeImportsFollowTheTree /\ UsesAreBackedByImports

=============================================================================

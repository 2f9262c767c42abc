---------------------------- MODULE EvidenceQueries ----------------------------
(* What the service answers about the evidence of one stored snapshot: pages  *)
(* of symbols, the nodes of a graph mode and what surrounds one of them, an    *)
(* excerpt of a source file (zscripts/infrastructure/snapshot_store.py,        *)
(* zscripts/application/repository_review.py).  A snapshot never changes; the  *)
(* files it was made of do.  Identifiers are numbers in the order the store    *)
(* sorts names by.                                                             *)
EXTENDS Integers, Sequences, FiniteSets, SequencesExt, Sublists

CONSTANTS
    Schema,          \* version the snapshot was written with
    Symbols,         \* [id, path, lines, key: [sort field -> Nat], matches: set of texts and filters]
    GraphNodes,      \* [id, type, kind, name, init, matches: set of texts]
    NodeOrder,       \* their identifiers, in the order of their names
    Relationships,   \* [id, type, source, target or None, status, path]
    Cycles,          \* [type, members]
    SymbolPageSize, NodePageSize,
    SourceLines,     \* max_source_lines
    None

ASSUME PageAssumption == {SymbolPageSize, NodePageSize, SourceLines} \subseteq Nat \ {0}
ASSUME OrderAssumption == NodeOrder \in Seq({n.id : n \in GraphNodes})

Supported(version) == Schema >= version

\* relationship_summary, of which the views only tell whether there is a graph.
RelationshipSummary == IF Supported(2) THEN "ready" ELSE "unsupported"

Slice(rows, page, size) ==
    SubSeq(rows, (page - 1) * size + 1, IF page * size < Len(rows) THEN page * size ELSE Len(rows))

-----------------------------------------------------------------------------
(* Symbols.                                                                   *)

\* "" as a search or as a filter matches everything; LIKE on name and signature.
SymbolMatches(s, q) == {q.search, q.filter} \subseteq s.matches \cup {""}

SymbolPrecedes(s, t, q) ==
    LET first == IF q.direction = "asc" THEN s.key[q.sort] ELSE t.key[q.sort]
        second == IF q.direction = "asc" THEN t.key[q.sort] ELSE s.key[q.sort]
    IN first < second \/ (first = second /\ s.id < t.id)

ListSymbols(q) ==
    LET found == {s \in Symbols : SymbolMatches(s, q)}
        rows == SetToSortSeq(found, LAMBDA s, t : SymbolPrecedes(s, t, q))
    IN [items |-> Slice(rows, q.page, SymbolPageSize), total |-> Len(rows)]

-----------------------------------------------------------------------------
(* The graph.                                                                 *)

GraphModes == {"modules", "packages", "inheritance", "containment", "types"}

\* The nodes the list of a mode offers (query_graph_nodes).
IsOfMode(n, mode) ==
    CASE mode = "modules" -> n.type = "module"
      [] mode = "packages" -> n.type = "package"
      [] mode = "inheritance" -> n.type = "symbol" /\ n.kind = "class"
      [] mode = "containment" -> n.type \in {"package", "module", "symbol"}
      [] mode = "types" -> n.type = "symbol"

ListNodes(q) ==
    LET found == {n \in GraphNodes : /\ IsOfMode(n, q.mode)
                                     /\ q.search \in n.matches \cup {""}
                                     /\ q.members # {} => n.id \in q.members}
        rows == Picked(NodeOrder, {n.id : n \in found})
    IN [items |-> Slice(rows, 1, NodePageSize), total |-> Len(rows)]

\* The package of a module is itself when it is an __init__, else its parent.
PackageOf(m) ==
    LET name == IF m.init THEN m.name ELSE Front(m.name)
    IN {p \in GraphNodes : p.type = "package" /\ p.name = name}

\* _package_dependency_graph: one edge for the resolved imports between the
\* modules of two packages, where the first of them is.
PackageEdges ==
    LET imports == {e \in Relationships : /\ e.type = "imports" /\ e.target # None
                                          /\ e.status \in {"resolved-static", "probable-static"}}
        ends(e) == UNION {PackageOf(m) \X PackageOf(n) :
                             m \in {x \in GraphNodes : x.type = "module" /\ x.id = e.source},
                             n \in {x \in GraphNodes : x.type = "module" /\ x.id = e.target}}
    IN UNION {{[e EXCEPT !.source = p[1].id, !.target = p[2].id, !.status = "resolved-static"] :
                  p \in {q \in ends(e) : /\ q[1] # q[2]
                                         /\ \A d \in imports : q \in ends(d) => e.id <= d.id}} :
              e \in imports}

\* _select_graph_mode: the nodes a focus may be, and the edges between them.
ModeNodes(mode) ==
    {n.id : n \in {m \in GraphNodes :
        CASE mode = "modules" -> m.type = "module"
          [] mode = "packages" -> m.type = "package"
          [] mode = "inheritance" -> m.type = "symbol" /\ m.kind = "class"
          [] mode = "types" -> m.type = "symbol"
          [] OTHER -> TRUE}}

ModeEdges(mode) ==
    LET candidates ==
            CASE mode = "modules" -> {e \in Relationships : e.type = "imports"}
              [] mode = "packages" -> PackageEdges
              [] mode = "inheritance" -> {e \in Relationships : e.type = "inherits"}
              [] mode = "types" -> {e \in Relationships : e.type = "references-type"}
              [] OTHER -> {e \in Relationships : e.type = "contains"}
    IN {e \in candidates : e.source \in ModeNodes(mode) /\ e.target \in ModeNodes(mode) \cup {None}}

\* A focus that the mode does not have is refused.  What the view lists are the
\* edges at the focus itself; RelationshipGraph has how far the rest goes.
FocusRefused(q) == q.focus \notin ModeNodes(q.mode)
Neighborhood(q) ==
    {e \in ModeEdges(q.mode) : /\ q.focus \in {e.source, e.target}
                               /\ q.filter \in {"", e.type, e.status}}
NeighborhoodNodes(q) ==
    UNION {{q.focus, e.source, e.target} : e \in Neighborhood(q)} \ {None}

-----------------------------------------------------------------------------
(* Source.                                                                    *)

\* read_source: nothing unless the file still is what was scanned; the lines
\* asked for, as many as one excerpt may have.
BugSourceRefused(disk, path) == path \notin DOMAIN disk
SourceRefused(disk, path) == disk[path] # "scanned"
ReadSource(disk, path, lines) ==
    [path |-> path, text |-> disk[path], lines |-> IF lines < SourceLines THEN lines ELSE SourceLines]

=============================================================================

---------------------------- MODULE NameResolution ----------------------------
(* From names to edges: what a module is called (zscripts/infrastructure/      *)
(* python_analyzer.py), which module an import loads and which class a name    *)
(* means (relationship_analysis.py), without running any of it.                *)
(*                                                                             *)
(* A dotted name is a sequence of names; <<>> is no name, and the name of the  *)
(* module in an __init__ at the root.  A path is a number; a node of the graph *)
(* is identified by the path and the line it starts in, 0 for a module.        *)
(*   module:    [id, path, parts, exports, imports]  parts: of the path        *)
(*   import:    [module, name, alias, level, at]                               *)
(*   symbol:    [id, module, path, inner, kind, ...]  inner: its name in there *)
(*   reference: [source, module, path, text, kind, at, evidence]               *)
EXTENDS Integers, Sequences, FiniteSets, SequencesExt

CONSTANT NoName

ModuleId(path) == <<path, 0>>
IsInit(parts) == parts # <<>> /\ Last(parts) = "__init__"
ModuleName(parts) ==
    LET inRoot == IF Head(parts) \in {"src", "lib"} THEN Tail(parts) ELSE parts
    IN IF IsInit(inRoot) THEN Front(inRoot) ELSE inRoot

NameOf(module) == ModuleName(module.parts)
PackageName(name) == IF name = <<>> THEN <<>> ELSE Front(name)
BugModulePackage(module) == PackageName(NameOf(module))
ModulePackage(module) ==
    IF IsInit(module.parts) THEN NameOf(module) ELSE PackageName(NameOf(module))

Named(modules, name) == {m \in modules : NameOf(m) = name}
QualifiedName(symbol) == symbol.module \o symbol.inner

-----------------------------------------------------------------------------
(* Imports.                                                                   *)

\* <<>> stands for a name that leads out of the repository, too.
AbsoluteName(source, imported) ==
    LET package == ModulePackage(source)
        parents == imported.level - 1
    IN IF imported.level = 0 THEN imported.module
       ELSE IF parents > Len(package) THEN <<>>
       ELSE SubSeq(package, 1, Len(package) - parents) \o imported.module

\* from a import b loads the module a.b if there is one.
ImportedModule(modules, source, imported) ==
    LET base == AbsoluteName(source, imported)
        submodule == Append(base, imported.name)
    IN IF imported.name # NoName /\ base # <<>> /\ Named(modules, submodule) # {}
       THEN submodule ELSE base

Edge(type, source, target, status, place) ==
    [type |-> type, source |-> source, target |-> target, status |-> status, place |-> place]

\* The evidence names what is imported, not what it is called afterwards.
ImportEvidence(source, imported) == <<AbsoluteName(source, imported), imported.name>>

ImportEdge(modules, source, imported) ==
    LET matches == Named(modules, ImportedModule(modules, source, imported))
        place == <<imported.at, ImportEvidence(source, imported)>>
    IN IF Cardinality(matches) = 1
       THEN Edge("imports", source.id, (CHOOSE m \in matches : TRUE).id, "resolved-static", place)
       ELSE Edge("imports", source.id, NoName,
                 IF matches = {} THEN "unresolved-dynamic" ELSE "ambiguous", place)

\* One edge for every imported name, in a sequence: two may be the same.
ImportEdges(modules, source) ==
    [i \in DOMAIN source.imports |-> ImportEdge(modules, source, source.imports[i])]

\* What the imports of a module bind a name to.
Bindings(modules, symbols, source) ==
    LET named == {imported \in Range(source.imports) : AbsoluteName(source, imported) # <<>>}
        plain == {imported \in named : imported.name = NoName
                                       /\ Named(modules, imported.module) # {}}
        from == named \ {imported \in named : imported.name = NoName}
        boundTo(imported) == Append(AbsoluteName(source, imported), imported.name)
        alias(imported) == IF imported.alias = NoName THEN imported.name ELSE imported.alias
    IN {[binding |-> Head(i.module), type |-> "module-import", name |-> i.module] :
            i \in {j \in plain : j.alias = NoName}}
       \cup {[binding |-> i.alias, type |-> "module", name |-> i.module] :
            i \in {j \in plain : j.alias # NoName}}
       \cup {[binding |-> alias(i), type |-> "module", name |-> boundTo(i)] :
            i \in {j \in from : Named(modules, boundTo(j)) # {}}}
       \cup {[binding |-> alias(i), type |-> "symbol", name |-> boundTo(i)] :
            i \in {j \in from : \E s \in symbols : QualifiedName(s) = boundTo(j)}}

-----------------------------------------------------------------------------
(* Names of classes.                                                          *)

Classes(symbols, name) == {s \in symbols : QualifiedName(s) = name /\ s.kind = "class"}

\* A class of the same module comes first, whatever the module imports.
LocalMatches(symbols, reference) ==
    LET inside == Classes(symbols, reference.module \o reference.text)
    IN IF reference.module = <<>> THEN {}
       ELSE IF inside # {} THEN inside
       ELSE IF IsStrictPrefix(reference.module, reference.text)
       THEN {s \in Classes(symbols, reference.text) : s.module = reference.module}
       ELSE {}

BindingMatches(symbols, reference, target) ==
    LET expanded == target.name \o Tail(reference.text)
    IN CASE target.type = "symbol" -> Classes(symbols, expanded)
         [] target.type = "module-import" ->
                IF IsPrefix(target.name, reference.text)
                THEN {s \in Classes(symbols, reference.text) : s.module = target.name}
                ELSE {}
         [] target.type = "module" -> {s \in Classes(symbols, expanded) : s.module = target.name}

ImportMatches(modules, symbols, reference) ==
    UNION {BindingMatches(symbols, reference, target) :
              target \in {b \in UNION {Bindings(modules, symbols, m) :
                                          m \in {n \in modules : n.path = reference.path}} :
                             b.binding = Head(reference.text)}}

\* A plain name the package of the module exports, wherever below it is.
ExportMatches(modules, symbols, reference) ==
    LET package == PackageName(reference.module)
    IN IF /\ Len(reference.text) = 1 /\ package # <<>>
          /\ \E m \in Named(modules, package) : Head(reference.text) \in m.exports
       THEN {s \in symbols : /\ s.kind = "class" /\ Last(s.inner) = Head(reference.text)
                             /\ IsStrictPrefix(package, QualifiedName(s))}
       ELSE {}

Resolution(modules, symbols, reference) ==
    LET local == LocalMatches(symbols, reference)
        imported == ImportMatches(modules, symbols, reference)
        exported == ExportMatches(modules, symbols, reference)
    IN IF local # {} THEN [targets |-> local, status |-> "resolved-static"]
       ELSE IF imported # {} THEN [targets |-> imported, status |-> "resolved-static"]
       ELSE [targets |-> exported, status |-> "probable-static"]

\* The name itself is kept only of a reference that is not resolved.
ReferenceEdge(modules, symbols, reference) ==
    LET resolution == Resolution(modules, symbols, reference)
        type == IF reference.kind = "inheritance" THEN "inherits" ELSE "references-type"
        place(name) == <<reference.at, reference.evidence, name>>
    IN IF Cardinality(resolution.targets) = 1
       THEN Edge(type, reference.source, (CHOOSE s \in resolution.targets : TRUE).id,
                 resolution.status, place(<<>>))
       ELSE Edge(type, reference.source, NoName,
                 IF resolution.targets = {} THEN "unresolved-dynamic" ELSE "ambiguous",
                 place(reference.text))

-----------------------------------------------------------------------------
(* Containment: packages hold modules, modules and symbols hold symbols.      *)

PackageNode(name) == <<0, name>>
Packages(modules) ==
    UNION {{SubSeq(ModulePackage(m), 1, n) : n \in 1 .. Len(ModulePackage(m))} : m \in modules}
GraphNodes(modules, symbols) ==
    {PackageNode(name) : name \in Packages(modules)}
    \cup {m.id : m \in modules} \cup {s.id : s \in symbols}

\* The symbol a symbol is written in, or its module.
Holder(symbols, symbol) ==
    IF Len(symbol.inner) = 1 THEN ModuleId(symbol.path) ELSE symbol.parent
Containment(modules, symbols) ==
    {Edge("contains", PackageNode(ModulePackage(m)), m.id, "resolved-static", <<>>) :
        m \in {n \in modules : ModulePackage(n) # <<>>}}
    \cup {Edge("contains", Holder(symbols, s), s.id, "resolved-static", <<>>) : s \in symbols}

=============================================================================

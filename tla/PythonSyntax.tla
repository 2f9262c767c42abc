----------------------------- MODULE PythonSyntax -----------------------------
(* What is taken from the syntax tree of a file: definitions, imports,         *)
(* exported names and names of types (zscripts/infrastructure/                 *)
(* python_analyzer.py), and how a scope measures (finding_analysis.py).        *)
(*                                                                             *)
(* A tree is cut down to what these read.  A body is a sequence of             *)
(*   [op |-> "class", name, line, lines, doc, bases, body]                     *)
(*   [op |-> "def", name, line, lines, doc, parameters, annotations, body]     *)
(*   [op |-> "import", module, name, alias, level, at]                         *)
(*   [op |-> "all", names]                  the assignment to __all__          *)
(*   [op |-> "annotated", attribute, annotation]                               *)
(*   [op |-> "expression", kind, parts]     conditions within an expression    *)
(*   [op |-> "block", kind, parts, blocks]  if, for, while, try, match, with   *)
(* where parts counts operands, filters, handlers or cases, blocks are the     *)
(* bodies below a node, and an annotation is one of                            *)
(*   [op |-> "name", text, at]                                                 *)
(*   [op |-> "subscript", outer, at, arguments]                                *)
(*   [op |-> "several", arguments]                  unions, tuples and lists   *)
EXTENDS Integers, Sequences, FiniteSets, SequencesExt, FiniteSetsExt

CONSTANTS
    MaxNesting,     \* bound: the levels of a tree
    Excerpt(_)      \* what is kept of the text of a base: 256 characters

DefinitionOps == {"class", "def"}
BodiesOf(node) ==
    CASE node.op = "block" -> node.blocks
      [] node.op \in DefinitionOps -> <<node.body>>
      [] OTHER -> <<>>

\* The statements of a body level by level: those in it, those in the bodies of
\* its nodes of these kinds, and so on.
Inside(nodes, ops) ==
    FlattenSeq([i \in DOMAIN nodes |->
                   IF nodes[i].op \in ops THEN FlattenSeq(BodiesOf(nodes[i])) ELSE <<>>])
Levels(body, ops) ==
    FoldLeft(LAMBDA levels, n : Append(levels, Inside(Last(levels), ops)), <<body>>,
             [n \in 1 .. MaxNesting - 1 |-> n])
Statements(body, ops) == FlattenSeq(Levels(body, ops))

\* Nothing lies below the levels that are looked at.
IsDeepEnough(body) ==
    Inside(Last(Levels(body, DefinitionOps \cup {"block"})), DefinitionOps \cup {"block"}) = <<>>

\* Every node of a body, at any depth (ast.walk), and those that belong to its
\* scope: not those of definitions in it.
SyntaxNodes(body) == Range(Statements(body, DefinitionOps \cup {"block"}))
ScopeNodes(body) == Range(Statements(body, {"block"}))

\* One for every name an import statement gives, the same one twice included.
Imports(body) == SelectSeq(Statements(body, DefinitionOps \cup {"block"}), LAMBDA n : n.op = "import")
\* Only the body of the module itself is looked at.
Exports(body) == UNION {n.names : n \in {m \in Range(body) : m.op = "all"}}

\* The symbols of a body, each with the chain of definitions around it.
\* Blocks do not count as scopes.
DefinedIn(body) == {n \in ScopeNodes(body) : n.op \in DefinitionOps}
Longer(chains) == UNION {{Append(c, d) : d \in DefinedIn(Last(c).body)} : c \in chains}
Chains(body) ==
    LET upTo[n \in 0 .. MaxNesting] ==
            IF n = 0 THEN {} ELSE {<<d>> : d \in DefinedIn(body)} \cup Longer(upTo[n - 1])
    IN upTo[MaxNesting]
Definitions(body) == {[chain |-> c, node |-> Last(c)] : c \in Chains(body)}

Kind(definition) ==
    LET chain == definition.chain
    IN IF definition.node.op = "class" THEN "class"
       ELSE IF Len(chain) > 1 /\ chain[Len(chain) - 1].op = "class" THEN "method"
       ELSE "function"

-----------------------------------------------------------------------------
(* The names of types an annotation mentions.                                 *)

Literals == {<<"Literal">>}
Annotateds == {<<"Annotated">>}
Containers == {<<"list">>, <<"Optional">>}

Mention(text, at) == [text |-> text, at |-> at]

\* What is looked at inside an annotation, and what it mentions itself.
ArgumentsOf(annotation) ==
    CASE annotation.op = "name" -> {}
      [] annotation.op = "several" -> Range(annotation.arguments)
      [] annotation.op = "subscript" ->
             IF annotation.outer \in Literals THEN {}
             ELSE IF annotation.outer \in Annotateds THEN {Head(annotation.arguments)}
             ELSE Range(annotation.arguments)
Mentions(annotation) ==
    CASE annotation.op = "name" -> {Mention(annotation.text, annotation.at)}
      [] annotation.op = "several" -> {}
      [] annotation.op = "subscript" ->
             {Mention(text, annotation.at) :
                 text \in {annotation.outer} \ (Literals \cup Annotateds \cup Containers)}

TypeNames(annotation) ==
    LET upTo[n \in 0 .. MaxNesting] ==
            IF n = 0 THEN {} ELSE {annotation} \cup UNION {ArgumentsOf(a) : a \in upTo[n - 1]}
    IN UNION {Mentions(a) : a \in upTo[MaxNesting]}

\* The base of a class is the name before its arguments.
BaseName(base) == IF base.op = "subscript" THEN base.outer ELSE base.text

AnnotatedNames(nodes) == UNION {TypeNames(n.annotation) : n \in {m \in nodes : m.op = "annotated"}}

\* The fields of a class are those of its own body, the attributes a function
\* declares may be in its blocks.  One name at one place is one reference.  Every
\* base has a place of its own, but it is then placed at the class.
TypeReference(mention) ==
    [kind |-> "type", text |-> mention.text, at |-> mention.at, evidence |-> "type", number |-> 0]
BaseReference(class, i) ==
    [kind |-> "inheritance", text |-> BaseName(class.bases[i]), at |-> class.line,
     evidence |-> Excerpt(class.bases[i]), number |-> i]
References(node) ==
    IF node.op = "class"
    THEN {BaseReference(node, i) : i \in DOMAIN node.bases}
         \cup {TypeReference(m) : m \in AnnotatedNames(Range(node.body))}
    ELSE {TypeReference(m) :
             m \in UNION {TypeNames(a) : a \in Range(node.annotations)}
                   \cup AnnotatedNames({n \in ScopeNodes(node.body) :
                                           n.op = "annotated" /\ n.attribute})}

-----------------------------------------------------------------------------
(* Measures of a scope.                                                       *)

\* What a node adds: a branch for each operand but the first, each filter, each
\* handler, each case that is not the default, and for each condition and loop.
NodeBranches(node) ==
    CASE node.kind \in {"if", "for", "while", "conditional"} -> 1
      [] node.kind = "boolean" -> node.parts - 1
      [] node.kind \in {"try", "match", "comprehension"} -> node.parts
      [] node.kind = "with" -> 0

\* Definitions inside a scope are measured on their own.
Branches(body) ==
    FoldSeq(LAMBDA node, sum :
                sum + IF node.op \in {"expression", "block"} THEN NodeBranches(node) ELSE 0,
            0, Statements(body, {"block"}))
Complexity(body) == 1 + Branches(body)

\* An empty block does not nest; every other one does, the else of an elif too.
BodyNesting(body) == Cardinality({n \in 2 .. MaxNesting : Levels(body, {"block"})[n] # <<>>})

=============================================================================

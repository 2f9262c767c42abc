----------------------------- MODULE MCSideBySide -----------------------------
(* Components that share nothing, side by side: one of them runs, the others    *)
(* stay in one of their initial states.                                         *)
EXTENDS RepositoryAnalysis, MCRelationshipGraph, StoreUpgrade, WebCrawl, WorktreeCleanup, CommandLine,
        QualityGate

VARIABLE active     \* the component that runs

-----------------------------------------------------------------------------
(* A package below src, part of it again below lib, a test, a file that may    *)
(* not be shown; the others may be missing or have one of a few texts.         *)

MCPaths == 1 .. 10
MCPartsOf == << <<"credentials">>, <<"lib", "pkg", "a">>, <<"src", "pkg", "__init__">>,
                <<"src", "pkg", "a">>, <<"src", "pkg", "sub", "__init__">>,
                <<"src", "pkg", "sub", "c">>, <<"tests", "test_a">>, <<"venv", "m">>, <<"zy">>, <<"zz">> >>
MCTraits == << {"tracked", "sensitive", "python"}, {"python"}, {"tracked", "python"},
               {"tracked", "python"}, {"tracked", "python"}, {"tracked", "python"},
               {"python"}, {"in_cached_directory", "python"},
               {"configured", "tracked", "python"}, {"gitignored", "python"} >>

Type(text, at) == [op |-> "name", text |-> text, at |-> at]
Sub(outer, at, arguments) == [op |-> "subscript", outer |-> outer, at |-> at, arguments |-> arguments]
Class(name, line, bases, body) ==
    [op |-> "class", name |-> name, line |-> line, lines |-> 2, doc |-> FALSE,
     bases |-> bases, body |-> body]
Def(name, line, doc, annotations, body) ==
    [op |-> "def", name |-> name, line |-> line, lines |-> 3, doc |-> doc,
     parameters |-> Len(annotations), annotations |-> annotations, body |-> body]
From(module, level, name, alias, at) ==
    [op |-> "import", module |-> module, name |-> name, alias |-> alias, level |-> level, at |-> at]
Block(kind, parts, blocks) == [op |-> "block", kind |-> kind, parts |-> parts, blocks |-> blocks]

MCTrees ==
    "init" :> << From(<<"a">>, 1, "A", None, 1), [op |-> "all", names |-> {"A", "C"}] >>
    @@ "base" :> << Class("A", 1, << >>, <<>>),
                    Def("run", 4, TRUE, <<Type(<<"A">>, 41), Type(<<"A">>, 42), Type(<<"C">>, 43),
                          Type(<<"pkg", "sub", "c", "C">>, 44)>>,
                        << Block("if", 0, << << Block("for", 0, << << [op |-> "expression", kind |-> "boolean", parts |-> 2] >>, <<>> >>) >>,
                                             << Block("if", 0, << <<>> >>) >> >>) >>) >>
    @@ "cyclic" :> << From(<<"sub", "c">>, 1, "C", "X", 1),
                      Class("A", 2, <<Sub(<<"X">>, 21, <<Type(<<"A">>, 22)>>)>>,
                            << Def("run", 3, FALSE, << >>, << >>) >>) >>
    @@ "empty" :> <<>>
    @@ "sub" :> << From(<<>>, 1, "c", None, 1), From(<<>>, 2, "a", "m", 2) >>
    @@ "leaf" :> << From(<<"a">>, 2, "A", "Base", 1),
                    Class("C", 2, <<Type(<<"Base">>, 21)>>, << >>),
                    Class("_D", 4, <<Type(<<"pkg", "a", "A">>, 41)>>, << >>),
                    Class("E", 6, <<Type(<<"C">>, 61)>>, << >>),
                    Def("run", 8, TRUE, << >>, << >>) >>
    @@ "twice" :> << From(<<"pkg">>, 0, "a", "m", 1), From(<<"pkg">>, 0, "a", "n", 1) >>
    @@ "alike" :> << Class("A", 1, << >>, <<>>), Class("B", 2, <<Type(<<"A">>, 21), Type(<<"A">>, 25)>>, <<>>) >>
    @@ "named" :> << Class("A", 1, << >>, <<>>),
                     Def("run", 4, FALSE, <<Type(<<"A">>, 41), Type(<<"tests", "test_a", "A">>, 41)>>, << >>) >>
    @@ "test" :> << From(<<"pkg", "a">>, 0, None, None, 1), From(<<"pkg", "sub">>, 0, "c", None, 2),
                    Def("test_c", 3, TRUE,
                        <<Sub(<<"Optional">>, 31, <<Type(<<"c", "C">>, 32), Type(<<"pkg", "a", "A">>, 33)>>)>>,
                        << >>) >>

File(text, size) == [kind |-> "file", size |-> size, text |-> text, readable |-> TRUE]
Locked == [kind |-> "file", size |-> 1, text |-> None, readable |-> FALSE]
MCContents ==
    << {File("base", 1)},
       {Absent, File("base", 1)},
       {File("init", 1), File("undecodable", 1), [kind |-> "link", size |-> 1, text |-> "init", readable |-> TRUE]},
       {File("base", 1), File("cyclic", 2), File("malformed", 1), File("empty", 1), File("alike", 1)},
       {File("sub", 1), File(Binary, 1)},
       {File("leaf", 1), File("leaf", 3), Locked, File("too deep", 1)},
       {File("test", 1), File("twice", 1), File("named", 1)},
       {File("leaf", 1)}, {File("leaf", 1)}, {File("leaf", 1)} >>
DisksUpTo[n \in 0 .. 10] ==
    IF n = 0 THEN {<<>>} ELSE {Append(d, c) : d \in DisksUpTo[n - 1], c \in MCContents[n]}
\* Files that repeat themselves, or do not parse, are tried with a few of the others only.
MCDisks ==
    {d \in DisksUpTo[10] :
        /\ d[7].text \in {"twice", "named"} \/ d[4].text = "alike"
           => d[2] = Absent /\ d[3].kind = "file" /\ d[5].text = "sub"
        /\ (\E p \in {3, 4, 6} : d[p].text \in Unparsed \cup {TooDeep}) => d[2] = Absent}
MCLinesOf == [t \in DOMAIN MCTrees |-> IF t = "base" THEN 9 ELSE 3]
MCPolicy == [moduleLines |-> 4, classLines |-> 3, functionLines |-> 2, complexity |-> 3,
             nesting |-> 1, parameters |-> 1, fanIn |-> 1, fanOut |-> 1, depth |-> 1]
MCDunder == {"__init__"}
\* What a base reads like, wherever it stands.
MCExcerpt(base) ==
    IF base.op = "name" THEN <<base.text>>
    ELSE <<base.outer, [i \in DOMAIN base.arguments |-> base.arguments[i].text]>>
MCIdPrecedes(m, n) == Precedes(m, n)

-----------------------------------------------------------------------------
(* Upgrades: databases of every version, from none to one that is too new.      *)

MCVersions == -1 .. 7
AnUpgrade == UpgradeInit /\ active = "upgrade"
NoUpgrade == file = OldDatabase(NoFile, {}, [i \in Kept |-> i]) /\ NobodyHasOpened

-----------------------------------------------------------------------------
(* A site: 1 -> 2 3; 2 -> 4; 3 -> 2 5 7; 4 -> 3 6 1; 5 is no page, 7 is another *)
(* domain, 6 ends up at 4, and 2 and 3 have the same text.                      *)

MCUrls == 1 .. 7
MCLinks == << <<2, 3>>, <<4>>, <<2, 5, 7>>, <<3, 6, 1>>, <<>>, <<>>, <<>> >>
MCText == <<"a", "b", "b", "c", "d", "e", "f">>
MCFinal == <<1, 2, 3, 4, 5, 4, 7>>
CrawlConfig(closed, limited, dedupe, depth, pages, again) ==
    [closed |-> closed, limited |-> limited, dedupe |-> dedupe, depth |-> depth, pages |-> pages,
     retries |-> 1, delay |-> 1, again |-> again]
NoCrawlConfig == CrawlConfig({1}, FALSE, FALSE, 2, Unlimited, FALSE)
MCConfigs ==
    {CrawlConfig({}, TRUE, FALSE, 2, Unlimited, FALSE), CrawlConfig({}, TRUE, TRUE, Unlimited, 3, TRUE),
     CrawlConfig({3}, FALSE, FALSE, 2, Unlimited, FALSE), NoCrawlConfig}
ACrawl == CrawlInit /\ active = "crawl"
NoCrawl == config = NoCrawlConfig /\ CrawlInit

-----------------------------------------------------------------------------
(* What a worktree may have left: a directory with a file, and a link or git's  *)
(* metadata; or nothing.                                                        *)

MCEntries == <<"dir", "dir/file", "git", "link">>
MCParentOf == [p \in {"dir", "dir/file", "git", "link"} |-> IF p = "dir/file" THEN "dir" ELSE "root"]
Residual(root, dir, inside, metadata, link) ==
    [p \in {"root", "dir", "dir/file", "git", "link"} |->
        CASE p = "root" -> root [] p = "dir" -> dir [] p = "dir/file" -> inside
          [] p = "git" -> metadata [] OTHER -> link]
MCAppearing == {Nothing, Directory, Link, TextFile(1), TextFile(2)}
NoResidual == Residual(Nothing, Nothing, Nothing, Nothing, Nothing)
MCResiduals ==
    {Residual(Directory, Directory, TextFile(1), Nothing, Link),
     Residual(Directory, Directory, TextFile(1), Directory, Nothing), NoResidual}
ACleanup == CleanupInit /\ active = "cleanup"
NoCleanup == tree = NoResidual /\ git = [registered |-> FALSE, head |-> 1] /\ CleanupInit

-----------------------------------------------------------------------------
(* Two commands, mostly reports, with every layer of the configuration, every   *)
(* kind of source, and everything that may be wrong with an invocation.         *)

MCSettings == {"report_fail_on", "report_redact", "telemetry_enabled"}
Values(policy, redact, telemetry) ==
    [k \in MCSettings |->
        CASE k = "report_fail_on" -> policy [] k = "report_redact" -> redact [] OTHER -> telemetry]
MCDefaults == Values("never", FALSE, FALSE)
Sources(command, input, stdin) == [command |-> command, input |-> input, stdin |-> stdin]
StatusFailed == Log("failed", FALSE, FALSE, FALSE)
TestsFailed == Log("passed", FALSE, TRUE, FALSE)
Warned == Log("passed", FALSE, FALSE, TRUE)
Passed == Log("passed", FALSE, FALSE, FALSE)
AReport ==
    [command |-> "report", file |-> Values("warnings", TRUE, Unset),
     overrides |-> Values("errors", Unset, Unset), flags |-> Values(Unset, Unset, Unset),
     extension |-> "none", source |-> Sources(Unset, StatusFailed, Passed), output |-> TRUE,
     directory |-> FALSE]
Served == Values(Unset, Unset, TRUE)
MCInvocations ==
    {AReport,
     [AReport EXCEPT !.source.input = Warned],
     [AReport EXCEPT !.overrides = Values(Unset, FALSE, TRUE), !.source.input = Warned],
     [AReport EXCEPT !.source.input = Invalid, !.flags = Served],
     [AReport EXCEPT !.flags = Values("never", Unset, TRUE), !.source.command = TestsFailed],
     [AReport EXCEPT !.source = Sources(Unset, Unset, Passed), !.output = FALSE],
     [AReport EXCEPT !.source = Sources(Unset, Unset, Unset)],
     [AReport EXCEPT !.source.command = Fails, !.flags = Served],
     [AReport EXCEPT !.file = Broken], [AReport EXCEPT !.file = Garbled],
     [AReport EXCEPT !.overrides = Values(Broken, Unset, Unset)],
     [AReport EXCEPT !.extension = "fails"], [AReport EXCEPT !.directory = TRUE],
     [AReport EXCEPT !.command = "collect"], [AReport EXCEPT !.command = "unknown"],
     [AReport EXCEPT !.command = "diagnostics", !.flags = Served],
     [AReport EXCEPT !.command = "diagnostics", !.output = FALSE]}
ACommand == CommandInit /\ active = "command"
NoCommand ==
    /\ process = [p \in Processes |->
          [at |-> "configure", invocation |-> AReport, config |-> Defaults, log |-> NoLog,
           bundle |-> NoBundle, code |-> 0, raised |-> FALSE, counted |-> "no", printed |-> FALSE,
           written |-> FALSE]]
    /\ CommandInit

-----------------------------------------------------------------------------
MCProfiles == {<<"lint", "packaged-workspace", "tests">>, <<"packaged-workspace", "tests", "wheel">>}
AGate == GateInit /\ active = "gate"

AGraph == Init /\ active = "graph"
NoGraph == edges = {} /\ Init

AnAnalysis == AnalysisInit /\ active = "analysis"
ADisk == CHOOSE d \in MCDisks : TRUE
NoAnalysis == checkout = ADisk /\ inGit = FALSE /\ AnalysisInit

\* The component that runs comes last, so that TLC works out the others once.
SideBySideInit ==
    \/ NoUpgrade /\ NoCrawl /\ NoCleanup /\ NoCommand /\ GateInit /\ NoAnalysis /\ AGraph
    \/ NoGraph /\ NoCrawl /\ NoCleanup /\ NoCommand /\ GateInit /\ NoAnalysis /\ AnUpgrade
    \/ NoGraph /\ NoUpgrade /\ NoCleanup /\ NoCommand /\ GateInit /\ NoAnalysis /\ ACrawl
    \/ NoGraph /\ NoUpgrade /\ NoCrawl /\ NoCommand /\ GateInit /\ NoAnalysis /\ ACleanup
    \/ NoGraph /\ NoUpgrade /\ NoCrawl /\ NoCleanup /\ GateInit /\ NoAnalysis /\ ACommand
    \/ NoGraph /\ NoUpgrade /\ NoCrawl /\ NoCleanup /\ NoCommand /\ NoAnalysis /\ AGate
    \/ NoGraph /\ NoUpgrade /\ NoCrawl /\ NoCleanup /\ NoCommand /\ GateInit /\ AnAnalysis

SideBySideNext ==
    /\ UNCHANGED active
    /\ \/ active = "graph" /\ Next
          /\ UNCHANGED <<repositoryVars, upgradeVars, crawlVars, cleanupVars, commandVars, gateVars>>
       \/ active = "analysis" /\ AnalysisNext
          /\ UNCHANGED <<vars, upgradeVars, crawlVars, cleanupVars, commandVars, gateVars>>
       \/ active = "upgrade" /\ UpgradeNext
          /\ UNCHANGED <<repositoryVars, vars, crawlVars, cleanupVars, commandVars, gateVars>>
       \/ active = "crawl" /\ CrawlNext
          /\ UNCHANGED <<repositoryVars, vars, upgradeVars, cleanupVars, commandVars, gateVars>>
       \/ active = "cleanup" /\ CleanupNext
          /\ UNCHANGED <<repositoryVars, vars, upgradeVars, crawlVars, commandVars, gateVars>>
       \/ active = "command" /\ CommandNext
          /\ UNCHANGED <<repositoryVars, vars, upgradeVars, crawlVars, cleanupVars, gateVars>>
       \/ active = "gate" /\ GateNext
          /\ UNCHANGED <<repositoryVars, vars, upgradeVars, crawlVars, cleanupVars, commandVars>>

SideBySide ==
    SideBySideInit /\ [][SideBySideNext]_<<active, repositoryVars, vars, upgradeVars, crawlVars, cleanupVars, commandVars, gateVars>>
=============================================================================

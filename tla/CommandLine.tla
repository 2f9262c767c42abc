------------------------------ MODULE CommandLine ------------------------------
(* Invocations of the zscripts command (zscripts/cli.py) with the services       *)
(* behind it: configuration, extensions, telemetry, log collection, reports and  *)
(* their files.  Several processes run at once on one machine: they share the     *)
(* port of the health server and the file that reports are written to.            *)
EXTENDS Integers

CONSTANTS
    Processes,
    Invocations,    \* [command, file, overrides, flags, extension, source, output, directory]
    Settings,       \* the configuration keys that are modelled
    Defaults,       \* [Settings -> values]
    Unset,          \* an option or key that is not given
    Broken,         \* a value that cannot be coerced, a file that cannot be parsed
    Garbled,        \* a file that cannot be decoded
    Invalid, Fails  \* a source that is refused (ValueError), and one that fails otherwise

\* Every setting has a default.
ASSUME CommandAssumption ==
    /\ {"report_fail_on", "report_redact", "telemetry_enabled"} \subseteq Settings
    /\ \A k \in Settings : Defaults[k] # Unset
    /\ Unset \notin Processes

VARIABLES
    process,    \* [Processes -> [at, invocation, config, log, bundle, code, raised, counted, printed, written]]
    port,       \* the process whose health server listens, or Unset
    files        \* [output : what the destination holds, temporary : [Processes -> what the
                \*  temporary file of the process holds]]

commandVars == <<process, port, files>>

-----------------------------------------------------------------------------
(* The configuration: defaults, then the file, then the overrides, then flags.   *)

\* _apply_config_values.
ApplyConfigValues(config, values) ==
    [k \in Settings |-> IF values[k] = Unset THEN config[k] ELSE values[k]]

LoadToolkitConfig(i) == ApplyConfigValues(ApplyConfigValues(Defaults, i.file), i.overrides)

ConfigurationError(i) ==
    i.file = Broken \/ \E k \in Settings : Broken \in {i.file[k], i.overrides[k]}

\* What holds for a run: the flag of the command, or the configuration.
InForce(p, k) ==
    LET flag == process[p].invocation.flags[k]
    IN IF flag = Unset THEN process[p].config[k] ELSE flag

-----------------------------------------------------------------------------
(* Logs, reports and their severity.                                             *)

\* A parsed log: its status, and whether it has errors, failed tests, warnings.
Log(status, errors, failed, warnings) ==
    [status |-> status, errors |-> errors, failed |-> failed, warnings |-> warnings]
NoLog == Log("none", FALSE, FALSE, FALSE)

\* evaluate_report_severity.
Severity(log) ==
    IF log.status \in {"failed", "error", "failure", "fatal"} \/ log.errors \/ log.failed THEN "error"
    ELSE IF log.warnings \/ log.status \in {"warning", "warn", "warnings"} THEN "warning"
    ELSE "ok"

\* _redact_normalized_log keeps counts and the number of issues; every text, and
\* the status is one, may be replaced.
Redacted(log) == [log EXCEPT !.status = "[REDACTED]"]

Bundle(log, severity) == [log |-> log, severity |-> severity]
NoBundle == Bundle(NoLog, "none")

BugGenerateReport(log, redact) ==
    LET shown == IF redact THEN Redacted(log) ELSE log IN Bundle(shown, Severity(shown))
GenerateReport(log, redact) == Bundle(IF redact THEN Redacted(log) ELSE log, Severity(log))

\* _should_fail.
Level(severity) == CASE severity = "ok" -> 0 [] severity = "warning" -> 1 [] OTHER -> 2
Threshold(policy) == CASE policy = "warnings" -> 1 [] policy = "errors" -> 2 [] OTHER -> 4
ShouldFail(policy, severity) == Level(severity) >= Threshold(policy)

\* _collect_from_source: a command comes before a path, a path before what is
\* piped.  A source is Unset, a log, Invalid, or Fails (the command is not there,
\* runs out of time, or may not run there).
CollectFromSource(source) ==
    IF source.command # Unset THEN source.command
    ELSE IF source.input # Unset THEN source.input
    ELSE IF source.stdin # Unset THEN source.stdin
    ELSE Invalid

-----------------------------------------------------------------------------
(* The life of a process.                                                        *)

NoText == [by |-> Unset, whole |-> TRUE]
Whole(p) == [by |-> p, whole |-> TRUE]
Partial(p) == [by |-> p, whole |-> FALSE]

CommandInit ==
    /\ process \in [Processes ->
           {[at |-> "configure", invocation |-> i, config |-> Defaults, log |-> NoLog, bundle |-> NoBundle,
             code |-> 0, raised |-> FALSE, counted |-> "no", printed |-> FALSE, written |-> FALSE] :
                i \in Invocations}]
    /\ port = Unset
    /\ files = [output |-> NoText, temporary |-> [p \in Processes |-> NoText]]

At(p, places) == process[p].at \in places
Step(p, at) == process' = [process EXCEPT ![p].at = at]

\* How a process ends before anything is under way.
End(p, code, raised, counted) ==
    process' = [process EXCEPT ![p] = [@ EXCEPT !.at = "ended", !.code = code, !.raised = raised,
                                                !.counted = counted]]

\* The health server lets go of its port.
StopTelemetry(p) == port' = IF port = p THEN Unset ELSE port

EndRun(p, code, raised, status) ==
    /\ End(p, code, raised, status)
    /\ StopTelemetry(p)

Configure(p) ==
    /\ At(p, {"configure"})
    /\ LET i == process[p].invocation
       IN IF i.file = Garbled THEN End(p, 1, TRUE, "no")
          ELSE IF ConfigurationError(i) THEN End(p, 2, FALSE, "no")
          ELSE process' = [process EXCEPT ![p].at = "extend", ![p].config = LoadToolkitConfig(i)]
    /\ UNCHANGED <<port, files>>

\* load_extensions: an extension that cannot be imported or loaded ends the run;
\* what its other callbacks raise is caught.
LoadExtensions(p) ==
    /\ At(p, {"extend"})
    /\ IF process[p].invocation.extension = "fails" THEN End(p, 1, TRUE, "no") ELSE Step(p, "parse")
    /\ UNCHANGED <<port, files>>

ParseArguments(p) ==
    /\ At(p, {"parse"})
    /\ IF process[p].invocation.command = "unknown" THEN End(p, 2, FALSE, "error") ELSE Step(p, "start")
    /\ UNCHANGED <<port, files>>

\* TelemetryManager.start; a port that is taken ends the run, uncounted.
StartTelemetry(p) ==
    /\ At(p, {"start"})
    /\ IF ~InForce(p, "telemetry_enabled") THEN Step(p, "collect") /\ UNCHANGED port
       ELSE IF port = Unset THEN Step(p, "collect") /\ port' = p
       ELSE End(p, 1, TRUE, "no") /\ UNCHANGED port
    /\ UNCHANGED files

\* _collect_raw_logs, which diagnostics do not need.
Collect(p) ==
    /\ At(p, {"collect"})
    /\ LET i == process[p].invocation
           collected == CollectFromSource(i.source)
       IN IF i.command = "diagnostics" THEN Step(p, "render") /\ UNCHANGED port
          ELSE CASE collected = Invalid -> EndRun(p, 2, FALSE, "error")
                 [] collected = Fails -> EndRun(p, 1, TRUE, "error")
                 [] OTHER -> /\ process' = [process EXCEPT ![p].at = "render", ![p].log = collected]
                             /\ UNCHANGED port
    /\ UNCHANGED files

\* A diagnosis goes to its file or to standard output, a report to both.
OnlyToFile(i) == i.command = "diagnostics" /\ i.output

\* The handler works out what it shows.
Render(p) ==
    /\ At(p, {"render"})
    /\ LET i == process[p].invocation
       IN process' = [process EXCEPT
            ![p].bundle = IF i.command = "report"
                          THEN GenerateReport(process[p].log, InForce(p, "report_redact")) ELSE @,
            ![p].at = IF OnlyToFile(i) THEN "prepare" ELSE "print"]
    /\ UNCHANGED <<port, files>>

PrintOut(p) ==
    /\ At(p, {"print"})
    /\ process' = [process EXCEPT ![p].printed = TRUE,
                                  ![p].at = IF process[p].invocation.command = "report" /\ process[p].invocation.output
                                            THEN "prepare" ELSE "decide"]
    /\ UNCHANGED <<port, files>>

\* The log cannot be parsed or shown (a ValueError or any other).
RenderFails(p, code) ==
    /\ At(p, {"render", "print"})
    /\ EndRun(p, code, code = 1, "error")
    /\ UNCHANGED files

-----------------------------------------------------------------------------
(* The file, _atomic_write.                                                      *)

\* Where the text is written before the file has its name.
BugPut(p, content) == files' = [files EXCEPT !.output = content]
Put(p, content) == files' = [files EXCEPT !.temporary[p] = content]

\* prepare_output_path.
PreparePath(p) ==
    /\ At(p, {"prepare"})
    /\ IF process[p].invocation.directory THEN EndRun(p, 2, FALSE, "error")
       ELSE Step(p, "open") /\ UNCHANGED port
    /\ UNCHANGED files

OpenTemporary(p) ==
    /\ At(p, {"open"})
    /\ Step(p, "name")
    /\ Put(p, Partial(p))
    /\ UNCHANGED port

\* The temporary file is there before the writer knows its name.
NameTemporary(p) ==
    /\ At(p, {"name"})
    /\ Step(p, "write")
    /\ UNCHANGED <<port, files>>

WriteTemporary(p) ==
    /\ At(p, {"write"})
    /\ Step(p, "replace")
    /\ Put(p, Whole(p))
    /\ UNCHANGED port

Replace(p) ==
    /\ At(p, {"replace"})
    /\ process' = [process EXCEPT ![p] = [@ EXCEPT !.at = "decide", !.written = TRUE]]
    /\ files' = [files EXCEPT !.output = IF files.temporary[p] = NoText THEN @ ELSE files.temporary[p],
                            !.temporary[p] = NoText]
    /\ UNCHANGED port

\* The finally of the writing: a temporary file of which the name is known is
\* removed, unless that fails as well, which is ignored.
CleanUp(p) ==
    \/ UNCHANGED files
    \/ At(p, {"write", "replace"}) /\ files' = [files EXCEPT !.temporary[p] = NoText]

\* Any step of the writing fails.
WriteFails(p) ==
    /\ At(p, {"open", "write", "replace"})
    /\ EndRun(p, 2, FALSE, "error")
    /\ CleanUp(p)

-----------------------------------------------------------------------------
(* The end.                                                                      *)

ReturnCode(p) ==
    /\ At(p, {"decide"})
    /\ LET fails == process[p].invocation.command = "report"
                    /\ ShouldFail(InForce(p, "report_fail_on"), process[p].bundle.severity)
       IN EndRun(p, IF fails THEN 1 ELSE 0, FALSE, IF fails THEN "error" ELSE "success")
    /\ UNCHANGED files

UnderWay == {"collect", "render", "print", "prepare", "open", "name", "write", "replace", "decide"}

\* Ctrl-C is caught by nothing; finally counts the run with the status it began with.
Interrupt(p) ==
    /\ At(p, UnderWay)
    /\ EndRun(p, 130, TRUE, "success")
    /\ CleanUp(p)

Die(p) ==
    /\ At(p, UnderWay)
    /\ Step(p, "dead")
    /\ StopTelemetry(p)
    /\ UNCHANGED files

CommandNext ==
    \E p \in Processes :
        \/ Configure(p) \/ LoadExtensions(p) \/ ParseArguments(p) \/ StartTelemetry(p)
        \/ Collect(p) \/ Render(p) \/ PrintOut(p) \/ RenderFails(p, 1) \/ RenderFails(p, 2)
        \/ PreparePath(p) \/ OpenTemporary(p) \/ NameTemporary(p) \/ WriteTemporary(p) \/ Replace(p) \/ WriteFails(p)
        \/ ReturnCode(p) \/ Interrupt(p) \/ Die(p)

CommandSpec == CommandInit /\ [][CommandNext]_commandVars

-----------------------------------------------------------------------------
(* Properties.                                                                   *)

\* The value a user asked for: the last of defaults, file, overrides and flag that
\* says anything.
Asked(i, k) ==
    LET layers == <<Defaults[k], i.file[k], i.overrides[k], i.flags[k]>>
        last == CHOOSE n \in 1 .. 4 : layers[n] # Unset /\ \A m \in n + 1 .. 4 : layers[m] = Unset
    IN layers[last]

\* The exit code of a report can be relied on by a pipeline: 0 and 1 (without a
\* traceback) say that the report is printed and, when asked for, in its file, and
\* which of the two is decided by the log as it was collected and the policy the
\* user asked for, whatever is redacted.
ExitCodeIsTruthful ==
    \A p \in Processes :
        LET i == process[p].invocation
        IN At(p, {"ended"}) /\ i.command = "report" /\ ~process[p].raised /\ process[p].code \in {0, 1} =>
              /\ process[p].printed /\ (i.output => process[p].written)
              /\ process[p].code = 1 <=>
                    ShouldFail(Asked(i, "report_fail_on"), Severity(CollectFromSource(i.source)))

\* However the writers of one file interleave, fail, are interrupted or die, it
\* holds the whole text of one of them.  A temporary file is left beside it by none
\* that wrote its text, and by one that ended only if it says that it failed (2) or
\* was interrupted (130): _atomic_write leaves what it cannot remove or name.
OutputFilesAreWhole ==
    /\ files.output.whole
    /\ \A p \in Processes :
          /\ At(p, {"ended"}) /\ files.temporary[p] # NoText => process[p].code \in {2, 130}
          /\ process[p].written => files.output # NoText /\ files.temporary[p] = NoText

\* The health server ends with its command, whichever way that ends, so the next
\* command can have the port; a run that was served is counted.
TelemetryEndsWithTheCommand ==
    /\ port # Unset => At(port, UnderWay)
    /\ \A p \in Processes : At(p, {"ended"}) /\ process[p].printed => process[p].counted # "no"

\* Whichever way a command ends, it leaves whole files and no server, and a temporary
\* file only beside a failure.
CommandsEndClean == OutputFilesAreWhole /\ TelemetryEndsWithTheCommand

=============================================================================

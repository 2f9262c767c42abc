-------------------------- MODULE RepositoryDiscovery --------------------------
(* The discovery of the files of a repository (zscripts/infrastructure/        *)
(* repository_discovery.py).  A path is a number, in the order the code sorts  *)
(* by.  What its names say about it is fixed (Traits); what is found there is  *)
(* read from a checkout that others may write while the scan goes on: the size *)
(* is taken first, the bytes are read in a later step.                         *)
EXTENDS Integers, FiniteSets, Sequences, SequencesExt

CONSTANTS
    Paths,              \* paths below the root, as their order
    Traits,             \* [Paths -> SUBSET STRING]: what the names of a path match
    Contents,           \* [Paths -> sets of what may be found at a path]
    Disks,              \* what may be found at the start
    MaxFiles, MaxFileSize, MaxTotalBytes,         \* ScanLimits
    MaxEdits,           \* bound: writes by others during the scan
    None

ASSUME DiscoveryAssumption ==
    /\ Paths \subseteq Nat /\ IsFiniteSet(Paths)
    /\ \A d \in Disks : DOMAIN d = Paths /\ \A p \in Paths : d[p] \in Contents[p]
    /\ {MaxFiles, MaxFileSize, MaxTotalBytes} \subseteq Nat \ {0}

\* What is found at a path: a file, a link to one, something else or nothing.
\* text stands for the bytes; the two values below are not Python.
Absent == [kind |-> "absent", size |-> 0, text |-> None, readable |-> FALSE]
Binary == "binary"

VARIABLES
    checkout,       \* [Paths -> what is found there]
    edits,
    inGit,          \* whether a .git was found in the root or above it
    stage,          \* "list", "inspect", "discovered", "cancelled" or "failed"
    candidates,     \* paths still to inspect
    reading,        \* the path whose bytes are read next, with its size, or None
    records,        \* path -> FileRecord and bytes
    curtailed, diagnostics

discoveryVars == <<checkout, edits, inGit, stage, candidates, reading, records,
                   curtailed, diagnostics>>

Diagnostic(code, path) == [code |-> code, path |-> path]

DiscoveryInit ==
    /\ checkout \in Disks
    /\ edits = 0 /\ inGit \in BOOLEAN
    /\ stage = "list" /\ candidates = {} /\ reading = None
    /\ records = <<>> /\ curtailed = FALSE /\ diagnostics = {}

\* Somebody writes a file of the repository.
Edit(p) ==
    /\ stage \in {"list", "inspect"} /\ edits < MaxEdits
    /\ edits' = edits + 1
    /\ \E found \in Contents[p] \ {checkout[p]} : checkout' = [checkout EXCEPT ![p] = found]
    /\ UNCHANGED <<inGit, stage, candidates, reading, records, curtailed, diagnostics>>

-----------------------------------------------------------------------------
(* Which paths are looked at.                                                 *)

\* git ls-files: what is tracked, also when it is deleted, and what is not ignored.
GitCandidates ==
    {p \in Paths : \/ "tracked" \in Traits[p]
                   \/ checkout[p].kind # "absent" /\ "gitignored" \notin Traits[p]}

\* os.walk leaves out directories by name, by configuration and when they are
\* links; a diagnostic names each.
Pruned == {"in_cached_directory", "in_configured_directory", "in_linked_directory"}
WalkCandidates == {p \in Paths : checkout[p].kind # "absent" /\ Traits[p] \cap Pruned = {}}
DirectoryDiagnostics ==
    {Diagnostic(reason, None) :
        reason \in UNION {Traits[p] \cap Pruned : p \in {q \in Paths : checkout[q].kind # "absent"}}}

List ==
    /\ stage = "list"
    /\ stage' = "inspect"
    /\ candidates' = IF inGit THEN GitCandidates ELSE WalkCandidates
    /\ diagnostics' = IF inGit THEN {} ELSE DirectoryDiagnostics
    /\ UNCHANGED <<checkout, edits, inGit, reading, records, curtailed>>

\* git answers with an error or not in time.
GitFails ==
    /\ stage = "list" /\ inGit
    /\ stage' = "failed"
    /\ UNCHANGED <<checkout, edits, inGit, candidates, reading, records, curtailed, diagnostics>>

-----------------------------------------------------------------------------
(* What becomes of one of them.                                               *)

\* The reasons to leave a path out unread, in the order they are tried.  The
\* patterns of .gitignore are only read where git does not apply them.
PreReadExclusions(p) ==
    LET found == checkout[p]
    IN << <<"sensitive", "sensitive" \in Traits[p]>>,
          <<"generated_or_cached", "in_cached_directory" \in Traits[p]>>,
          <<"configured", "configured" \in Traits[p]>>,
          <<"gitignored", ~inGit /\ "gitignored" \in Traits[p]>>,
          <<"symlink_unresolved", found.kind = "broken link">>,
          <<"symlink_escape", found.kind = "link out">>,
          <<"symlink", found.kind = "link">>,
          <<"unsupported_language", "python" \notin Traits[p]>>,
          <<"not_regular_file", found.kind = "directory">> >>

PreReadExclusion(p) ==
    LET tried == PreReadExclusions(p)
        hits == {i \in DOMAIN tried : tried[i][2]}
    IN IF hits = {} THEN None ELSE tried[Min(hits)][1]

Included == {p \in DOMAIN records : records[p].included}
IncludedBytes == FoldSet(LAMBDA p, sum : sum + records[p].size, 0, Included)

Excluded(p, size, reason) ==
    [included |-> FALSE, reason |-> reason, size |-> size, text |-> None]

\* The limit a file of this size meets; later, smaller files may still fit.
LimitMet(size) ==
    IF size > MaxFileSize THEN "file_size_limit"
    ELSE IF Cardinality(Included) >= MaxFiles THEN "file_count_limit"
    ELSE IF IncludedBytes + size > MaxTotalBytes THEN "total_byte_limit"
    ELSE None

\* The diagnostics of the two limits of the whole scan name no path: they are
\* the same however often they are met.
LimitDiagnostic(limit, p) == Diagnostic(limit, IF limit = "file_size_limit" THEN p ELSE None)

BugLimitTruncates(limit) == limit # "total_byte_limit"
LimitTruncates(limit) == TRUE

Record(p, record) == records' = [q \in DOMAIN records \cup {p} |->
                                    IF q = p THEN record ELSE records[q]]

\* One candidate after the other, in the order of the paths.
Inspecting(p) ==
    /\ stage = "inspect" /\ reading = None
    /\ p \in candidates /\ \A q \in candidates : p <= q
    /\ candidates' = candidates \ {p}
    /\ UNCHANGED <<checkout, edits, inGit, stage>>

InspectMissing(p) ==
    /\ Inspecting(p) /\ checkout[p].kind = "absent"
    /\ Record(p, Excluded(p, 0, "unreadable"))
    /\ diagnostics' = diagnostics \cup {Diagnostic("DISCOVERY_UNREADABLE", p)}
    /\ UNCHANGED <<reading, curtailed>>

LeaveOut(p) ==
    /\ Inspecting(p) /\ checkout[p].kind # "absent" /\ PreReadExclusion(p) # None
    /\ Record(p, Excluded(p, checkout[p].size, PreReadExclusion(p)))
    /\ UNCHANGED <<reading, curtailed, diagnostics>>

MeetLimit(p) ==
    /\ Inspecting(p) /\ checkout[p].kind # "absent" /\ PreReadExclusion(p) = None
    /\ LET limit == LimitMet(checkout[p].size)
       IN /\ limit # None
          /\ Record(p, Excluded(p, checkout[p].size, limit))
          /\ curtailed' = (curtailed \/ LimitTruncates(limit))
          /\ diagnostics' = diagnostics \cup {LimitDiagnostic(limit, p)}
    /\ UNCHANGED reading

Open(p) ==
    /\ Inspecting(p) /\ checkout[p].kind # "absent" /\ PreReadExclusion(p) = None
    /\ LimitMet(checkout[p].size) = None
    /\ reading' = [path |-> p, size |-> checkout[p].size]
    /\ UNCHANGED <<records, curtailed, diagnostics>>

\* The size of the record stays the one that was taken before.
Read ==
    /\ stage = "inspect" /\ reading # None
    /\ reading' = None
    /\ LET p == reading.path
           found == checkout[p]
       IN IF ~found.readable
          THEN /\ Record(p, Excluded(p, reading.size, "unreadable"))
               /\ diagnostics' = diagnostics \cup {Diagnostic("DISCOVERY_UNREADABLE", p)}
          ELSE /\ Record(p, IF found.text = Binary THEN Excluded(p, reading.size, "binary")
                            ELSE [included |-> TRUE, reason |-> None,
                                  size |-> reading.size, text |-> found.text])
               /\ UNCHANGED diagnostics
    /\ UNCHANGED <<checkout, edits, inGit, stage, candidates, curtailed>>

Discovered ==
    /\ stage = "inspect" /\ reading = None /\ candidates = {}
    /\ stage' = "discovered"
    /\ UNCHANGED <<checkout, edits, inGit, candidates, reading, records, curtailed, diagnostics>>

\* The cancellation is looked at before each candidate.
CancelDiscovery ==
    /\ stage = "inspect" /\ reading = None /\ candidates # {}
    /\ stage' = "cancelled"
    /\ UNCHANGED <<checkout, edits, inGit, candidates, reading, records, curtailed, diagnostics>>

Discover ==
    \/ \E p \in Paths : Edit(p) \/ InspectMissing(p) \/ LeaveOut(p) \/ MeetLimit(p) \/ Open(p)
    \/ List \/ GitFails \/ Read \/ Discovered \/ CancelDiscovery

=============================================================================

--------------------------- MODULE WorktreeCleanup ---------------------------
(* The removal of what is left of a worktree, scripts/                          *)
(* worktree_residual_cleanup.py: an inventory, a review, and an application      *)
(* that removes the reviewed entries one by one while other processes go on      *)
(* changing the directory.                                                       *)
EXTENDS Integers, Sequences, SequencesExt

CONSTANTS
    Entries,        \* paths below the root, in the order of their names
    ResidualRoot,
    ParentOf,       \* [Entries -> paths]
    GitPath,        \* the path that holds git's metadata
    Residuals,      \* trees an unregistered worktree may have left
    Appearing,      \* what other processes may put at a path
    MaxChanges,     \* changes by other processes
    MaxApplies

Below == Range(Entries)
EntryPaths == Below \cup {ResidualRoot}

VARIABLES
    tree,       \* path -> what is there; below a link, nothing
    elsewhere,  \* what is at the path below the directory that links lead to
    git,        \* [registered : is the root a worktree of git, head : of the preservation ref]
    manifest,   \* the inventory under review
    cleaner,    \* [at, todo, depth] : at is "idle", "validate", "read", "remove", or how
                \* it ended; depth is that of the next directory to look at
    removed,    \* what the application has removed, where, and what of it was fresh
    looked,     \* paths that were looked at for the entry in hand, unchanged since
    changes, applies

cleanupVars == <<tree, elsewhere, git, manifest, cleaner, removed, looked, changes, applies>>

Nothing == [kind |-> "absent", content |-> 0]
Directory == [kind |-> "directory", content |-> 0]
Link == [kind |-> "reparse", content |-> 0]
TextFile(content) == [kind |-> "file", content |-> content]

NoManifest == [entries |-> [p \in Below |-> Nothing], exists |-> FALSE, registered |-> TRUE,
               approved |-> FALSE, head |-> 0]

CleanupInit ==
    /\ tree \in Residuals
    /\ elsewhere = [p \in EntryPaths |-> IF p = ResidualRoot THEN Directory ELSE tree[p]]
    /\ git \in [registered : BOOLEAN, head : {1}]
    /\ manifest = NoManifest
    /\ cleaner = [at |-> "idle", todo |-> <<>>, depth |-> 0]
    /\ removed = {} /\ looked = {}
    /\ changes = 0 /\ applies = 0

-----------------------------------------------------------------------------
(* Paths.                                                                      *)

Ancestors[p \in EntryPaths] ==
    IF p = ResidualRoot THEN {} ELSE {ParentOf[p]} \cup Ancestors[ParentOf[p]]
EntryDepth[p \in EntryPaths] == IF p = ResidualRoot THEN 0 ELSE 1 + EntryDepth[ParentOf[p]]

PlainChain(p) == \A a \in Ancestors[p] : tree[a].kind = "directory"
\* What the operating system finds under a path.
Outside(p) == \E a \in Ancestors[p] : tree[a].kind = "reparse"
Lookup(p) == IF Outside(p) THEN elsewhere[p] ELSE tree[p]

\* Paths are those of a tree, and what was left lies below directories.
ASSUME CleanupAssumption ==
    /\ MaxChanges \in Nat /\ MaxApplies \in Nat
    /\ Ancestors[ResidualRoot] = {}
    /\ \A p \in EntryPaths :
          /\ p \notin Ancestors[p] /\ Ancestors[p] \subseteq EntryPaths
          /\ \A a \in Ancestors[p] : Ancestors[a] \subseteq Ancestors[p]
    /\ \A t \in Residuals :
          /\ t = [p \in EntryPaths |-> t[p]]
          /\ \A p \in EntryPaths :
                t[p].kind # "absent" => \A a \in Ancestors[p] : t[a].kind = "directory"

\* scan_entries.
Scan == [p \in Below |-> tree[p]]
RootExists == tree[ResidualRoot].kind # "absent"
\* _assert_plain_root, _assert_plain_owned_chain.
PlainRoot == tree[ResidualRoot].kind \in {"directory", "absent"}

-----------------------------------------------------------------------------
(* The inventory and its review.                                               *)

BuildInventory ==
    /\ cleaner.at = "idle" /\ applies < MaxApplies
    /\ PlainRoot
    /\ manifest' = [entries |-> Scan, exists |-> RootExists, registered |-> git.registered,
                    approved |-> FALSE, head |-> 0]
    /\ removed' = {}
    /\ UNCHANGED <<tree, elsewhere, git, cleaner, looked, changes, applies>>

Approve ==
    /\ manifest # NoManifest /\ ~manifest.approved
    /\ manifest' = [manifest EXCEPT !.approved = TRUE, !.head = git.head]
    /\ UNCHANGED <<tree, elsewhere, git, cleaner, removed, looked, changes, applies>>

-----------------------------------------------------------------------------
(* The application.                                                            *)

\* What the review wants kept still has its commit.
Preserved == manifest.head = git.head
\* The directory is what was reviewed.
LiveRecordsMatch == Scan = manifest.entries

ApplyGates ==
    /\ ~manifest.registered
    /\ PlainRoot
    /\ manifest.approved
    /\ Preserved
    /\ ~git.registered
    /\ ~manifest.exists => ~RootExists
    /\ RootExists => /\ manifest.entries[GitPath] = Nothing
                     /\ LiveRecordsMatch

OfKind(kinds, depth) ==
    SelectSeq(Entries, LAMBDA p : manifest.entries[p].kind \in kinds /\ EntryDepth[p] = depth)
DeepestFirst(kinds) ==
    LET deepest == Len(Entries)
    IN FlattenSeq([k \in 1 .. deepest |-> OfKind(kinds, deepest + 1 - k)])

ApplyManifest ==
    /\ cleaner.at = "idle" /\ applies < MaxApplies /\ manifest # NoManifest
    /\ applies' = applies + 1
    /\ cleaner' =
          IF ~ApplyGates THEN [at |-> "refused", todo |-> <<>>, depth |-> 0]
          ELSE IF ~RootExists THEN [at |-> "already-absent", todo |-> <<>>, depth |-> 0]
          ELSE [at |-> "validate", depth |-> 0,
                todo |-> DeepestFirst({"file", "reparse"}) \o DeepestFirst({"directory"})]
    /\ removed' = {} /\ looked' = {}
    /\ UNCHANGED <<tree, elsewhere, git, manifest, changes>>

IsInHand(p) == cleaner.todo # <<>> /\ p = Head(cleaner.todo)
Stop == cleaner' = [cleaner EXCEPT !.at = "stopped"]

\* _assert_plain_directory_chain: the root and every directory above the entry,
\* one after the other, without following a link in its last place.
BugPlainDirectory(d) == Lookup(d).kind \in {"directory", "reparse"}
PlainDirectory(d) == Lookup(d).kind = "directory"

CheckDirectory(p) ==
    /\ cleaner.at = "validate" /\ IsInHand(p)
    /\ \E d \in Ancestors[p] :
         /\ EntryDepth[d] = cleaner.depth
         /\ looked' = looked \cup {d}
         /\ IF PlainDirectory(d) THEN cleaner' = [cleaner EXCEPT !.depth = @ + 1] ELSE Stop
    /\ UNCHANGED <<tree, elsewhere, git, manifest, removed, changes, applies>>

\* _revalidate, the type of the entry; a directory needs no more.
StatEntry(p) ==
    /\ cleaner.at = "validate" /\ IsInHand(p) /\ cleaner.depth = EntryDepth[p]
    /\ IF Lookup(p).kind # manifest.entries[p].kind THEN Stop /\ UNCHANGED looked
       ELSE IF Lookup(p).kind = "directory"
       THEN cleaner' = [cleaner EXCEPT !.at = "remove"] /\ looked' = looked \cup {p}
       ELSE cleaner' = [cleaner EXCEPT !.at = "read"] /\ UNCHANGED looked
    /\ UNCHANGED <<tree, elsewhere, git, manifest, removed, changes, applies>>

\* _hash_file follows a link that has come meanwhile, to a file that may be the
\* same; _hash_link_target reads links only.
MayBeSame(p) ==
    \/ Lookup(p) = manifest.entries[p]
    \/ Lookup(p).kind = "reparse" /\ manifest.entries[p].kind = "file"
MayDiffer(p) == Lookup(p) # manifest.entries[p]

ReadEntry(p) ==
    /\ cleaner.at = "read" /\ IsInHand(p)
    /\ \/ MayBeSame(p) /\ cleaner' = [cleaner EXCEPT !.at = "remove"]
       \/ MayDiffer(p) /\ Stop
    /\ looked' = looked \cup {p}
    /\ UNCHANGED <<tree, elsewhere, git, manifest, removed, changes, applies>>

\* A directory holds whatever is below it.
Holds(p) == \E q \in Below : p \in Ancestors[q] /\ Lookup(q).kind # "absent"
EmptyDirectory(p) == Lookup(p).kind = "directory" /\ ~Holds(p)

\* unlink takes files and links, rmdir a directory with nothing in it, also when
\* it has taken the place of a link.
CanRemove(p) ==
    \/ manifest.entries[p].kind # "directory" /\ Lookup(p).kind \notin {"absent", "directory"}
    \/ manifest.entries[p].kind # "file" /\ EmptyDirectory(p)

RemoveEntry(p) ==
    /\ cleaner.at = "remove" /\ IsInHand(p)
    /\ IF CanRemove(p)
       THEN /\ tree' = IF Outside(p) THEN tree ELSE [tree EXCEPT ![p] = Nothing]
            /\ elsewhere' = IF Outside(p) THEN [elsewhere EXCEPT ![p] = Nothing] ELSE elsewhere
            /\ removed' = removed \cup
                 {[path |-> p, entry |-> Lookup(p), outside |-> Outside(p), fresh |-> looked]}
            /\ cleaner' = [at |-> "validate", todo |-> Tail(cleaner.todo), depth |-> 0]
            /\ looked' = {}
       ELSE Stop /\ UNCHANGED <<tree, elsewhere, removed, looked>>
    /\ UNCHANGED <<git, manifest, changes, applies>>

RemoveRoot ==
    /\ cleaner.at = "validate" /\ cleaner.todo = <<>>
    /\ IF tree[ResidualRoot].kind = "directory" /\ ~Holds(ResidualRoot)
       THEN /\ tree' = [tree EXCEPT ![ResidualRoot] = Nothing]
            /\ cleaner' = [cleaner EXCEPT !.at = "removed"]
       ELSE Stop /\ UNCHANGED tree
    /\ UNCHANGED <<elsewhere, git, manifest, removed, looked, changes, applies>>

\* The process ends, by itself or not; the next one starts from the manifest.
CleanerEnds ==
    /\ cleaner.at # "idle"
    /\ cleaner' = [at |-> "idle", todo |-> <<>>, depth |-> 0]
    /\ looked' = {}
    /\ UNCHANGED <<tree, elsewhere, git, manifest, removed, changes, applies>>

-----------------------------------------------------------------------------
(* Other processes.                                                            *)

\* An entry appears, changes, goes away, or is moved away for a link; what was
\* below it goes with it.  It may lie beyond a link.
AtOrBelow(p) == {q \in EntryPaths : q = p \/ p \in Ancestors[q]}
Replaced(files, p, entry) ==
    [q \in EntryPaths |-> IF q = p THEN entry ELSE IF p \in Ancestors[q] THEN Nothing ELSE files[q]]

OtherChanges(p, entry) ==
    /\ changes < MaxChanges
    /\ entry # Lookup(p)
    /\ \/ /\ PlainChain(p)
          /\ p = ResidualRoot => entry.kind \in {"directory", "reparse"}
          /\ tree' = Replaced(tree, p, entry) /\ UNCHANGED elsewhere
       \/ /\ Outside(p) /\ \A a \in Ancestors[p] : Outside(a) => elsewhere[a].kind = "directory"
          /\ elsewhere' = Replaced(elsewhere, p, entry) /\ UNCHANGED tree
    /\ changes' = changes + 1
    /\ looked' = looked \ AtOrBelow(p)
    /\ UNCHANGED <<git, manifest, cleaner, removed, applies>>

GitChanges ==
    /\ changes < MaxChanges /\ cleaner.at = "idle"
    /\ \/ git' = [git EXCEPT !.registered = ~@]
       \/ git' = [git EXCEPT !.head = 3 - @]
    /\ changes' = changes + 1
    /\ UNCHANGED <<tree, elsewhere, manifest, cleaner, removed, looked, applies>>

CleanupNext ==
    \/ BuildInventory \/ Approve \/ ApplyManifest
    \/ \E p \in Below : CheckDirectory(p) \/ StatEntry(p) \/ ReadEntry(p) \/ RemoveEntry(p)
    \/ RemoveRoot \/ CleanerEnds \/ GitChanges
    \/ \E p \in EntryPaths, entry \in Appearing : OtherChanges(p, entry)

CleanupSpec == CleanupInit /\ [][CleanupNext]_cleanupVars

-----------------------------------------------------------------------------
(* Properties.                                                                 *)

\* However other processes edit, replace or link the directory meanwhile, an
\* application removes nothing outside the residual root unless a directory above
\* the entry is replaced after it was looked at for this entry, and nothing but
\* what was reviewed unless it, or a directory above it, changes after it was read
\* (or, a directory, looked at).  One thing more goes unseen: a link that takes the
\* place of a reviewed file before it is read, to a file that is the same.
AsReviewed(entry, p) ==
    \/ entry = manifest.entries[p]
    \/ entry.kind = "directory" /\ manifest.entries[p].kind = "directory"
    \/ entry.kind = "reparse" /\ manifest.entries[p].kind = "file"

OnlyReviewedContentIsRemoved ==
    \A r \in removed :
        /\ Ancestors[r.path] \subseteq r.fresh => ~r.outside
        /\ r.path \in r.fresh => AsReviewed(r.entry, r.path)

=============================================================================

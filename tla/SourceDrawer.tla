----------------------------- MODULE SourceDrawer ------------------------------
(* The source excerpt of a selected symbol or relationship, which both views    *)
(* read in the same way (selectSymbol, chooseRelationship).  Meanwhile the      *)
(* files of the repository are edited, and put back.                            *)
EXTENDS EvidenceQueries, EvidenceReads

VARIABLES
    disk,       \* path -> what the file holds now: as "scanned", or "edited" or gone
    picked,     \* the selected item: [id, path, lines, request it was listed for], or Nothing
    excerpt     \* reader of the source: source, sourceError, sourceLoading

drawerVars == <<disk, picked, excerpt>>

FilePaths == {s.path : s \in Symbols} \cup {e.path : e \in Relationships}

DrawerInit == disk = [p \in FilePaths |-> "scanned"] /\ picked = Nothing /\ excerpt = Idle

\* Both are cleared with the selection; answers still out are worthless.
PutAway == picked' = Nothing /\ excerpt' = [Idle EXCEPT !.calls = Superseded(excerpt.calls)]

Pick(item) ==
    /\ CanAsk(excerpt)
    /\ picked' = item
    /\ excerpt' = Ask([Idle EXCEPT !.calls = excerpt.calls], item)
    /\ UNCHANGED disk

AnswerSource(c) ==
    /\ excerpt' = IF SourceRefused(disk, c.about.path) THEN Fail(excerpt, c)
                  ELSE Receive(excerpt, c, ReadSource(disk, c.about.path, c.about.lines))
    /\ UNCHANGED <<disk, picked>>
LoseSource(c) == excerpt' = Fail(excerpt, c) /\ UNCHANGED <<disk, picked>>

Edit(p) ==
    /\ disk' = [disk EXCEPT ![p] = IF @ = "scanned" THEN "edited" ELSE "scanned"]
    /\ UNCHANGED <<picked, excerpt>>

=============================================================================

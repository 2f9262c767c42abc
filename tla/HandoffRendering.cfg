SPECIFICATION Spec
CONSTANTS
    Keys = {"k1", "k2"}
    Values = {"v1", "v2"}
    Versions <- MCVersions
    Blind <- MCBlind
    Pairs <- MCPairs
    NoBaseline = NoBaseline
    Findings = {"f1", "f2"}
    NoteLength <- MCNoteLength
    Selections <- MCSelections
    StaleDeltas <- MCStale
    JsonLength <- MCJsonLength
    MarkdownLength <- MCMarkdownLength
CONSTRAINT RenderFewPairs
INVARIANTS
    AbsenceIsTrue
    DeltasTellTheDifference
    EvidenceIsAccountedFor
    OutputsTellTheSame
    EvidenceIsDroppedOnlyForRoom
CHECK_DEADLOCK FALSE

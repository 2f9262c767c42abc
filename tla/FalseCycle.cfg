SPECIFICATION Spec
CONSTANTS
    Nodes = {1, 2, 3, 4, 5}
    Unresolved = 0
    Candidates <- MCCandidates
    Queries <- MCQueries
INVARIANTS
    ComponentsAreStronglyConnected

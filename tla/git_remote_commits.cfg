\* A clone of a repository whose branch changes.
SPECIFICATION FairSpec
CONSTANTS
    c1 = c1
    c2 = c2
    c3 = c3
    g1 = g1
    g2 = g2
    g3 = g3
    NoCommit = NoCommit
    Commits = {c1, c2}
    OddCommits = {}
    Tags = {}
    OddTags = {}
    Kinds = {"default"}
    Cap = 1
    MaxMoves = 2
    Faults = {}
CHECK_DEADLOCK FALSE
PROPERTIES
    RemoteNoticed

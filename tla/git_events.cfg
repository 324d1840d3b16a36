\* Local repositories, with and without an origin, and clones: three commits and three tags, of which one each is odd, two changes, a remote that goes away.
SPECIFICATION FairSpec
CONSTANTS
    c1 = c1
    c2 = c2
    c3 = c3
    g1 = g1
    g2 = g2
    g3 = g3
    NoCommit = NoCommit
    Commits = {c1, c2, c3}
    OddCommits = {c3}
    Tags = {g1, g2, g3}
    OddTags = {g3}
    Kinds = {"local", "origin", "default", "other"}
    Cap = 1
    MaxMoves = 2
    Faults = {"network"}
CHECK_DEADLOCK FALSE
INVARIANTS
    Remembered
    TagOnce
PROPERTIES
    NewsNoticed
    CancelStops

SPECIFICATION FairQuietSpec
CONSTANTS
    p1 = p1
    p2 = p2
    g1 = g1
    g2 = g2
    g3 = g3
    Hole = Hole
    Procs = {p1, p2}
    Sources = {g1, g2}
    Count <- MCCount2
    Chunks = 3
    MaxEdits = 1
    MaxRuns = 3
INVARIANTS
    QuiescentWhole
    ServedCurrent
PROPERTIES
    BuildSettles
    RebuildOnlyWhenNeeded
    ImplementsCache
CHECK_DEADLOCK FALSE

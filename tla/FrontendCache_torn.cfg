SPECIFICATION Spec
CONSTANTS
    p1 = p1
    p2 = p2
    g1 = g1
    g2 = g2
    g3 = g3
    Hole = Hole
    Procs = {p1}
    Sources = {g1}
    Count <- MCCount1
    Chunks = 3
    MaxEdits = 0
    MaxRuns = 2
INVARIANT CorruptIsMiss
CHECK_DEADLOCK FALSE

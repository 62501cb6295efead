SPECIFICATION Spec
CONSTANTS
    p1 = p1
    p2 = p2
    g1 = g1
    g2 = g2
    g3 = g3
    Hole = Hole
    Procs = {p1, p2}
    Sources = {g1, g2, g3}
    Count <- MCCount3
    Chunks = 2
    MaxEdits = 1
    MaxRuns = 3
SYMMETRY Symmetry
INVARIANTS
    FingerprintHolds
    ServedPrefix
CHECK_DEADLOCK FALSE

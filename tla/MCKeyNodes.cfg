SPECIFICATION OverlapSpec

CONSTANTS
    StorageNodes = {n1, n2}
    Files = {f1}
    Threads = {t1}
    Loop = loop
    MaxTime = 2
    None = none
    Gone = gone

INVARIANTS
    UnreadableByOverlap
    SecondKeyByOverlap
    StaleCacheByOverlap

SYMMETRY KeySymmetry

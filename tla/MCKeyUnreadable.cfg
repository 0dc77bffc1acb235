SPECIFICATION Spec

CONSTANTS
    StorageNodes = {n1}
    Files = {f1}
    Threads = {t1, t2}
    Loop = loop
    MaxTime = 2
    None = none
    Gone = gone

INVARIANTS
    FileReadable

SYMMETRY KeySymmetry

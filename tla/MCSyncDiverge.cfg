SPECIFICATION Spec

CONSTANTS
    Nodes = {n1, n2}
    Records = {r1}
    Values = {v1, v2}
    Absent = absent
    Nobody = nobody
    NoEvent = noevent
    First = n1
    BatchLimit = 2
    MaxRetries = 2
    MaxWrites = 2
    MaxFaults = 0
    MaxCrashes = 0
    Writers <- FirstWrites

INVARIANTS
    Converged

SYMMETRY ValueSymmetry

CHECK_DEADLOCK FALSE

SPECIFICATION LossSpec

CONSTANTS
    Nodes = {n1, n2}
    Records = {r1}
    Values = {v1, v2}
    Absent = absent
    Nobody = nobody
    NoEvent = noevent
    First = n1
    BatchLimit = 2
    MaxRetries = 2
    MaxWrites = 1
    MaxFaults = 1
    MaxCrashes = 1
    Writers <- AllWrite

INVARIANTS
    NeverAppliedTwice
    
    

PROPERTIES
    Delivery

SYMMETRY ValueSymmetry

CHECK_DEADLOCK FALSE

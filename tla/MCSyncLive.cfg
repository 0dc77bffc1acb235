SPECIFICATION FairSpec

CONSTANTS
    Nodes = {n1, n2}
    Records = {r1, r2}
    Values = {v1}
    Absent = absent
    Nobody = nobody
    NoEvent = noevent
    First = n1
    BatchLimit = 2
    MaxRetries = 2
    MaxWrites = 2
    MaxFaults = 1
    MaxCrashes = 0
    Writers <- OwnAndShared

PROPERTIES
    OwedIsDelivered

CHECK_DEADLOCK FALSE

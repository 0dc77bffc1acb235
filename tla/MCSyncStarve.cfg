SPECIFICATION FairSpec

CONSTANTS
    Nodes = {n1, n2, n3}
    Records = {r1}
    Values = {v1}
    Absent = absent
    Nobody = nobody
    NoEvent = noevent
    First = n1
    BatchLimit = 1
    MaxRetries = 2
    MaxWrites = 1
    MaxFaults = 0
    MaxCrashes = 1
    Writers <- FirstWrites

PROPERTIES
    Unstarved

CHECK_DEADLOCK FALSE

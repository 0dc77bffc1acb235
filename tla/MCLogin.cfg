SPECIFICATION Spec

CONSTANTS
    Nodes = {n1, n2}
    Threads = {t1, t2, t3}
    First = n1
    Other = t3
    Server <- TwoServers
    Users = {u1}
    Addresses = {a1}
    Nobody = nobody
    Limit = 2
    Window = 0
    BlockTime = 1
    LockTime = 2
    Day = 3
    MaxTime = 4
    MaxLogins = 3

INVARIANTS
    TypeOK
    LocksAreEarned

PROPERTIES
    LocksSurviveStaleLogins

SYMMETRY LoginSymmetry

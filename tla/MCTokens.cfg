SPECIFICATION Spec

CONSTANTS
    Nodes = {n1, n2}
    Threads = {t1, t2, t3}
    First = n1
    Other = t3
    Server <- TwoServers
    Users = {u1, u2}
    Tokens = {k1, k2, k3}
    None = none
    MaxRequests = 3

INVARIANTS
    TypeOK
    ExchangesOverlap
    RevokedForCause

PROPERTIES
    HomeStaysRevoked

SYMMETRY TokenSymmetry

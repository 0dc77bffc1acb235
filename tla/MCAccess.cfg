SPECIFICATION Spec

CONSTANTS
    Nodes = {n1, n2}
    Threads = {t1, t2}
    First = n1
    Other = t2
    Server <- TwoServers
    Users = {u1}
    Known = u1
    Addresses = {a1}
    Origin = a1
    None = none
    Spike = "FAILED_AUTH_SPIKE"
    Others <- OneOther
    Threshold = 0
    SpikeTime = 0
    QuietTime <- AtOnce
    Duration = 1
    MaxTime = 1
    MaxRows <- TwoAndOne
    MaxRequests = 2

INVARIANTS
    TypeOK
    SuspensionsAreEarned
    SuspensionsHaveAlerts
    AlertsApart
    LiftsRemoveOne

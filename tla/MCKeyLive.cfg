SPECIFICATION FairSpec

CONSTANTS
    StorageNodes = {n1}
    Files = {f1}
    Threads = {t1}
    Loop = loop
    MaxTime = 2
    None = none
    Gone = gone

PROPERTIES
    CallsReturn

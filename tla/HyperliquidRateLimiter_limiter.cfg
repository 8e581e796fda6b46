SPECIFICATION FairSpec
CONSTANTS
    Threads = {t1, t2}
    Weights = {1, 3}
    MaxWeight = 4
    MinInterval = 2
    Second = 1
    MaxBackoff = 4
    ErrorCap = 2
    MaxRequests = 2
    WindowLength = 5
INVARIANTS
    TypeOK
    WindowEnvelope
PROPERTIES
    AllServed

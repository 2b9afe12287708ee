CONSTANTS
    Domain = {1}
    Manual = {1}
    Unit = 1
    Interval = 2
    Jitter = 0
    MaxNumber = 1
    Node = {n1}
    Client = {c1}
    Host <- OneHost
    QueueEnableSec = 2
    CacheTTLSec = 2
    NegativeCacheTTLSec = 1
    EntryDelaySec = 1
    PermittedAccessSec = 2
    MaxRequest = 1
    Resettable = {1}
    Racing = {1}
    Expiring = {}
    WhiteListable = {1}
    Faulty = TRUE
    Horizon = 4
    MaxTold = 0
SPECIFICATION Spec
INVARIANTS TypeOK AdmissionFresh
PROPERTIES LetThroughFresh AccessFresh

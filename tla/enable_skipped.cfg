CONSTANTS
    Domain = {1}
    Manual = {}
    Unit = 1
    Interval = 2
    Jitter = 0
    MaxNumber = 2
    Node = {n1}
    Client = {c1, c2}
    Host <- OneHost
    QueueEnableSec = 2
    CacheTTLSec = 2
    NegativeCacheTTLSec = 1
    EntryDelaySec = 1
    PermittedAccessSec = 2
    MaxRequest = 0
    Resettable = {1}
    Racing = {}
    Expiring = {}
    WhiteListable = {}
    Faulty = FALSE
    Horizon = 0
    MaxTold = 0
SPECIFICATION Spec
PROPERTY EnableTakesEffect

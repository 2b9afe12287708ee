CONSTANTS
    Domain = {1}
    Manual = {}
    Unit = 1
    Interval = 1
    Jitter = 0
    MaxNumber = 3
    Node = {n1}
    Client = {c1, c2}
    Host <- OneHost
    QueueEnableSec = 2
    CacheTTLSec = 1
    NegativeCacheTTLSec = 1
    EntryDelaySec = 1
    PermittedAccessSec = 1
    MaxRequest = 1
    Resettable = {}
    Racing = {}
    Expiring = {}
    WhiteListable = {}
    Faulty = FALSE
    Horizon = 0
    MaxTold = 0
SPECIFICATION FairSpec
PROPERTY ClientGetsIn

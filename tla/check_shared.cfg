CONSTANTS
    Domain = {1}
    Manual = {}
    Unit = 1
    Interval = 2
    Jitter = 1
    MaxNumber = 3
    Node = {n1}
    Client = {c1, c2}
    Host <- OneHost
    QueueEnableSec = 2
    CacheTTLSec = 2
    NegativeCacheTTLSec = 1
    EntryDelaySec = 1
    PermittedAccessSec = 1
    MaxRequest = 0
    Resettable = {1}
    Racing = {}
    Expiring = {1}
    WhiteListable = {}
    Faulty = FALSE
    Horizon = 2
    MaxTold = 6
SPECIFICATION Spec
SYMMETRY Symmetry
INVARIANTS SerialsUnique AdmissionFresh ToldWaitKept
PROPERTY LetThroughFresh

CONSTANTS
    Domain = {1}
    Node = {n1}
    QueueEnableSec = 2
    PermitIntervalSec = 2
    PermitUnitNumber = 1
    MaxNumber = 1
    CacheTTLSec = 1
    NegativeCacheTTLSec = 1
    MaxCycle = 1
    MaxPipes = 1
    AdminDomain = {1}
    Faults = {}
    Request = {r1}
SPECIFICATION FairAdminSpec
INVARIANT PermitNotOrphaned
PROPERTY LeftQueueEnds

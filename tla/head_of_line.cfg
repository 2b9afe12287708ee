CONSTANTS
    Domain = {1, 2}
    Node = {n1}
    QueueEnableSec = 2
    PermitIntervalSec = 1
    PermitUnitNumber = 1
    MaxNumber = 2
    CacheTTLSec = 1
    NegativeCacheTTLSec = 1
    MaxCycle = 0
    MaxPipes = 1
    AdminDomain = {}
    Faults = {}
SPECIFICATION FairSpec
PROPERTY WaiterProgress

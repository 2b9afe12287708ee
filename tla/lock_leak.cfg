CONSTANTS
    Domain = {1}
    Node = {n1}
    QueueEnableSec = 3
    PermitIntervalSec = 2
    PermitUnitNumber = 1
    MaxNumber = 2
    CacheTTLSec = 1
    NegativeCacheTTLSec = 1
    MaxCycle = 1
    MaxPipes = 1
    AdminDomain = {}
    Faults = {"crash"}
SPECIFICATION FairSpec
PROPERTY LockReleased

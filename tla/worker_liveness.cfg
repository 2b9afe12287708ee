CONSTANTS
    Domain = {1}
    Node = {n1, n2}
    QueueEnableSec = 2
    PermitIntervalSec = 1
    PermitUnitNumber = 1
    MaxNumber = 3
    CacheTTLSec = 1
    NegativeCacheTTLSec = 1
    MaxCycle = 0
    MaxPipes = 1
    AdminDomain = {}
    Faults = {}
SPECIFICATION FairSpec
PROPERTIES WaiterProgress DeadQueueLeaves LockReleased UnlistedQueueEnds

CONSTANTS
    Domain = {1}
    Node = {n1, n2}
    QueueEnableSec = 3
    PermitIntervalSec = 2
    PermitUnitNumber = 1
    MaxNumber = 2
    CacheTTLSec = 2
    NegativeCacheTTLSec = 1
    MaxCycle = 1
    MaxPipes = 1
    AdminDomain = {}
    Faults = {}
SPECIFICATION Spec
SYMMETRY NodeSymmetry
INVARIANTS TypeOK OneUpdater WorkerCacheFresh LockNotOrphaned PermitNotOrphaned PaceKept 
PROPERTY PacerSpec

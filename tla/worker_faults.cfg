CONSTANTS
    Domain = {1}
    Node = {n1, n2}
    QueueEnableSec = 1
    PermitIntervalSec = 2
    PermitUnitNumber = 1
    MaxNumber = 1
    CacheTTLSec = 1
    NegativeCacheTTLSec = 1
    MaxCycle = 1
    MaxPipes = 1
    AdminDomain = {1}
    Faults = {"error", "crash", "retry", "cut"}
SPECIFICATION Spec
SYMMETRY NodeSymmetry
INVARIANT OneUpdater

CONSTANTS
    Domain = {d1, d2}
    Node = {n1}
    Visitor = {v1, v2}
    Editor = {e1, e2}
    CacheTTLSec = 2
    NegativeCacheTTLSec = 1
    MaxRequest = 1
    ScanLimit = 1
    Horizon = 3
SPECIFICATION Spec
SYMMETRY Symmetry
PROPERTIES AllowedFresh RefusedFresh

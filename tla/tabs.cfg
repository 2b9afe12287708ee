CONSTANTS
    Tab = {t1, t2}
    Node = {n1}
    EntryDelaySec = 1
    SharedKey = FALSE
    MaxFailures = 1
    MaxNumber = 11
SPECIFICATION FairSpec
INVARIANT FewNumbers
PROPERTIES StaysIn EveryTabGetsIn

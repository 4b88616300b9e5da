SPECIFICATION FairSpec
CONSTANTS
    MaxRev = 2
    MaxFaults = 1
    MaxRestarts = 1
INVARIANTS
    EtcdInv
    NoDanglingMount
PROPERTIES
    MountsOnlyCompletePair
    Synchronises

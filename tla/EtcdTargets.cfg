SPECIFICATION FairSpec
CONSTANTS
    Address = {m1}
    Topologies <- MCTopologies
    MaxChanges = 2
    MaxFaults = 1
INVARIANT
    TypeOK
PROPERTIES
    SpecTargetsPrevail
    GoneTargetsLeave
    TargetsReturn

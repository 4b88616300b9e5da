SPECIFICATION Spec
CONSTANTS
    Address = {m1}
    Topologies <- MCTopologies
    MaxChanges = 0
    MaxFaults = 0
PROPERTY
    UnchangedTargetsKept

SPECIFICATION FairSpec
CONSTANTS
    clusterRole = clusterRole
    daemonSet = daemonSet
    tlsSecret = tlsSecret
    old = old
    new = new
    Object <- MCObject
    Owned <- MCOwned
    Version = {old, new}
    Deps <- MCDeps
    MaxGen = 4
    MaxFaults = 1
    MaxRestarts = 1
    Attempts = 2
    BackoffSuffices = TRUE
    CreationSeen = TRUE
    Rejected = {2}
INVARIANTS
    TypeOK
    Tracked
    FinalizerGuardsDependents
    RecordedBeforeApply
    SafetyInv
PROPERTIES
    UpdateOnlyAdds
    RegistrySpec
    Settles
    DeletionCompletes

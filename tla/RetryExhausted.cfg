SPECIFICATION Spec
CONSTANTS
    clusterRole = clusterRole
    daemonSet = daemonSet
    tlsSecret = tlsSecret
    old = old
    new = new
    Object <- MCObject
    Owned <- MCOwned
    Version = {new}
    Deps <- MCDeps
    MaxGen = 3
    MaxFaults = 0
    MaxRestarts = 0
    Attempts = 5
    BackoffSuffices = FALSE
    CreationSeen = TRUE
    Rejected = {}
INVARIANT
    RecordedBeforeApply

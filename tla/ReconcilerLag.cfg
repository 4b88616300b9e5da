SPECIFICATION Spec
CONSTANTS
    clusterRole = clusterRole
    daemonSet = daemonSet
    tlsSecret = tlsSecret
    old = old
    new = new
    Object <- MCObject
    Owned <- MCOwned
    Version = {old, new}
    Deps <- MCDeps
    MaxGen = 3
    MaxFaults = 1
    MaxRestarts = 1
    Attempts = 2
    BackoffSuffices = FALSE
    CreationSeen = FALSE
    Rejected = {}
INVARIANTS
    LagInv
    CommonDependentsStay
    HelmReleaseHoldsV1
PROPERTIES
    CleanupForgetsOnlyGone
    CreatedUnderFinalizer

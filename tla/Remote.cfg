SPECIFICATION FairSpec
CONSTANTS
    deployment = deployment
    tlsSecret = tlsSecret
    old = old
    new = new
    Object <- MCObject
    Owned <- MCObject
    Version = {old, new}
    Installed = {old}
    Deps <- MCDeps
    MaxGen = 3
    MaxFaults = 1
    MaxRestarts = 1
    CreationSeen = TRUE
INVARIANT
    RecordedBeforeApply
PROPERTIES
    RegistrySpec
    Settles
    DeletionEnds

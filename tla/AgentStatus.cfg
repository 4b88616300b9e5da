SPECIFICATION FairSpec
CONSTANTS
    zoneA = zoneA
    zoneB = zoneB
    main = main
    additional = additional
    dev = dev
    v2 = v2
    DaemonSet = {zoneA, zoneB}
    Sensor <- MCSensor
    DaemonSetStatuses <- MCDaemonSetStatuses
    DeploymentStatuses <- MCDeploymentStatuses
    Version = {dev, v2}
    Installed = {v2}
    SemVer = {v2}
    Rejected = {2}
    StatusSeen = TRUE
    MaxGen = 2
    MaxEvents = 2
INVARIANTS
    TypeOK
    OutcomeReported
PROPERTIES
    StatusAdvances
    ConditionsFollow
    Recovers
CHECK_DEADLOCK FALSE

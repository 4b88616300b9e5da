SPECIFICATION Spec
CONSTANTS
    zoneA = zoneA
    zoneB = zoneB
    main = main
    additional = additional
    dev = dev
    v2 = v2
    DaemonSet = {zoneA}
    Sensor <- MCSensor
    DaemonSetStatuses <- MCDaemonSetStatuses
    DeploymentStatuses <- MCDeploymentStatuses
    Version = {dev, v2}
    Installed = {v2}
    SemVer = {v2}
    Rejected = {}
    StatusSeen = TRUE
    MaxGen = 1
    MaxEvents = 2
PROPERTY
    SomeMessageHolds
CHECK_DEADLOCK FALSE

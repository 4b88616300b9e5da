SPECIFICATION FairSpec
CONSTANTS
    zoneA = zoneA
    zoneB = zoneB
    main = main
    additional = additional
    dev = dev
    v2 = v2
    DaemonSet = {zoneA, zoneB}
    Sensor <- MCSensor
    DaemonSetStatuses <- MCDaemonSetStatuses
    DeploymentStatuses <- MCDeploymentStatuses
    Version = {v2}
    Installed = {v2}
    SemVer = {v2}
    Rejected = {}
    StatusSeen = TRUE
    MaxGen = 1
    MaxEvents = 0
PROPERTY
    SkippedSensorIsNoError
CHECK_DEADLOCK FALSE

SPECIFICATION FairSpec
CONSTANTS
    Namespaces = {home, apps}
    Home = home
    MaxEvents = 3
INVARIANT
    LeadsAlone
PROPERTIES
    OthersKept
    GetsTheLock
CHECK_DEADLOCK FALSE

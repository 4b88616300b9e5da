SPECIFICATION Spec
CONSTANTS
    Specs <- MCSpecs
    Edited <- Feature
    OwnWritesSeen = TRUE
    MaxEdits = 1
    MaxEvents = 1
INVARIANTS
    TypeOK
    ReferencesResolve
    CredentialsDelivered
    RejectedAsAWhole
PROPERTIES
    CleanupKeepsReferenced
    HostIdStable

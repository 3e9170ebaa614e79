CONSTANTS
    MaxEvents = 3
    Severities = {0, 2}
    Cap = 1
    BatchLimit = 2
    MaxOrphans = 1
    HubConfigured = TRUE
    Faults = TRUE
SPECIFICATION Spec
INVARIANTS SyncedIsHeld NothingLost
PROPERTIES ImplementsTimeline LeastImportantFirst

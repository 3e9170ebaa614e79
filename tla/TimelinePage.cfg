CONSTANTS
    MaxEvents = 2
    Severities = {0}
    Cap = 1
    BatchLimit = 1
    MaxOrphans = 0
    HubConfigured = TRUE
    Faults = TRUE
    PageLimit = 2
    StreamLimit = 1
    Filters = {{0, 1, 2, 3}}
    Others = 1
    MaxDrops = 1
SPECIFICATION FairPageSpec
INVARIANTS PageHasNoHole
PROPERTIES QueueDrains RevocationRecoverable QueuedIsSeen

\* A paired agent whose config.toml does not repeat the hub's address.
CONSTANTS
    MaxEvents = 3
    Severities = {0, 2}
    Cap = 3
    BatchLimit = 2
    MaxOrphans = 0
    HubConfigured = FALSE
    Faults = FALSE
SPECIFICATION Spec
INVARIANTS NothingLost

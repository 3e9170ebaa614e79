\* No fault of any kind: the cap alone loses the row that explains a loss.
CONSTANTS
    MaxEvents = 5
    Severities = {0, 2}
    Cap = 2
    BatchLimit = 2
    MaxOrphans = 0
    HubConfigured = TRUE
    Faults = FALSE
SPECIFICATION Spec
INVARIANTS EveryLossNamed

\* A hub whose timeline is still empty, then a first push of three events.
CONSTANTS
    MaxEvents = 3
    Severities = {0, 2}
    Cap = 3
    BatchLimit = 3
    MaxOrphans = 0
    HubConfigured = TRUE
    Faults = FALSE
    PageLimit = 3
    StreamLimit = 2
    Filters = {{0, 1, 2, 3}}
    Others = 0
    MaxDrops = 1
SPECIFICATION PageSpec
\* One at a time (FilterIsKept with Filters = {{2}}):
INVARIANT StreamResumes
\* INVARIANT NoRowTwice
\* INVARIANT NewestOnTop
\* INVARIANT FilterIsKept

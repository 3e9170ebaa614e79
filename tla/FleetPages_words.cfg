SPECIFICATION PagesSpec
CONSTANTS
    MaxVersion = 2
    EmptyAt = {}
    Exposed = {2}
    Slots = {"a", "b"}
    MaxFaults = 1
    MaxAdmin = 2
\* One at a time:
INVARIANT EmptyListWasReported
\* INVARIANT PathsAtLevel
\* INVARIANT AllClearWasHeard
\* PROPERTY TicksOfTheExposure
\* PROPERTY NowhereIsNow

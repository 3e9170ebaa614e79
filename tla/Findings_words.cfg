SPECIFICATION Spec
CONSTANTS
    Packages = {"express"}
    Malware = {}
    Severe = {"express"}
    Scanners = {"scan"}
    Rematchers = {"match"}
    MaxClock = 2
    MaxEdits = 2
    SameSecond = TRUE
\* One at a time:
INVARIANT AlertOnce
\* PROPERTY QuietOnlyAtFirst
\* PROPERTY NothingOpensForGone
\* PROPERTY QuarantineIsBelieved
\* PROPERTY SevereComesBackAsNews

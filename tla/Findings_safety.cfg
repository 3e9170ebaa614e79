SPECIFICATION Spec
CONSTANTS
    Packages = {"express"}
    Malware = {}
    Severe = {}
    Scanners = {"scan"}
    Rematchers = {"match"}
    MaxClock = 3
    MaxEdits = 3
    SameSecond = FALSE
CHECK_DEADLOCK FALSE
INVARIANTS AlertOnce
PROPERTIES TriageHonoured

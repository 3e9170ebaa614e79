SPECIFICATION FairSpec
CONSTANTS
    Packages = {"express"}
    Malware = {}
    Severe = {}
    Scanners = {"scan"}
    Rematchers = {}
    MaxClock = 2
    MaxEdits = 3
    SameSecond = TRUE
PROPERTIES FindingsConverge IgnoresEnd

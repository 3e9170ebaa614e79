SPECIFICATION Spec
CONSTANTS
    Versions = {1, 2}
    Prereleases = {2}
    BlockTier = 4
    Opaque = {1}
    MaxFailures = 1
    MaxWanted = 2
    Advisories <- MCAdvisories
INVARIANT LoudlyOpen
CHECK_DEADLOCK FALSE

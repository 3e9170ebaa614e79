SPECIFICATION Spec
CONSTANTS
    Versions = {1, 2}
    Prereleases = {2}
    BlockTier = 4
    Opaque = {}
    MaxFailures = 1
    MaxWanted = 2
    Advisories <- MCAdvisories
INVARIANTS
    NothingBadUnnoticed
    OfferedIsServed
    ListingLeavesAChoice
    CleanIsClean
CHECK_DEADLOCK FALSE

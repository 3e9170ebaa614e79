\* Each of these has a counterexample: run them one at a time (README, section 5).
SPECIFICATION FairViewSpec
CONSTANTS
    Scopes = {"npm", "debian"}
    Inventory = {"npm", "debian"}
    Updaters = {"agent"}
    MaxVersion = 2
    BuildsPerDay = 2
    Faults = FALSE
    MaxEdits = 2
INVARIANTS DegradedOnlyUnsynced CoverageIsCurrent
PROPERTIES NewerBuildArrives

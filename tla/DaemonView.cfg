SPECIFICATION FairViewSpec
CONSTANTS
    Scopes = {"npm", "debian"}
    Inventory = {"npm", "debian"}
    Updaters = {"agent"}
    MaxVersion = 3
    BuildsPerDay = 2
    Faults = TRUE
    MaxEdits = 3
INVARIANTS ReadersHaveTheFile JudgedByAFile
PROPERTIES NeverOlder AdvisoriesArrive MergedIsExamined

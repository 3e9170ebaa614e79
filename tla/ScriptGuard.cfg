CONSTANTS
    Packages = {"esbuild", "sharp"}
    Projects = {"app", "site"}
    Terminals = {1, 2}
    KillFrees = TRUE
    MaxEdits = 4
SPECIFICATION FairSpec
PROPERTIES RunsOnlyWhatWasAllowed CommandsEnd
CHECK_DEADLOCK FALSE

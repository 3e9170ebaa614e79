CONSTANTS
    Packages = {"esbuild"}
    Projects = {"app"}
    Terminals = {1}
    KillFrees = FALSE
    MaxEdits = 4
SPECIFICATION FairSpec
\* One at a time:
INVARIANT OffForEveryRun
\* PROPERTY UpgradeStaysBuilt
\* PROPERTY NotAfterRevoke
\* PROPERTY CommandsEnd
CHECK_DEADLOCK FALSE

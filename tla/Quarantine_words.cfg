\* Two commands, a failing restore, a package manager that writes meanwhile; and
\* a Python package, whose recorded directory holds its metadata only.
CONSTANTS
    Files = {code, metadata}
    InstallDir = {metadata}
    Keepers = {"k1", "k2"}
    Restorers = {"cli"}
    MaxIds = 2
    MaxContent = 2
    MaxFaults = 1
    Quiet = FALSE
SPECIFICATION Spec
\* One at a time:
PROPERTY OffTheMachine
\* PROPERTY ReproducedExactly
\* PROPERTY TakesOnlyWhatItHolds
\* INVARIANT CanComeBack
\* INVARIANT OneActive
CHECK_DEADLOCK FALSE

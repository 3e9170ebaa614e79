\* One quarantine, and two processes that restore, with a package manager that may
\* write at any moment.
CONSTANTS
    Files = {f, g}
    InstallDir = {f, g}
    Keepers = {k1}
    Restorers = {cli, page}
    MaxIds = 2
    MaxContent = 2
    MaxFaults = 1
    Quiet = FALSE
SPECIFICATION Spec
SYMMETRY Interchangeable
PROPERTY RestoredIsIdentical

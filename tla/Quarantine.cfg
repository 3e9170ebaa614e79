CONSTANTS
    Files = {f, g}
    InstallDir = {f, g}
    Keepers = {k1, k2}
    Restorers = {cli}
    MaxIds = 2
    MaxContent = 2
    MaxFaults = 1
    Quiet = TRUE
SPECIFICATION Spec
SYMMETRY Interchangeable
PROPERTIES TakesOnlyWhatItHolds KeepsCustody RestoredIsIdentical

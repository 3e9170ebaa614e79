SPECIFICATION Spec
CONSTANTS
    lodash1 = lodash1
    lodash2 = lodash2
    Purls = {lodash1, lodash2}
    Debs = {"musl"}
    HostDebs = {"openssl"}
    Projects = {"app"}
    Globals = {"global"}
    Containers = {"db"}
    Hosts = {"dpkg"}
    Modes = {"full", "incremental"}
    MovesBack = TRUE
    Faults = TRUE
    Unreadable = {"global", "db"}
    PassedOver = {}
    MaxChanges = 3
    MaxSeconds = 3
INVARIANTS NothingMissed NothingLeftOver FullScanSettles
PROPERTIES NothingInstalledIsRetired
SYMMETRY Versions

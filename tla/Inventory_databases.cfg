SPECIFICATION Spec
CONSTANTS
    lodash1 = lodash1
    lodash2 = lodash2
    Purls = {lodash1, lodash2}
    Debs = {"musl"}
    HostDebs = {"musl", "openssl"}
    Projects = {}
    Globals = {"global"}
    Containers = {"db"}
    Hosts = {"dpkg"}
    Modes = {"full", "incremental"}
    MovesBack = TRUE
    Faults = TRUE
    Unreadable = {"dpkg", "db"}
    PassedOver = {}
    MaxChanges = 3
    MaxSeconds = 3
PROPERTIES NothingInstalledIsRetired
SYMMETRY Versions

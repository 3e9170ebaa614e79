SPECIFICATION Spec
CONSTANTS
    Purls = {"lodash@1", "lodash@2"}
    Debs = {"openssl"}
    HostDebs = {"openssl", "musl"}
    Projects = {"app"}
    Globals = {"global"}
    Containers = {"db"}
    Hosts = {"dpkg"}
    Modes = {"full", "incremental"}
    MovesBack = FALSE
    Faults = FALSE
    Unreadable = {"db"}
    PassedOver = {}
    MaxChanges = 3
    MaxSeconds = 3
\* One at a time; the first two also with MovesBack = TRUE or Faults = TRUE,
\* and NothingMissed with PassedOver = {"app"}:
INVARIANT MissesNothing
\* INVARIANT LeavesNothing
\* INVARIANT LeavesNothingAnywhere
\* INVARIANT WidestScopeWins
\* PROPERTY RetiresNothingInstalled
\* PROPERTY RetiresNothingUnread
\* INVARIANT NothingMissed

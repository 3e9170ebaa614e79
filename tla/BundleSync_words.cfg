\* The daemon and `pkgwatch sync`, which share the files.
SPECIFICATION Spec
CONSTANTS
    Scopes = {"npm", "debian"}
    Inventory = {"npm", "debian"}
    Updaters = {"agent", "cli"}
    MaxVersion = 2
    BuildsPerDay = 1
    Faults = TRUE
    MaxEdits = 3
\* One at a time:
INVARIANT CurrentIsMerged
\* INVARIANT MergedIsWhole
\* INVARIANT CurrentIsRead
\* INVARIANT HandlesComeBack

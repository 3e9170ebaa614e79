SPECIFICATION FleetSpec
CONSTANTS
    MaxVersion = 2
    EmptyAt = {2}
    Slots = {"a"}
    MaxFaults = 1
    MaxAdmin = 2
\* One at a time:
INVARIANT CredentialsAtLevel
\* INVARIANT InventoryWithdrawn
\* PROPERTY UninstallsArrive

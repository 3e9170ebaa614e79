SPECIFICATION PagesSpec
CONSTANTS
    MaxVersion = 2
    EmptyAt = {}
    Exposed = {2}
    Slots = {"a", "b"}
    MaxFaults = 1
    MaxAdmin = 2
INVARIANTS InventoryAtLevel
PROPERTIES PageIsBacked NowhereMeansLooked SnapshotConverges

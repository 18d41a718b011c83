\* Two plugins, three versions, the first pinned: updates, rollbacks, restores, crashes; fair.
SPECIFICATION FairSpec
CONSTANTS
    p1 = p1 p2 = p2
    NoVersion = NoVersion NoRecord = NoRecord NoOp = NoOp
    Plugin = {p1, p2}
    Version = {1, 2, 3}
    Pinned = {1}
    MaxPlugins = 2
    MaxEpoch = 1
    MaxOps = 3
INVARIANTS StoreIsSound
PROPERTIES RefinesInventory OperationsReturn
CHECK_DEADLOCK FALSE

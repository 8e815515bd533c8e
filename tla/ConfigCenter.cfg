\* Two keys, three changes, one broken stream or failed load.
CONSTANTS
    Key = {k1, k2}
    Shape <- MCShape
    MaxVersion = 3
    MaxTime = 1
    MaxDrops = 1
SPECIFICATION CfgFairSpec
CHECK_DEADLOCK FALSE
INVARIANTS PendingIsNewer NothingStale
PROPERTIES GoesBackOnly DueTakesOver ChangesArrive

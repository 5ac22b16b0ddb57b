SPECIFICATION FairSpec
CONSTANTS
    Procs = {p1, p2, p3}
    Keys = {v1, v2}
    Entries = {e1, e2, e3}
    NoEntry = NoEntry
INVARIANTS
    TypeOK
    MutualExclusion
    ReleaseNeverBlocks
    MapHoldsUsedKeys
PROPERTY
    WaitersProceed

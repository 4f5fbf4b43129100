CONSTANTS
    Keys = {k1, k2, k3}
    Vals = {a, b}
    TTL = 1
    MaxSize = 2
    MaxTime = 3
    NoEntry = NoEntry
SPECIFICATION Spec
INVARIANTS TypeOK SizeBounded OrderMatchesEntries
PROPERTIES LiveEntryLostOnlyWhenFull ImplementsLossyMap

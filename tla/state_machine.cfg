SPECIFICATION Spec
CONSTANTS
    Key <- MCKey
    Expiry <- MCExpiry
    Reader = {r1, r2}
    Header = Header
    Nil = Nil
    None = None
    Torn = Torn
    MaxLevel = 2
    CacheCapacity = 1
    SnapshotLength = 1
    MaxOps = 2
    Earlier = 2
    MaxReads = 1
    MaxTime = 2
    MaxRestarts = 1
INVARIANTS
    SkipListSound
    CacheCoherent
    RecoversState
    SnapshotMatchesCut
PROPERTIES
    ExpiredStaysGone
    ImplementsKVEngine
SYMMETRY MCSymmetry
CHECK_DEADLOCK FALSE

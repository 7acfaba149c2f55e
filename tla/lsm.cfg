SPECIFICATION Spec
CONSTANTS
    Key <- MCKey
    Hash <- MCHash
    FlushThreshold = 2
    BlockEntryCount = 1
    Reader = {r1}
    None = None
    Tombstone = Tombstone
    Torn = Torn
    MaxWrites = 3
    MaxCalls = 2
    MaxRestarts = 1
INVARIANTS
    ReadsMatchLog
    CrashSafe
PROPERTIES
    ImplementsKVEngine
    FlushedInBackground
    StopEnds
CHECK_DEADLOCK FALSE

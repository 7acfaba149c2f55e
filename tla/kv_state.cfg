SPECIFICATION Spec
CONSTANTS
    N = 2
    Client = {w, r}
    Reader = {r}
    Writer = {w}
    Key = {k}
    Kinds = {"Append", "Get"}
    EnableReadIndex = FALSE
    EnableSnapshots = TRUE
    MaxRequests = 2
    MaxCalls = 3
    MaxLog = 3
    MaxNoops = 0
    MaxRestarts = 1
    MaxInstalls = 0
VIEW LiveView
CHECK_DEADLOCK FALSE
INVARIANTS AppliesLog SnapshotsMatchLog ReadsFresh

SPECIFICATION Spec
CONSTANTS
    N = 2
    Client = {c}
    Reader = {c}
    Writer = {c}
    Key = {k}
    Kinds = {"Append", "Get"}
    EnableReadIndex = FALSE
    EnableSnapshots = FALSE
    MaxRequests = 2
    MaxCalls = 4
    MaxLog = 4
    MaxNoops = 0
    MaxRestarts = 0
    MaxInstalls = 0
VIEW LiveView
CHECK_DEADLOCK FALSE
INVARIANTS AppliesLog

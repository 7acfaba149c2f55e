SPECIFICATION Spec
CONSTANTS
    N = 2
    Client = {c}
    Reader = {c}
    Writer = {c}
    Key = {k}
    Kinds = {"Put", "Get"}
    EnableReadIndex = TRUE
    EnableSnapshots = TRUE
    MaxRequests = 2
    MaxCalls = 3
    MaxLog = 2
    MaxNoops = 1
    MaxRestarts = 0
    MaxInstalls = 1
VIEW LiveView
CHECK_DEADLOCK FALSE
INVARIANTS TypeOK AckedCommitted

SPECIFICATION Spec
CONSTANTS
    Caller = {c1, c2}
    Channel = {ch}
    Worker = {w1, w2}
    Request <- MCRequest
    Reply <- MCReply
    None = None
    MaxCalls = 2
    MaxCuts = 1
    MaxCrashes = 1
INVARIANTS
    TypeOK
    ExecutesAsSent
    OwnReply
PROPERTIES
    CallsReturn
    TasksRun
CHECK_DEADLOCK FALSE

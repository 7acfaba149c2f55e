SPECIFICATION Spec
CONSTANTS
    Fiber = {f1, f2}
    Fd = {fd}
    None = None
    MaxOps = 3
INVARIANTS
    TypeOK
    OneWaker
    TimeoutsAreOwn
    ExitsWhenDone
PROPERTIES
    FibersResume
    StopEnds
CHECK_DEADLOCK FALSE

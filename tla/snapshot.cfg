CONSTANTS
    Server = {s1, s2, s3}
    Nil = Nil
    Command = {x}
    Noop = Noop
    MaxTerm = 2
    MaxElections = 2
    MaxLog = 2
    MaxRounds = 2
    MaxRestarts = 1
    MaxSnapIndex = 2
    MaxReads = 0
    Backlog = 0
SPECIFICATION ElectedSpec
SYMMETRY Symmetry
VIEW LiveView
INVARIANTS
    LogContiguous
    IndexOrder
    PeerIndexes
    DiskCurrent
PROPERTIES
    ProgressMonotone
CHECK_DEADLOCK FALSE

CONSTANTS
    Server = {s1, s2, s3}
    Nil = Nil
    Command = {x}
    Noop = Noop
    MaxTerm = 3
    MaxElections = 3
    MaxLog = 3
    MaxRounds = 2
    MaxRestarts = 0
    MaxSnapIndex = 0
    MaxReads = 0
    Backlog = 2
SPECIFICATION ElectedSpec
SYMMETRY Symmetry
VIEW LiveView
INVARIANTS
    LeaderCompleteness
CHECK_DEADLOCK FALSE

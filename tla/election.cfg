CONSTANTS
    Server = {s1, s2, s3, s4, s5}
    Nil = Nil
    Command = {}
    Noop = Noop
    MaxTerm = 2
    MaxElections = 2
    MaxLog = 1
    MaxRounds = 0
    MaxRestarts = 2
    MaxSnapIndex = 0
    MaxReads = 0
    Backlog = 0
SPECIFICATION Spec
SYMMETRY Symmetry
VIEW LiveView
INVARIANTS
    ElectionSafety
    VoteOnce
    LeaderOnce
CHECK_DEADLOCK FALSE

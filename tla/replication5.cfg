CONSTANTS
    Server = {s1, s2, s3, s4, s5}
    Nil = Nil
    Command = {x}
    Noop = Noop
    MaxTerm = 1
    MaxElections = 1
    MaxLog = 2
    MaxRounds = 2
    MaxRestarts = 0
    MaxSnapIndex = 0
    MaxReads = 0
    Backlog = 0
SPECIFICATION ElectedSpec
SYMMETRY Symmetry
VIEW LiveView
PROPERTIES
    CommitQuorum
CHECK_DEADLOCK FALSE

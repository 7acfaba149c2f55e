CONSTANTS
    Server = {s1, s2, s3}
    Nil = Nil
    Command = {x}
    Noop = Noop
    MaxTerm = 2
    MaxElections = 2
    MaxLog = 3
    MaxRounds = 1
    MaxRestarts = 0
    MaxSnapIndex = 0
    MaxReads = 1
    Backlog = 0
SPECIFICATION ElectedSpec
SYMMETRY Symmetry
VIEW LiveView
INVARIANTS
    TypeOK
    EntryIdentity
    LeadershipConfirmed
PROPERTIES
    LeaderAppendOnly
CHECK_DEADLOCK FALSE

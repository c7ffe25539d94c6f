SPECIFICATION Spec
CONSTANTS
    MaxNumber = 5
    MinTruncation = 1
    Threshold = 1
    FuzzyCap = 2
    Inputs = {"dir", "zip"}
    Zips = {"zip"}
    Trees <- MCTrees
    BatchCap = 2
    MatchCap = 1
    MaxSessions = 2
INVARIANTS
    TypeOK
    ImportIsComplete
    MatchesAreOnePass
    OwnSidecarWins
    SureIsSameSeries
    GuessesAreUnique
PROPERTIES
    RowsAreKept
CHECK_DEADLOCK FALSE

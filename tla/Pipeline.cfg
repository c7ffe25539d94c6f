\* A real file and three of the archive, a channel for one of them and one
\* consumer, cancels, resets of the tokens, a crash and a resumed run; the database works.
CONSTANTS
    Files = {f1, z1, z2, z3}
    ZipFiles = {z1, z2, z3}
    Confidences = {}
    ChannelCap = 1
    Workers = 1
    BatchSize = 2
    UnmatchedEnabled = TRUE
    LogMayFail = FALSE
    MayBreak = FALSE
    MayPark = FALSE
    MayPause = FALSE
    MayUncancel = TRUE
    MaxSessions = 2
    MaxCrashes = 1
SPECIFICATION Spec
SYMMETRY KindSymmetry
INVARIANTS ReportsAreOwned DeliveredOnce WorkIsStaged StagingBounded
CHECK_DEADLOCK FALSE

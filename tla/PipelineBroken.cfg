\* The database may break, refuse updates or put outcomes into the recovery log,
\* and a third session may replay the log.
CONSTANTS
    Files = {f1, z1}
    ZipFiles = {z1}
    Confidences = {100}
    ChannelCap = 1
    Workers = 1
    BatchSize = 2
    UnmatchedEnabled = FALSE
    LogMayFail = FALSE
    MayBreak = TRUE
    MayPark = TRUE
    MayPause = FALSE
    MayUncancel = FALSE
    MaxSessions = 3
    MaxCrashes = 1
SPECIFICATION Spec
INVARIANTS CompletedHasOutput CompletedIsComplete ShownIsStored
CHECK_DEADLOCK FALSE

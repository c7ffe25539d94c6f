\* One session with more files than the channel and the consumer hold, under fairness.
CONSTANTS
    Files = {f1, z1, z2}
    ZipFiles = {z1, z2}
    Confidences = {}
    ChannelCap = 1
    Workers = 1
    BatchSize = 2
    UnmatchedEnabled = TRUE
    LogMayFail = FALSE
    MayBreak = FALSE
    MayPark = FALSE
    MayPause = TRUE
    MayUncancel = TRUE
    MaxSessions = 1
    MaxCrashes = 0
SPECIFICATION FairSpec
PROPERTIES CancelEnds RunEnds
CHECK_DEADLOCK FALSE

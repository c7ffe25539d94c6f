\* The dispatcher resets the tokens while a cancelled pipeline winds down.  Two
\* real files, so that only the user's Cancel sets the token.
CONSTANTS
    Files = {f1, f2}
    ZipFiles = {}
    Confidences = {100}
    ChannelCap = 1
    Workers = 1
    BatchSize = 2
    UnmatchedEnabled = TRUE
    LogMayFail = FALSE
    MayBreak = FALSE
    MayPark = FALSE
    MayPause = FALSE
    MayUncancel = TRUE
    MaxSessions = 1
    MaxCrashes = 0
SPECIFICATION Spec
PROPERTY CancelAborts
CHECK_DEADLOCK FALSE

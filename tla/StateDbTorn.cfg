\* A crash may cut a line of the recovery log, and a second session appends to it.
CONSTANTS
    Files = {f1, f2}
    Confidences = {100}
    Outcomes = {"Completed"}
    QueueCap = 2
    BatchCap = 2
    MaxRetries = 1
    MaxSessions = 2
    LogMayFail = FALSE
    MayTear = TRUE
    MayPoison = FALSE
SPECIFICATION Spec
INVARIANT AcceptedIsKept
CHECK_DEADLOCK FALSE

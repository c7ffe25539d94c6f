\* Two files, a channel and batches smaller than the number of messages, two
\* attempts per transaction, a crash or a close followed by one more session.
CONSTANTS
    Files = {f1, f2}
    Confidences = {80, 100}
    Outcomes = {"Completed", "Error"}
    QueueCap = 2
    BatchCap = 2
    MaxRetries = 2
    MaxSessions = 2
    MayTear = FALSE
    LogMayFail = FALSE
    MayPoison = TRUE
SPECIFICATION Spec
SYMMETRY FileSymmetry
INVARIANTS TypeOK NothingForgotten FlushBarrier ClaimableAsMatched
PROPERTIES TerminalIsFinal ImplementsLedger
CHECK_DEADLOCK FALSE

\* One session with a recovery log that may fail, under fairness; the channel
\* holds one message, so that senders and writer wait for each other, and a flush or
\* a Terminate can be taken into the batch that breaks the writer.
CONSTANTS
    Files = {f1, f2}
    Confidences = {100}
    Outcomes = {"Completed"}
    QueueCap = 1
    BatchCap = 2
    MaxRetries = 1
    MaxSessions = 1
    MayTear = TRUE
    LogMayFail = TRUE
    MayPoison = TRUE
SPECIFICATION FairSpec
PROPERTIES FlushReturns DropReturns
CHECK_DEADLOCK FALSE

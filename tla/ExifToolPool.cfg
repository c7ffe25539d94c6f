\* One engine for two consumers (the consumers outnumber the engines when max_workers is
\* small), a process that lasts for one operation, a process that dies, a forced exit.
SPECIFICATION FairSpec
CONSTANTS
    Engines = {e1}
    Callers = {c1, c2}
    Owner = owner
    Pids = {p1, p2, p3}
    None = none
    OpLimit = 1
    Answers = {"updated", "error"}
    MaxCalls = 3
    MaxDeaths = 1
    MayExit = TRUE
INVARIANTS
    SuccessIsOwn
    QuietAfterReturn
    EnginesConserved
    ChildrenAreKnown
PROPERTIES
    CallsReturn
    ShutdownEnds
CHECK_DEADLOCK FALSE

SPECIFICATION FairSpec
CONSTANTS
    Cap = 2
    Total = 1
    MaxRuns = 2
    MaxClicks = 1
    MaxNotes = 1
INVARIANTS
    SummaryIsExact
    SuccessIsClean
PROPERTIES
    EndIsShown
CHECK_DEADLOCK FALSE

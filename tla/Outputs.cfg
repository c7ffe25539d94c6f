\* In place: two originals and a file of an archive; one number to try for a name, so
\* that the next name is made of the time; the process may die and start again once.
SPECIFICATION Spec
CONSTANTS
    Files = {"a", "b", "c"}
    Real = {"a", "b"}
    InPlaceMode = TRUE
    Home <- MCHome
    Folder <- MCFolder
    Filename <- MCFilename
    Format <- MCFormat
    NoFormat = "none"
    Matched = {"a", "c"}
    UnmatchedEnabled = TRUE
    Earlier <- MCEarlier
    Stranger = "stranger"
    Nobody = "nobody"
    MaxTries = 1
    MaxSessions = 2
INVARIANTS
    OriginalsSurvive
    CompletedHasPicture
    MetadataIsOwn
PROPERTIES
    NothingOverwritten
CHECK_DEADLOCK FALSE

SPECIFICATION FairSpec
CONSTANTS
    NumRuns = 2
    MaxEntries = 1
    MaxRaised = 1
    FromThread = FromThread
INVARIANTS
    LogIsComplete
    SavedIsFinal
    AllIsSent
PROPERTIES
    EndsIdle
CHECK_DEADLOCK FALSE

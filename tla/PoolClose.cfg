CONSTANTS
    NoTask = 0
    AsyncThreads = 2
    MaxTasks = 2
SPECIFICATION FairSpec
PROPERTIES
    CloseReturns
CHECK_DEADLOCK FALSE

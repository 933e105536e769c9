CONSTANTS
    IoThreads = 2
    ClientWaits = TRUE
    MaxRequests = 2
SPECIFICATION Spec
INVARIANTS
    UpdatesWhatItWrote
CHECK_DEADLOCK FALSE

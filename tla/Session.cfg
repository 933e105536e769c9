\* The two threads of the program and a client that may pipeline its requests.
CONSTANTS
    IoThreads = 2
    ClientWaits = FALSE
    MaxRequests = 3
SPECIFICATION FairSpec
INVARIANTS
    TypeOK
    StreamIntact
    NoReplyDropped
PROPERTIES
    RepliesGoOut
    NothingKept
CHECK_DEADLOCK FALSE

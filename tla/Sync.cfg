\* main and _netThread, up to two connections, three requests.
CONSTANTS
    Threads = {main, net}
    Nobody = nobody
    SyncThreads = 2
    MaxRequests = 3
SPECIFICATION FairSpec
INVARIANTS
    TypeOK
    OneUser
    RowsAreMine
    OnlyFailedStoreFreesTwice
PROPERTIES
    SomeRequestIsAnswered
CHECK_DEADLOCK FALSE

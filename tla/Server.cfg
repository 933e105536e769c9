\* The two threads of the program, two clients and two queries.
CONSTANTS
    MaxQueries = 2
    MaxThens = 1
    Clients = {c1, c2}
    Nobody = nobody
SPECIFICATION FairServer
INVARIANTS
    ServerTypeOK
    OneTimerChain
PROPERTIES
    ClosedIsErased
    ClientIsServed
CHECK_DEADLOCK FALSE

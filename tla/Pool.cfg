\* Three workers and four tasks: one is left for a pool whose workers have all ended.
\* The process may end ("gone").
CONSTANTS
    NoTask = 0
    AsyncThreads = 3
    MaxTasks = 4
SPECIFICATION FairSpec
INVARIANTS
    TypeOK
    OneOwner
    TakenInOrder
    NoLostWakeup
    RunsOnOpenHandle
    ClosedPoolDiesSafely
    ClosedPoolAnswersAll
PROPERTIES
    ImplementsService
    AnsweredOrAbandoned
CHECK_DEADLOCK FALSE

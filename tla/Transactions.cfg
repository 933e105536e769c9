CONSTANTS
    MaxTransactions = 3
    MaxStatements = 2
    MaxAttempts = 2
SPECIFICATION FairSpec
INVARIANTS
    TypeOK
    AtomicOnceBegun
    NoDuplicateEffect
    NoTransactionLeaks
PROPERTIES
    EveryTaskAnswered
CHECK_DEADLOCK FALSE

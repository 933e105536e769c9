CONSTANTS
    MaxTransactions = 1
    MaxStatements = 2
    MaxAttempts = 2
SPECIFICATION Spec
INVARIANTS
    FailureIsReported
CHECK_DEADLOCK FALSE

CONSTANTS
    MaxQueries = 4
    MaxThens = 2
SPECIFICATION Spec
INVARIANTS
    NoForeignResult
    NoQueryForgotten
CHECK_DEADLOCK FALSE

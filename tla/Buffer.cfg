CONSTANTS
    InitialSize = 2
    MaxCapacity = 8
    MaxBytes = 5
SPECIFICATION Spec
INVARIANTS
    TypeOK
    IndicesInBounds
    StreamIntact
CHECK_DEADLOCK FALSE

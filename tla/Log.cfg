\* Three files besides the current one, two messages each, three seconds.
CONSTANTS
    MaxSize = 2
    MaxFiles = 3
    MaxMessages = 9
    MaxClock = 2
    MaxRestarts = 2
SPECIFICATION Spec
INVARIANTS
    TypeOK
    OthersSurvive
    SizeBounded
CHECK_DEADLOCK FALSE

\* Two requests on one connection, with query strings of up to four characters.
CONSTANTS
    MaxRequests = 2
    MaxQueryLength = 4
SPECIFICATION Spec
INVARIANTS
    TypeOK
    SectionsAgree
    QueriesFound
PROPERTIES
    EveryRequestAnswered
CHECK_DEADLOCK FALSE

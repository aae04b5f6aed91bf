SPECIFICATION FairSpec
CONSTANTS
    Threads = {main, a, b}
    Configurers = {main}
    Getters = {a}
    GetsAlone = TRUE
    TypeNames = {uuid, decimal}
    MaxCalls = 2
    MaxIndexes = 2
INVARIANTS
    TypeOK
    SharedIndex
    KnownTypesSeen
PROPERTIES
    CallsReturn
\* Every goroutine stops when it has made its calls.
CHECK_DEADLOCK FALSE

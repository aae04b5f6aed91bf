SPECIFICATION FairSpec
CONSTANTS
    Writers = {ci, dev}
    Validates = {ci}
    Size = 2
    NoFile = NoFile
    Initial = Initial
    MaxCalls = 2
INVARIANTS
    TypeOK
    TargetWhole
    ReturnsClean
PROPERTIES
    Promise
    CallsReturn
\* Both writers stop when they have made their calls.
CHECK_DEADLOCK FALSE

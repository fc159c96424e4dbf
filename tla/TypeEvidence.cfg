SPECIFICATION Spec
CONSTANTS
    Ops = {o1, o2}
    Scalars = {"int32_t", "int64_t"}
    Pointers = {"void*", "record*"}
    Sources = {"dataflow", "structural", "debugInfo"}
    MaxOffers = 5
INVARIANTS
    TypeOK
    StrongestWins
    ConflictHonest
PROPERTY
    NoDowngrade
CHECK_DEADLOCK FALSE

SPECIFICATION Spec
CONSTANTS
    Blocks = {b1, b2, b3}
    Null = Null
INVARIANTS
    OwnedExactlyOnce
    NothingHeldBetweenCalls
    EngineOutlivesHandle
CHECK_DEADLOCK FALSE

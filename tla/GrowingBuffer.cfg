SPECIFICATION FairSpec
CONSTANTS
    Initial = 4
    Max = 16
    MaxAttempts = 8
    Sizes = {0, 1, 2, 3, 4, 5, 6, 7, 8, 9, 10, 11, 12, 13, 14, 15, 16, 17, 18}
INVARIANTS
    TypeOK
    ReturnsLastProduct
    StableProductDelivered
PROPERTY
    EveryCallEnds

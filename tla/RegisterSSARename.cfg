SPECIFICATION FairSpec
CONSTANTS
    Blocks = {1, 2, 3, 4}
    Entry = 1
    Successors <- MCSuccessors
    Merge = Merge
    SlotWidth = 6
INVARIANTS
    DefinitionsApart
    StampMayReachRead
    SlotsKeepVersionsApart
PROPERTY
    PassEnds

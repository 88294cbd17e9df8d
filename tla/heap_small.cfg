\* Room for four blocks: every way to split, fill up, free and join.
SPECIFICATION FairSpec
CONSTANTS
    Start = 100
    Size = 52
    Requests = {0, 5, 24}
INVARIANTS
    Inv
    LiveDisjoint
    Coalesced
    FailsOnlyWhenFull
    NothingLost
PROPERTIES
    CallsReturn
    AllocatorSpec

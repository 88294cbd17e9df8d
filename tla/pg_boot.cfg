SPECIFICATION FairSpec
CONSTANT
    Boots <- AllBoots
INVARIANTS
    FreeIsUsable
    OneUse
    UserApart
    KernelMapped
    Loaded
    Inv
PROPERTIES
    Starts

\* make, a prudent user or anyone, each with tools interrupted anywhere.
SPECIFICATION Spec
CONSTANTS
    BlockCells = 13
    EntryCells = 3
    MaxFiles = 5
    ImageBlocks = 12
    BootCells = 9
    Users <- ThreeUsers
    Length <- Sizes
    Recipe <- MakeRecipe
    Stage2Names <- Bins
    ConfigName = "config.cfg"
    KernelPath <- Paths2
INVARIANTS
    ExtentsApart
    DirsKept
    FilesKept
    BuildBoots
    LoadersAgree
PROPERTIES
    FileStoreSpec
CHECK_DEADLOCK FALSE

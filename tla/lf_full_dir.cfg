\* More entries than a block has room for, but fewer than LABFS_MAX_DIRENTS.
SPECIFICATION Spec
CONSTANTS
    BlockCells = 7
    EntryCells = 3
    MaxFiles = 6
    ImageBlocks = 20
    BootCells = 6
    Users <- Careful
    Length <- Sizes
    Recipe <- MakeRecipe
    Stage2Names <- Bins
    ConfigName = "config.cfg"
    KernelPath <- Paths2
INVARIANT
    FilesKept

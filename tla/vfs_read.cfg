SPECIFICATION FairSpec
CONSTANTS
    Disks <- MCDisks
    Paths <- MCPaths
    Cells = 2
    Direct = 2
    Pointers = 2
    Room = 18
    Offsets = {0, 3, 9}
    Counts = {2, 20}
INVARIANTS
    Inv
    OpenFinds
PROPERTIES
    ReadReturns
    StaysInFile
    CallsReturn
CHECK_DEADLOCK FALSE

\* heap_init's own arguments (kernel.c:176).
SPECIFICATION Spec
CONSTANTS
    Start = 2097152
    Size = 1048576
    Requests = {600000, 448564}
INVARIANT
    LiveInRegion

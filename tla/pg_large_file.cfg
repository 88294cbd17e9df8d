SPECIFICATION Spec
CONSTANT
    Boots <- LargeFile
INVARIANT
    KernelReserved

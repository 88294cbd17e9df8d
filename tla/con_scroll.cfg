\* The screen, and the kernel's place, as they are; the program writes 33 lines.
SPECIFICATION Spec
CONSTANTS
    Width = 1024
    Height = 768
    KernelStart = 1048576
    BeforeInterrupts <- TwoLines
    Welcome <- OneLine
    Writes <- ThirtyThree
    LastWords <- Nothing
    BufferLimit = 255
    Sessions <- JustBoot
INVARIANT
    ScrollSpares
CHECK_DEADLOCK FALSE

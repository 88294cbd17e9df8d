\* Three rows of three characters; keys at any time.
SPECIFICATION FairSpec
CONSTANTS
    Width = 24
    Height = 48
    KernelStart = 754000
    BeforeInterrupts <- Hello
    Welcome <- Greeting
    Writes <- Texts
    LastWords <- Bye
    BufferLimit = 2
    Sessions <- FourSessions
INVARIANTS
    Inv
    Rendered
PROPERTIES
    CommandAsTyped
    KeysArrive
CHECK_DEADLOCK FALSE

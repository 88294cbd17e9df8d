\* No tick in the handoff window; a program that may exit or fault, and a heap
\* that may be too small for task_b's stack and userspace_init's.
SPECIFICATION FairSpec
CONSTANTS
    MaxProcesses = 16
    StackBudgets = {1, 2, 3}
    HandoffQuiet = TRUE
    UserCalls = {"write", "bad", "exit", "fault"}
INVARIANTS
    Inv
PROPERTIES
    ContextNeverLost
    HandoffDone
    NoStarvation
    HandlersReturn
    DispatcherSpec
CHECK_DEADLOCK FALSE

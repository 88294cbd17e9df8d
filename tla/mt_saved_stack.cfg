SPECIFICATION Spec
CONSTANTS
    MaxProcesses = 4
    StackBudgets = {3}
    HandoffQuiet = FALSE
    UserCalls = {"write"}
INVARIANT
    HandoffLoadsSavedStack
CHECK_DEADLOCK FALSE

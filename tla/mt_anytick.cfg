\* Ticks at any time, also inside the handoff; too few slots (three) and too
\* little heap for the kernel stacks.  The CPU may go wild or halt.
SPECIFICATION Spec
CONSTANTS
    MaxProcesses = 3
    StackBudgets = {0, 1, 2, 3}
    HandoffQuiet = FALSE
    UserCalls = {"write", "bad", "exit", "fault"}
INVARIANTS
    NestingBounded
    InterruptsAcknowledged
    ContextsExclusive
    OneRunning
    OnlyNewestLacksPageDir
CHECK_DEADLOCK FALSE

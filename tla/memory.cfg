CONSTANTS
    init = init
    child = child
    Process <- TwoProcesses
    KernelFrames = 11
    UserFrames = 4
    KernelPages = 7
    UserPages = 3
    PerArena = 2
    LargeSizes <- OneLargeSize
    MaxLive = 2
    Image <- AboveTheHeap
    Habits <- AllHabits
SPECIFICATION Spec
INVARIANTS TypeOK NoPanic PagesHaveOneOwner NothingIsForgotten HeapIsExact
CHECK_DEADLOCK FALSE

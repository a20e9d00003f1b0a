CONSTANTS
    init = init
    child = child
    Process <- TwoProcesses
    KernelFrames = 10
    UserFrames = 4
    KernelPages = 7
    UserPages = 3
    PerArena = 2
    LargeSizes <- OneLargeSize
    MaxLive = 2
    Image <- AsLinked
    Habits <- AnyProgram
SPECIFICATION Spec
INVARIANT FirstPageIsLoaded
CHECK_DEADLOCK FALSE

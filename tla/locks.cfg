CONSTANTS
    main = main
    init = init
    child = child
    idle = idle
    none = none
    Thread <- ThreeClients
    Process <- TwoProcesses
    idle_thread <- idle
    main_thread <- main
    init_process <- init
    Priority <- TwoTicks
    nobody <- none
    MaxDepth = 2
SPECIFICATION Spec
INVARIANTS TypeOK NoPanic OneListPerThread MutualExclusion HolderIsExact NoLostWakeup
PROPERTY StepsOfMutex

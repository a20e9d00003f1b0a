CONSTANTS
    main = main
    init = init
    child = child
    idle = idle
    none = none
    Thread <- ThreeClients
    Process <- TwoProcesses
    idle_thread <- idle
    main_thread <- main
    init_process <- init
    Priority <- OneTick
    nobody <- none
    MaxDepth = 1
SPECIFICATION TimedSpec
PROPERTIES ReadyThreadRuns ImplementsMutex

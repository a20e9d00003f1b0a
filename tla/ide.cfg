CONSTANTS
    main = main
    init = init
    idle = idle
    null = null
    a = a
    b = b
    master = master
    slave = slave
    Thread <- ThreeThreads
    Process <- OneProcess
    idle_thread <- idle
    main_thread <- main
    init_process <- init
    Priority <- OneTick
    nobody <- null
    none <- null
    Disk = {master, slave}
    Sector <- ThreeSectors
    Datum = {a, b}
    Chunk = 2
    Request <- TwoDisks
    SlowData = FALSE
SPECIFICATION FairSpec
INVARIANTS TypeOK NoPanic CommandsFindDiskIdle NothingIsLeftOver
PROPERTIES ImplementsDiskStore RequestsEnd

CONSTANTS
    main = main
    init = init
    child = child
    idle = idle
    none = none
    a = a
    b = b
    Thread <- FourThreads
    Process <- TwoProcesses
    idle_thread <- idle
    main_thread <- main
    init_process <- init
    Priority <- OneTick
    nobody <- none
    bufsize = 3
    Char = {a, b}
SPECIFICATION FairSpec
INVARIANTS NoPanic WaitersHaveAWaker OneConsumerMeansEmpty
PROPERTIES ImplementsFifo OneReaderIsServed

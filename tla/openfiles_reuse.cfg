CONSTANTS
    shell = shell
    child = child
    main = main
    Process = {shell, child}
    File = {1, 2, 3}
    Directory = {1}
    Existing = {1, 2}
    Blocks = 3
    Slots = 2
    Fds = 1
    Counts = 16
    SyncNumbers = 256
    Reuse = TRUE
    StaleForks = FALSE
    LateCounts = FALSE
SYMMETRY AnyProcess
SPECIFICATION Spec
INVARIANTS SearchesEnd
CHECK_DEADLOCK FALSE

CONSTANTS
    bin = bin
    doc = doc
    Name <- TwoNames
    Inodes = 4
    SyncNumbers = 4
    Blocks = 3
    Direct = 2
    PerSector = 3
    MaxDepth = 2
    Argument <- TypedPaths
    MaxOpen = 1
    Habits <- AllHabits
SPECIFICATION Spec
INVARIANTS NoPanic TreeIsSound BlocksHaveOneOwner DiskIsCurrent WashedPathsAgree
PROPERTY ImplementsTree
SYMMETRY SameNames

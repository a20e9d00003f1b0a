CONSTANTS
    p = p
    q = q
    f = f
    g = g
    Process = {p, q}
    File = {f, g}
    BLOCK_SIZE = 2
    Direct = 2
    DataBlock = {1, 2, 3, 4, 5}
    Count = {1, 3}
    AnyCall = FALSE
SPECIFICATION Spec
INVARIANTS NoPanic FileHoldsItsBytes ReadsAreExact BlocksHaveOneOwner

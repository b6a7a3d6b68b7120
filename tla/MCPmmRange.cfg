SPECIFICATION Spec
CONSTANTS
    WordBits = 4
    MaxBlocks = 7
    Base = 2
    BlockSize = 2
    MapEnd = 11
    U32 = 64
    HeapBlocks = 3
    ReturnedBlocks = 2
    Sizes = {1, 2}
    Clients = {c1, c2, c3, c4}
    None = None
PROPERTIES
    RangeWasFree
CHECK_DEADLOCK FALSE

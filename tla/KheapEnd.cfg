SPECIFICATION Spec
CONSTANTS
    Start = 1
    HeapSize = 8
    HdrSize = 2
    PtrSize = 1
    Sizes = {0, 1, 3, 8}
    Aligns = {2}
    MaxUsed = 18
    MaxList = 3
    Handles = {h1, h2}
    Null = Null
INVARIANTS
    WithinHeap

SPECIFICATION Spec
CONSTANTS
    RX_DESCRIPTORS = 2
    TX_DESCRIPTORS = 3
    RegisterRange = 5
    MaxFrames = 4
    MaxSends = 2
    None = None
INVARIANTS
    TypeOK
    InOrder
    HandedOnce
    WireFifo
PROPERTIES
    HandedUp
\* after MaxFrames and MaxSends nothing is left to do
CHECK_DEADLOCK FALSE

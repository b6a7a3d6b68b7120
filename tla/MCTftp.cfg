SPECIFICATION Spec
CONSTANTS
    short = short
    long = long
    Files = {short, long}
    SizeOf <- MCSizeOf
    Limits = {2}
    BlockSize = 2
    U16 = 8
    MaxCalls = 2
    MaxDups = 1
    MaxLosses = 1
    None = None
INVARIANTS
    TypeOK
    WholeFile
    ReportedFits
    Lockstep
PROPERTIES
    Answered
\* after MaxCalls nobody calls, and a lost request is never answered
CHECK_DEADLOCK FALSE

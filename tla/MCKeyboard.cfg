SPECIFICATION Spec
CONSTANTS
    a = a
    one = one
    caps = caps
    shift = shift
    Size = 5
    Polls = 2
    Letters = {a}
    Symbols = {one}
    Direct = {}
    Caps = caps
    Shift = shift
    CodeOf <- MCCodeOf
    PlainOf <- MCPlainOf
    OtherOf <- MCOtherOf
    Watched = 1
    MaxIrqs = 3
INVARIANTS
    TypeOK
    OneShotRead
    NothingInvented
    SlowTypingArrives
PROPERTIES
    LoopGoesOn
\* the waiting readers wait for a key, and typing stops at MaxIrqs
CHECK_DEADLOCK FALSE

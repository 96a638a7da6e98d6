SPECIFICATION FairSpec
CONSTANTS
    Caller = {c1, c2}
    None = None
    ShortRetries = 2
    MaxCalls = 4
INVARIANTS
    TypeOK
    OneProcess
PROPERTIES
    CallsReturn
CHECK_DEADLOCK FALSE

CONSTANTS
    Tab = {t1, t2}
    Call = {c1, out}
    LogoutCall = {out}
    None = None
    MaxPairs = 8
    MaxExpirations = 1
    MaxEvents = 1
SPECIFICATION FairSpec
INVARIANT TypeOK
PROPERTIES RefreshOnce SessionKept CallsEnd
CHECK_DEADLOCK FALSE

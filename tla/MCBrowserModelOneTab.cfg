SPECIFICATION FairSpec
CONSTANTS
    Tabs = {t1}
    Clients = {k1, k2}
    Workers = {w1, w2}
    MaxOps = 1
    MaxTimeouts = 1
    MaxDetaches = 1
    NoOne = NoOne
INVARIANTS SessionsAreReal NoDebuggerLeak
PROPERTIES OnlyLostSessionsEnd AttachReturns
CHECK_DEADLOCK FALSE

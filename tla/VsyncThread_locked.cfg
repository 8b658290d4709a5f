SPECIFICATION FairSpec
CONSTANTS
    Threads = {t1, t2}
    Registrants = {t1}
    Callbacks = {f1, f2}
    NoCallback = none
    Workers = {w1, w2}
    MaxCalls = 3
    ClientLocked = TRUE
    Nobody = nobody
    t1 = t1
    t2 = t2
    f1 = f1
    f2 = f2
    w1 = w1
    w2 = w2
CHECK_DEADLOCK FALSE
PROPERTIES
    CallbackAlwaysReturns

SPECIFICATION FairSpec
CONSTANTS
    t1 = t1 t2 = t2 t3 = t3 p1 = p1 p2 = p2
    Threads = {t1, t2}
    ProcessOf <- MCProcessOf
    Locks = {l1, l2}
    NoThread = NoThread
    NoLock = NoLock
    NoDoc = NoDoc
    Lifetime = 2
    KeepAlive = 1
    Timeouts = {0, 1}
    MaxDepth = 2
    ExpirationOn = TRUE
    Scoped = FALSE
    Prompt = FALSE
INVARIANTS TypeOK
PROPERTIES ConstructorReturns UnattendedGoes

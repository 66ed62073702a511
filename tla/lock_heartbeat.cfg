SPECIFICATION Spec
CONSTANTS
    t1 = t1 t2 = t2 t3 = t3 p1 = p1 p2 = p2
    Threads = {t1, t3}
    ProcessOf <- MCProcessOf
    Locks = {l1, l2}
    NoThread = NoThread
    NoLock = NoLock
    NoDoc = NoDoc
    Lifetime = 4
    KeepAlive = 2
    Timeouts = {0}
    MaxDepth = 2
    ExpirationOn = TRUE
    Scoped = TRUE
    Prompt = FALSE
INVARIANTS MutualExclusion

SPECIFICATION Spec
CONSTANTS
    t1 = t1 t2 = t2 t3 = t3 p1 = p1 p2 = p2
    Threads = {t1, t2, t3}
    ProcessOf <- MCProcessOf
    Locks = {l1, l2, l3, l4}
    NoThread = NoThread
    NoLock = NoLock
    NoDoc = NoDoc
    Lifetime = 2
    KeepAlive = 4
    Timeouts = {0, 1}
    MaxDepth = 2
    ExpirationOn = TRUE
    Scoped = TRUE
    Prompt = TRUE
SYMMETRY LockSymmetry
INVARIANTS MutualExclusion DocumentBacksLock CountIsNesting
PROPERTIES NoForeignDelete ImplementsReentrantLock

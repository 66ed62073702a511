SPECIFICATION Spec
CONSTANTS
    w1 = w1 w2 = w2 w3 = w3 p1 = p1 p2 = p2 e1 = e1 e2 = e2 high = high low = low
    Queues <- MCOneQueue
    Entries = {e1}
    QueueOf <- MCQueueOf
    Workers = {w1}
    ProcessOf <- MCProcessOf
    NoEntry = NoEntry
    Invisibility = 2
    Faulty = {}
    Reenqueue = FALSE
    Prompt = FALSE
PROPERTIES RequeueMakesVisible

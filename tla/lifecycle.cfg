SPECIFICATION FairSpec
CONSTANTS
    w1 = w1 w2 = w2 c1 = c1 c2 = c2 j1 = j1
    Jobs = {j1}
    Workers = {w1, w2}
    Clients = {c1, c2}
    NoJob = NoJob
    Nobody = Nobody
    Absent = Absent
    NoCopy = NoCopy
    Careful = TRUE
    Patient = TRUE
INVARIANTS TypeOK UnfinishedIsQueued
PROPERTIES JobsEnd QueueDrains ImplementsBackgroundJob

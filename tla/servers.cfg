SPECIFICATION FairSpec
CONSTANTS
    s1 = s1 s2 = s2
    Servers = {s1, s2}
    TimeOut = 2
    Steady = {s2}
    Interval = 1
    MaxLag = 1
    Absent = Absent
    Idle = Idle
INVARIANTS TypeOK RunningIsListed
PROPERTIES RunningComesBack StoppedIsForgotten

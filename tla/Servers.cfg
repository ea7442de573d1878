SPECIFICATION Spec
CONSTANTS
    k1 = k1
    k2 = k2
    Clients = {k1, k2}
    Buffer = 1
    Rooms = {1, 2}
    MaxLines <- MCMaxLines
    Peers = {k1, k2}
    Threads = {1, 2}
    MaxReaders = 1
    MaxStarts = 2
    Repeats <- MCRepeats
    Ids = {1, 2}
    Periods = {1, 2, 3}
    Limits <- MCLimits
    Horizon = 4
    Keys = {1, 2, 3}
    NumBuckets = 2
    Hash <- MCHash
    w1 = w1
    w2 = w2
    g1 = g1
    CallsOf <- MCCallsOf
INVARIANTS
    OnlyDeadClosed
    Linearizable
    CallsAfterStop
PROPERTIES
    EveryoneServed
    FiredExactly
CHECK_DEADLOCK FALSE

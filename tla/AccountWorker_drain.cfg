SPECIFICATION FairSpec
CONSTANTS
    w1 = w1
    w2 = w2
    a1 = a1
    Workers = {w1}
    Accounts = {a1}
    Owner <- Alone
    Strategies = {s1}
    Malformed = Malformed
    NoWorker = NoWorker
    MaxPositions = 2
    MaxMsgs = 1
    MaxFlips = 2
    MaxCrashes = 0
PROPERTIES
    DrainEnds
CHECK_DEADLOCK FALSE

SPECIFICATION FairSpec
CONSTANTS
    a = a
    b = b
    c = c
    w1 = w1
    w2 = w2
    Job = {a}
    Worker = {w1, w2}
    Token = {1, 2, 3}
    NoToken = NoToken
    NoWorker = NoWorker
    NoJob = NoJob
    MaxRetries = 1
    Slots = 1
    ScanLimit = 1
    Unsupported = {}
    MaxFaults = 1
    MaxBeats = 3
PROPERTIES
    EveryJobSettles
    SettledMessagesLeave
    SlotsComeBack
CHECK_DEADLOCK FALSE

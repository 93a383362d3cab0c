SPECIFICATION Spec
CONSTANTS
    a = a
    b = b
    c = c
    w1 = w1
    w2 = w2
    Job = {a,b,c}
    Worker = {w1}
    Token = {1,2}
    NoToken = NoToken
    NoWorker = NoWorker
    NoJob = NoJob
    MaxRetries = 1
    Slots = 2
    ScanLimit = 1
    Unsupported = {c}
    MaxFaults = 1
    MaxBeats = 0
INVARIANTS
    NoLostJob
    OwnIdentity
PROPERTIES
    ImplementsLifecycle
CHECK_DEADLOCK FALSE

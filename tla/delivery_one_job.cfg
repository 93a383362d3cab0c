SPECIFICATION Spec
CONSTANTS
    a = a
    b = b
    c = c
    w1 = w1
    w2 = w2
    Job = {a}
    Worker = {w1, w2}
    Token = {1, 2, 3, 4}
    NoToken = NoToken
    NoWorker = NoWorker
    NoJob = NoJob
    MaxRetries = 1
    Slots = 2
    ScanLimit = 1
    Unsupported = {}
    MaxFaults = 2
    MaxBeats = 4
SYMMETRY WorkerSymmetry
INVARIANTS
    VersionsOfTheirExecution
    RetriesAreCounted
    SucceededByLastHolder
    OverlapNeedsFault
PROPERTIES
    FinishedStaysFinished
    StaleAttemptIsInert
CHECK_DEADLOCK FALSE

SPECIFICATION Spec
CONSTANTS
    a = a
    b = b
    c = c
    t1 = t1
    t2 = t2
    t3 = t3
    Job = {a, b}
    Token = {t1, t2, t3}
    NoToken = NoToken
    NoJob = NoJob
    MaxRetries = 1
SYMMETRY Symmetry
INVARIANTS
    SucceededIsComplete
    VersionsHaveBytes
    RetriesStartClean
PROPERTIES
    ImplementsLifecycle
CHECK_DEADLOCK FALSE

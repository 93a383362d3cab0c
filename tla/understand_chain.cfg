SPECIFICATION Spec
CONSTANTS
    a = a
    b = b
    c = c
    t1 = t1
    t2 = t2
    t3 = t3
    Job = {a, b, c}
    Token = {t1, t2}
    NoToken = NoToken
    NoJob = NoJob
    MaxRetries = 1
INVARIANTS
    ChainLeavesOneGraph
CHECK_DEADLOCK FALSE

SPECIFICATION Spec
CONSTANTS
  Request = {q1, q2, q3}
  Key = {k1, k2}
  Shielded = {k1}
  Span = {s1}
  None = None
  MaxRetries = 1
  MaxFaults = 1
INVARIANTS
  IdempotentRoutesSucceed
  AnswersAgree
  NoOrphanWorkflows
  RetriesAreEarned
CHECK_DEADLOCK FALSE

SPECIFICATION Spec
CONSTANTS
  Request = {q1, q2}
  Pending = {k1}
  Job = {j1}
  Deletion = {d1}
  Work = {w1}
  None = None
  MaxFaults = 2
SYMMETRY Symmetry
INVARIANTS
  VersionsKeepBytes
  FailedUploadsLeaveNothing
  OrphansWereUnseen
CHECK_DEADLOCK FALSE

SPECIFICATION FairSpec
CONSTANTS
  Operator = {p1, p2}
  Count = 2
  Later = {v1}
  MaxFaults = 2
INVARIANTS
  CopiesHaveBytes
  CopiesAreOfTheLatest
  ReportsAreTrue
PROPERTIES
  RerunsConverge
CHECK_DEADLOCK FALSE

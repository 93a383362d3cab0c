SPECIFICATION FairSpec
CONSTANTS
    None = None
    Work = {1, 2}
    Library = {1}
    MaxGestures = 2
    MaxFailures = 1
INVARIANTS
    ContentIsOfActiveWork
    RunningIsLookedAfter
    DeletedWorksLeave
PROPERTIES
    EndsAreNoticed
CHECK_DEADLOCK FALSE

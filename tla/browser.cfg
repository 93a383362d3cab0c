SPECIFICATION BrowserSpec
CONSTANTS
    Recording = {1, 2}
    Rank = {1, 2, 3}
    Length = 2
    MaxWaiting = 2
    Watcher = {1, 2}
    Nobody = Nobody
    MaxAttempts = 3
    MaxFailures = 2
    Pitch = {1, 2}
    End = 3
    Transcription <- LongNote
    NewNote <- ShortNote
    None = None
    MaxSaves = 2
    MaxMoves = 2
    MaxFaults = 1
INVARIANTS
    ShownSourceIsHeard
    CompareIsCoherent
    SwitchesKeepThePlace
    SavedIsTheDraft
    SucceededIsWhole
    OneJobPerSave
PROPERTIES
    EveryWaitSettles
    LossIsEarned
    SavesSettle
CHECK_DEADLOCK FALSE

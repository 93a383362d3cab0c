SPECIFICATION BrowserSpec
CONSTANTS
    Recording = {1}
    Rank = {1}
    Length = 1
    MaxWaiting = 1
    Watcher = {1}
    Nobody = Nobody
    MaxAttempts = 1
    MaxFailures = 1
    Pitch = {1, 2}
    End = 3
    Transcription <- LongNote
    NewNote <- ShortNote
    None = None
    MaxSaves = 1
    MaxMoves = 1
    MaxFaults = 0
INVARIANT ErrorsAreOfUnsavedCorrections
CHECK_DEADLOCK FALSE

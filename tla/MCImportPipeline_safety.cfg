SPECIFICATION FairSpec
CONSTANTS
    w1 = w1 w2 = w2 c1 = c1 c2 = c2 f1 = f1 f2 = f2 f3 = f3
    mp3 = mp3 flac = flac other = other torn = torn
    song = song song2 = song2 tornsong = tornsong
    root = root albums = albums none = none
    Workers = {w1}
    Clients = {c1}
    Sources = {f1, f2}
    Contents = {mp3, flac, other, torn}
    Torn = torn
    Recordings = {song, song2, tornsong}
    Recording <- RecordingOf
    Folders = {root}
    Root = root
    None = none
    MaxJobs = 2
    MaxFiles = 3
    MaxRestarts = 1
    Faults = TRUE
    ScanDuringUpload = FALSE
CHECK_DEADLOCK FALSE
INVARIANTS
    TypeOK
    RowsBacked
    NothingLost
PROPERTIES
    
    DuplicateExists
    JobsEnd

SPECIFICATION Spec
CONSTANTS
    w1 = w1 w2 = w2 c1 = c1 c2 = c2 f1 = f1 f2 = f2 f3 = f3
    mp3 = mp3 flac = flac other = other torn = torn
    song = song song2 = song2 tornsong = tornsong
    root = root albums = albums none = none
    Workers = {w1, w2}
    Clients = {c1}
    Sources = {f1, f2}
    Contents = {mp3, torn}
    Torn = torn
    Recordings = {song, song2, tornsong}
    Recording <- RecordingOf
    Folders = {root}
    Root = root
    None = none
    MaxJobs = 2
    MaxFiles = 2
    MaxRestarts = 0
    Faults = FALSE
    ScanDuringUpload = FALSE
CHECK_DEADLOCK FALSE
PROPERTY DuplicateExists

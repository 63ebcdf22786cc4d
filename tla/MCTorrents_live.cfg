SPECIFICATION Spec
CONSTANTS
    r1 = r1 t1 = t1 none = none
    Requests = {r1}
    TorrentSet = {t1}
    NoHash = none
    FileCount = 2
    MaxJobs = 1
    MaxRows = 3
    MaxRestarts = 1
CHECK_DEADLOCK FALSE
INVARIANTS
    TypeOK
    WholeTorrentQueued
    SeedsAfterImports
PROPERTIES
    FinishedIsQueued
    ImportingEnds
    DeletedSpared

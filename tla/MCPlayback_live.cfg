SPECIFICATION FairSpec
CONSTANTS
    s1 = s1
    s2 = s2
    s3 = s3
    r1 = r1
    none = none
    Songs = {s1, s2}
    Stations = {}
    None = none
    MaxQueue = 2
    MaxEvents = 2
    UniqueQueue = TRUE
    LoadErrors = FALSE
    RepeatModes = {"off", "queue"}
PROPERTIES
    QueuePlaysOut
    RestoredAfterCrash

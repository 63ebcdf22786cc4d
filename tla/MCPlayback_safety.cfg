SPECIFICATION Spec
CONSTANTS
    s1 = s1
    s2 = s2
    s3 = s3
    r1 = r1
    none = none
    Songs = {s1, s2}
    Stations = {r1}
    None = none
    MaxQueue = 3
    MaxEvents = 2
    UniqueQueue = FALSE
    LoadErrors = TRUE
    RepeatModes = {"off", "track", "queue"}
SYMMETRY SongSymmetry
INVARIANTS
    TypeOK
    
    
 

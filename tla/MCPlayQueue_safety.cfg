SPECIFICATION Spec
CONSTANTS
    c1 = c1
    c2 = c2
    loop = loop
    Clients = {c1, c2}
    EventLoop = loop
    MaxItem = 3
    MaxRows = 4
    SongDeletes = TRUE
    Restarts = TRUE
SYMMETRY ClientSymmetry
INVARIANTS
    TypeOK
    ShuffleCoversQueue
    PositionsDense

SPECIFICATION Spec
CONSTANTS
    loop = loop post = post c1 = c1 r1 = r1 r2 = r2 none = none own = own shared = shared
    Runners = {loop, post}
    Loop = loop
    Clients = {c1}
    Recordings = {r1}
    None = none
    Albums = {own, shared}
    Album <- AlbumOf
    Embedded = {FALSE}
    Attempts = 3
    Limit = 2
    MaxSong = 2
    MaxRequests = 4
    MaxLives = 2
CHECK_DEADLOCK FALSE
PROPERTY NothingStranded

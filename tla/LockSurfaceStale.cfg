SPECIFICATION CarelessSurfaceSpec
CONSTANTS
    Locks = {l1}
    Objs = {o1}
    NULL = NULL
    Other = Other
    Windows = {w1}
    Outputs = {m1}
    Structs = {1}
    Ids = {1}
    MaxShows = 1
    MaxConfigures = 1
PROPERTY MapsOnLiveLock

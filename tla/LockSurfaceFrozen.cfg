SPECIFICATION FairSurfaceSpec
CONSTANTS
    Locks = {l1}
    Objs = {o1}
    NULL = NULL
    Other = Other
    Windows = {w1}
    Outputs = {m1}
    Structs = {1}
    Ids = {1, 2}
    MaxShows = 2
    MaxConfigures = 1
PROPERTY WindowIsShown

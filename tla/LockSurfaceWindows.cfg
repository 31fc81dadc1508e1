SPECIFICATION SurfaceSpec
CONSTANTS
    Locks = {l1}
    Objs = {o1}
    NULL = NULL
    Other = Other
    Windows = {w1, w2}
    Outputs = {m1, m2}
    Structs = {1, 2}
    Ids = {1, 2}
    MaxShows = 1
    MaxConfigures = 1
SYMMETRY SurfaceSymmetry
INVARIANTS SurfaceTypeOK NoSurfaceProtocolError LivesAsLongAsWindow

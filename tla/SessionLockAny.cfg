SPECIFICATION AnySpec
CONSTANTS
    Locks = {l1, l2}
    Objs = {o1, o2, o3}
    NULL = NULL
    Other = Other
SYMMETRY Symmetry
INVARIANTS TypeOK HandleIntegrity

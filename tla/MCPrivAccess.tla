---------------------------- MODULE MCPrivAccess ----------------------------
(* PrivAccess with the tables of the generated headers.                    *)
EXTENDS PrivAccess, PrivHeaders

(* The same function, computed once: TLC evaluates f @@ g as a whole, but  *)
(* a function constructor at each use of one of its values.                *)
Computed(f) == f @@ [x \in {} |-> x]

Structs   == DOMAIN Layouts
IdsOf(h)  == 0 .. Len(Layouts[h]) - 1

Validity ==
    Computed([h \in Structs |-> Computed([id \in IdsOf(h) |->
        [first |-> Layouts[h][id + 1].first, last |-> Layouts[h][id + 1].last]])])

Embedded ==
    Computed([h \in Structs |-> Computed([id \in IdsOf(h) |-> Range(Layouts[h][id + 1].parts)])])

Places ==
    Computed([h \in Structs |-> Computed([id \in IdsOf(h) |->
        Computed(Offsets(Members[h][id + 1], Layouts[h][id + 1].parts))])])

Release(major, combos) == {[major |-> major, minor |-> c \div 1000, micro |-> c % 1000] : c \in combos}

MCHeaders   == Structs
MCVersionId == VersionIds
MCValid     == Validity
MCAddress   == Places
MCParts     == Embedded
MCAccessor  == Accessors

(* All releases, 3.24.19, some that came later, and some that are too old. *)
MCReleases ==
    Release(3, KnownReleases \cup {20000, 21009, 22031, 23004, 24019, 24042, 24043, 25000, 89001})
    \cup Release(2, {24033}) \cup Release(4, {0, 22000})

Symmetry == Permutations(Windows)
=============================================================================

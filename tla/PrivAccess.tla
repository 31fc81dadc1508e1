----------------------------- MODULE PrivAccess -----------------------------
(***************************************************************************)
(* How the library reaches into GDK (src/src/gtk-priv-access.c): when a    *)
(* lock window is mapped, it sets the `mapped' bit of the window's private *)
(* GdkWindowImplWayland, where the GTK that happens to be running keeps    *)
(* it.  The place comes from generated headers (gtk-priv/h), each of which *)
(* caches in a static variable which definition of its struct to use.      *)
(*                                                                         *)
(* The tables of the headers are parameters; PrivHeaders has the real      *)
(* ones.  Ids count from 0.                                                *)
(***************************************************************************)
EXTENDS Integers, Sequences, FiniteSets

CONSTANTS
    Headers,   \* the private structs
    VersionId, \* per header: releases known to get_version_id(), first release of each id > 0
    Valid,     \* per header and id: the releases its definition is valid for
    Address,   \* per header and id: the place of each member
    Parts,     \* per header and id: the structs embedded by value, with their ids
    Accessor,  \* per header: its accessors
    Releases,  \* versions of GTK that the process may find
    Windows,
    MaxQueries \* how many other headers are used in one process

VARIABLES
    gtk,        \* the version that is running
    warn,       \* GTK_SESSION_LOCK_UNSUPPORTED_GTK_WARNING is set
    version_id, \* per header: the static variable of get_version_id(), -1 at first
    shown,      \* the static variable of the warning
    warnings,   \* warnings printed
    process,    \* "running" or "aborted"
    win,        \* per window: its GTK state
    mapped,     \* per window: the bit, where GDK has it
    damaged     \* per window: something else of its GDK structs was overwritten

vars == <<gtk, warn, version_id, shown, warnings, process, win, mapped, damaged>>

Window == "GdkWindow"
Impl   == "GdkWindowImplWayland"

Ids(h) == DOMAIN Valid[h]
Combo  == gtk.minor * 1000 + gtk.micro

ASSUME TablesHaveTypes ==
    /\ {Window, Impl} \subseteq Headers
    /\ \A r \in Releases : r.major \in Nat /\ r.minor \in Nat /\ r.micro \in 0..999
    /\ \A h \in Headers :
        /\ VersionId[h].first \in Seq(Nat) /\ Ids(h) = 0 .. Len(VersionId[h].first)
        /\ \A k \in Ids(h) : Valid[h][k].first \in Nat /\ Valid[h][k].last \in Nat
    /\ MaxQueries \in Nat

(* A header gives two accounts of its versions: the comparisons in         *)
(* get_version_id() must start a definition where the comment on it says   *)
(* it begins to be valid, after every release the earlier ones are valid   *)
(* for.  And in every version there must be a bit to set.                  *)
ASSUME TablesAgree ==
    /\ \A h \in Headers : \A k \in DOMAIN VersionId[h].first :
        /\ VersionId[h].first[k] = Valid[h][k].first
        /\ \A j \in 0 .. k - 1 : Valid[h][j].last < Valid[h][k].first
    /\ \A k \in Ids(Window) : "impl" \in DOMAIN Address[Window][k]
    /\ \A k \in Ids(Impl) : "mapped" \in DOMAIN Address[Impl][k]

(* A struct is embedded in another by the definition it has as long as the *)
(* other keeps its own: it starts no later and ends no earlier, going by   *)
(* the comparisons of the two headers.                                     *)
ASSUME PartsAreInStep ==
    \A h \in Headers : \A k \in Ids(h) : \A p \in Parts[h][k] :
        /\ p.header \in Headers /\ p.id \in Ids(p.header)
        /\ p.id # 0 => k # 0 /\ VersionId[p.header].first[p.id] <= VersionId[h].first[k]
        /\ \A j \in DOMAIN VersionId[p.header].first : j > p.id =>
            \E l \in DOMAIN VersionId[h].first :
                l > k /\ VersionId[h].first[l] <= VersionId[p.header].first[j]

(* An accessor works for the ids whose definition has its member.          *)
ASSUME AccessorsAreDeclared ==
    \A h \in Headers : \A k \in Ids(h) : \A a \in Accessor[h] :
        k \in a.ids <=> a.member \in DOMAIN Address[h][k]

(* The definition that the running GTK has, going by what the header says  *)
(* of the releases it is valid for.                                        *)
Covered(h) == \E k \in Ids(h) : Combo \in Valid[h][k].first .. Valid[h][k].last
Real(h)    == CHOOSE k \in Ids(h) : Combo \in Valid[h][k].first .. Valid[h][k].last

TypeOK ==
    /\ gtk \in Releases /\ warn \in BOOLEAN
    /\ version_id \in [Headers -> Int]
    /\ \A h \in Headers : version_id[h] \in Ids(h) \cup {-1}
    /\ shown \in BOOLEAN /\ warnings \in Nat
    /\ process \in {"running", "aborted"}
    /\ win \in [Windows -> {"new", "realized", "mapped"}]
    /\ mapped \in [Windows -> BOOLEAN] /\ damaged \in [Windows -> BOOLEAN]

Init ==
    /\ gtk \in Releases /\ warn \in BOOLEAN
    /\ version_id = [h \in Headers |-> -1]
    /\ shown = FALSE /\ warnings = 0 /\ process = "running"
    /\ win = [w \in Windows |-> "new"]
    /\ mapped = [w \in Windows |-> FALSE] /\ damaged = [w \in Windows |-> FALSE]

-----------------------------------------------------------------------------
(* get_version_id() of a header.                                           *)

(* mutant: the major version is not looked at *)
AnyMajorVersion == gtk.minor >= 22

(* gtk_priv_assert_gtk_version_valid() *)
GtkVersionValid == gtk.major = 3 /\ gtk.minor >= 22

(* mutant: a release is not taken for the first of its definition *)
VersionIdTooStrict(h) ==
    LET begun == {0} \cup {k \in DOMAIN VersionId[h].first : Combo > VersionId[h].first[k]}
    IN  CHOOSE k \in begun : \A j \in begun : j <= k

(* mutant: ids counted from 1 *)
VersionIdOffByOne(h) ==
    LET begun == {0} \cup {k \in DOMAIN VersionId[h].first : Combo >= VersionId[h].first[k]}
    IN  1 + CHOOSE k \in begun : \A j \in begun : j <= k

(* mutant: one header dates a definition later than the headers it is in  *)
VersionIdOutOfStep(h) ==
    LET late  == IF h = "GdkWindowImplClass" THEN 1 ELSE 0
        begun == {0} \cup {k \in DOMAIN VersionId[h].first : Combo >= VersionId[h].first[k] + late}
    IN  CHOOSE k \in begun : \A j \in begun : j <= k

(* The chain of comparisons, from the last definition to the first.        *)
NewVersionId(h) ==
    LET begun == {0} \cup {k \in DOMAIN VersionId[h].first : Combo >= VersionId[h].first[k]}
    IN  CHOOSE k \in begun : \A j \in begun : j <= k

IdOf(h) == IF version_id[h] = -1 THEN NewVersionId(h) ELSE version_id[h]

(* mutant: every header warns for itself *)
WarnEachTime(used) ==
    LET unknown == \E h \in used : version_id[h] = -1 /\ Combo \notin VersionId[h].known
    IN  /\ shown' = (shown \/ unknown)
        /\ warnings' = IF unknown /\ warn THEN warnings + 1 ELSE warnings

(* gtk_priv_warn_gtk_version_may_be_unsupported(), called by the headers   *)
(* of `used' that have no id yet and do not know the version.              *)
Warn(used) ==
    LET unknown == \E h \in used : version_id[h] = -1 /\ Combo \notin VersionId[h].known
    IN  /\ shown' = (shown \/ unknown)
        /\ warnings' = IF unknown /\ ~shown /\ warn THEN warnings + 1 ELSE warnings

(* The first use of a header takes its id for good.                        *)
TakeIds(used) ==
    /\ version_id' = [h \in Headers |-> IF h \in used THEN IdOf(h) ELSE version_id[h]]
    /\ Warn(used)

Fails(used) == (\E h \in used : version_id[h] = -1) /\ ~GtkVersionValid

Abort ==
    /\ process' = "aborted"
    /\ UNCHANGED <<gtk, warn, version_id, shown, warnings, win, mapped, damaged>>

-----------------------------------------------------------------------------
(* The running GTK has member m where this id of the header says.          *)
Fits(h, id, m) ==
    m \in DOMAIN Address[h][Real(h)] /\ Address[h][id][m] = Address[h][Real(h)][m]

(* Whether an accessor reaches its member; of a GTK that the header is not *)
(* valid for nothing can be said.                                          *)
Lands(h, m) == IF Covered(h) THEN {Fits(h, IdOf(h), m)} ELSE BOOLEAN

(* gdk_window_set_priv_mapped(): reads `impl' from the GdkWindow, sets     *)
(* `mapped' in what it points to.                                          *)
gdk_window_set_priv_mapped(w) ==
    /\ TakeIds({Window, Impl})
    /\ \E impl \in Lands(Window, "impl"), bit \in Lands(Impl, "mapped") :
        /\ mapped' = [mapped EXCEPT ![w] = @ \/ (impl /\ bit)]
        /\ damaged' = [damaged EXCEPT ![w] = @ \/ ~(impl /\ bit)]

(* GDK creates the GdkWindow with its impl. *)
Realize(w) ==
    /\ process = "running" /\ win[w] = "new"
    /\ win' = [win EXCEPT ![w] = "realized"]
    /\ UNCHANGED <<gtk, warn, version_id, shown, warnings, process, mapped, damaged>>

(* mutant: GDK is not told *)
MapUntold(w) ==
    /\ process = "running" /\ win[w] = "realized" /\ ~Fails({Window, Impl})
    /\ win' = [win EXCEPT ![w] = "mapped"]
    /\ TakeIds({Window, Impl})
    /\ UNCHANGED <<gtk, warn, process, mapped, damaged>>

(* The window is mapped as a custom surface, which GDK itself takes no     *)
(* note of; the `map' handler ends with gdk_window_set_priv_mapped.        *)
Map(w) ==
    /\ process = "running" /\ win[w] = "realized" /\ ~Fails({Window, Impl})
    /\ win' = [win EXCEPT ![w] = "mapped"]
    /\ gdk_window_set_priv_mapped(w)
    /\ UNCHANGED <<gtk, warn, process>>

MapFails(w) ==
    /\ process = "running" /\ win[w] = "realized" /\ Fails({Window, Impl})
    /\ Abort

(* GDK hides the window and clears the bit. *)
Hide(w) ==
    /\ process = "running" /\ win[w] = "mapped"
    /\ win' = [win EXCEPT ![w] = "realized"]
    /\ mapped' = [mapped EXCEPT ![w] = FALSE]
    /\ UNCHANGED <<gtk, warn, version_id, shown, warnings, process, damaged>>

(* Another accessor of the headers is used, such as one that tells whether *)
(* a member is supported.                                                  *)
Query(h) ==
    /\ process = "running" /\ version_id[h] = -1
    /\ Cardinality({g \in Headers \ {Window, Impl} : version_id[g] # -1}) < MaxQueries
    /\ ~Fails({h})
    /\ TakeIds({h})
    /\ UNCHANGED <<gtk, warn, process, win, mapped, damaged>>

QueryFails(h) == process = "running" /\ Fails({h}) /\ Abort

Next ==
    \/ \E w \in Windows : Realize(w) \/ Map(w) \/ MapFails(w) \/ Hide(w)
    \/ \E h \in Headers : Query(h) \/ QueryFails(h)

Spec == Init /\ [][Next]_vars

-----------------------------------------------------------------------------
(* Properties.                                                             *)

(* The id a header keeps for the rest of the process is that of the        *)
(* definition the running release has.                                     *)
IdIsInForce ==
    \A h \in Headers : version_id[h] # -1 /\ Covered(h) => version_id[h] = Real(h)

(* On a release that both headers are valid for, mapping a window writes   *)
(* nothing but its `mapped' bit, ...                                       *)
GdkDataIsIntact ==
    Covered(Window) /\ Covered(Impl) => \A w \in Windows : ~damaged[w]

(* ... and GDK finds the bit set exactly while the window is mapped.       *)
MappedIsKnown ==
    Covered(Window) /\ Covered(Impl) => \A w \in Windows : mapped[w] = (win[w] = "mapped")

(* Once a header has chosen, each of its accessors reaches the member it   *)
(* is named for, or the running GTK has no such member and the accessor    *)
(* gives up (aborts, or returns NULL) instead of touching another one.     *)
AccessorsFit ==
    \A h \in Headers : version_id[h] # -1 /\ Covered(h) =>
        LET chosen  == Address[h][version_id[h]]
            running == Address[h][Real(h)]
        IN  \A a \in Accessor[h] :
                IF version_id[h] \in a.ids
                THEN a.member \in DOMAIN running /\ chosen[a.member] = running[a.member]
                ELSE a.member \notin DOMAIN running

(* Headers agree with each other: a struct embedded by value in another is *)
(* the version that its own header has chosen.                             *)
PartsAgree ==
    \A h \in Headers : version_id[h] # -1 =>
        \A p \in Parts[h][version_id[h]] : version_id[p.header] \in {-1, p.id}

(* A version the headers were not made for is noticed in the step that     *)
(* first touches anything of it, if not before, and the warning is printed *)
(* once, if asked for.                                                     *)
UnknownIsNoticed ==
    /\ (\E w \in Windows : mapped[w] \/ damaged[w]) /\ Combo \notin VersionId[Impl].known => shown
    /\ warnings = IF shown /\ warn THEN 1 ELSE 0

(* Nothing of a GTK before 3.22, or of another major version, is touched.  *)
OldGtkIsUntouched ==
    gtk.major # 3 \/ gtk.minor < 22 => \A w \in Windows : ~mapped[w] /\ ~damaged[w]
=============================================================================

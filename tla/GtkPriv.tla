------------------------------ MODULE GtkPriv ------------------------------
(***************************************************************************)
(* The generator of the gtk-priv headers (src/gtk-priv/scripts): it reads  *)
(* the private structs of every supported GTK release, merges versions     *)
(* with the same definition, and emits C code that picks the definition    *)
(* for the GTK that is running.  A wrong pick is a wrong offset into a     *)
(* GdkWindow, found by no test that runs on one version of GTK.            *)
(*                                                                         *)
(* The text of a struct stands for everything printed of it but the        *)
(* structs embedded by value, which are printed under a name made from     *)
(* the first version they are the same as: merging one struct can make     *)
(* versions of another equal.                                              *)
(***************************************************************************)
EXTENDS Integers, SequencesExt

CONSTANTS
    Structs,    \* STRUCT_LIST, numbered in its order
    Embeds,     \* per struct: the structs it embeds by value (acyclic)
    Texts,      \* what a struct may look like otherwise
    Members,    \* per text: its members, a name with its type
    TagSets,    \* releases a repository may have: sets of [minor, micro]
    BranchSets, \* minors of its gtk-3-* branches
    MinSupported, MaxSupported, BadRelease

(* A struct of C does not embed itself, and has a name for one member only;*)
(* get_version_id() tells releases apart by 1000 * minor + micro.          *)
ASSUME StructsAreFinite ==
    /\ IsFiniteSet(Structs) /\ Structs = 1 .. Cardinality(Structs)
    /\ \A s \in Structs : Embeds[s] \subseteq Structs
    /\ \E depth \in [Structs -> Structs] :
        \A s \in Structs : \A e \in Embeds[s] : depth[e] < depth[s]
    /\ \A t \in Texts : \A m, n \in Members[t] :
        /\ m = [name |-> m.name, type |-> m.type]
        /\ m.name = n.name => m = n

ASSUME ReleasesAreNumbered ==
    /\ \A ts \in TagSets : IsFiniteSet(ts) /\ \A t \in ts : t.minor \in Nat /\ t.micro \in 0 .. 998
    /\ \A bs \in BranchSets : IsFiniteSet(bs) /\ bs \subseteq Nat

VARIABLES
    tags, branches, \* the GTK repository
    source,         \* per struct: what it looks like in every version
    versions,       \* the supported versions, in order
    structVersions, \* per struct: Struct.versions
    step,           \* "update", "simplify" or "done"
    cursor,         \* updates done, or the struct whose turn it is in this round
    made_change     \* something was merged in this round

repoVars == <<tags, branches, source, versions>>
vars == <<repoVars, structVersions, step, cursor, made_change>>

-----------------------------------------------------------------------------
(* version.py                                                              *)

Combo(v) == v.minor * 1000 + v.micro
Less(v, w) == IF v.minor = w.minor THEN v.micro < w.micro ELSE v.minor < w.minor
Same(v, w) == v.minor = w.minor /\ v.micro = w.micro
IsSupported(v) == ~Less(v, MinSupported) /\ ~Less(MaxSupported, v) /\ ~Same(v, BadRelease)

Release(t) == [minor |-> t.minor, micro |-> t.micro, released |-> TRUE]

(* mutant: the highest release instead of the one after it *)
NextMicroSame(releases, minor) ==
    LET micros == {v.micro : v \in {w \in releases : w.minor = minor}}
    IN  IF micros = {} THEN 0 ELSE CHOOSE m \in micros : \A n \in micros : n <= m

(* The version a branch will be released as: after its last supported tag. *)
NextMicro(releases, minor) ==
    LET micros == {v.micro : v \in {w \in releases : w.minor = minor}} \cup {-1}
    IN  1 + CHOOSE m \in micros : \A n \in micros : n <= m

(* sorted() *)
Sorted(S) ==
    CHOOSE q \in [1 .. Cardinality(S) -> S] :
        /\ \A v \in S : \E i \in DOMAIN q : q[i] = v
        /\ \A i, j \in DOMAIN q : i < j => ~Less(q[j], q[i])

ParseTagsAndBranches(ts, bs) ==
    LET releases == {v \in {Release(t) : t \in ts} : IsSupported(v)}
        heads    == {[minor |-> b, micro |-> NextMicro(releases, b), released |-> FALSE] : b \in bs}
    IN  Sorted(releases \cup {v \in heads : IsSupported(v)})

-----------------------------------------------------------------------------
(* code.py and ast.py.  A StructVersion is the range [first, last] of      *)
(* indices into versions it is valid for, with the text read at first.     *)

LookupVersion(s, i) ==
    LET valid == {k \in DOMAIN structVersions[s] :
                    i \in structVersions[s][k].first .. structVersions[s][k].last}
    IN  structVersions[s][CHOOSE k \in valid : \A j \in valid : k <= j]

(* mutant: embedded structs are not resolved *)
SameAstByText(s, x, y) == x.text = y.text

(* StructVersion.__eq__: the printed definitions, in which embedded        *)
(* structs are resolved at the version the definition was read at.         *)
SameAst(s, x, y) ==
    /\ x.text = y.text
    /\ \A e \in Embeds[s] : LookupVersion(e, x.first).first = LookupVersion(e, y.first).first

(* Struct.simplify(): equal neighbours become one.                         *)
Merge(s, merged, v) ==
    IF merged # <<>> /\ SameAst(s, Last(merged), v)
    THEN [merged EXCEPT ![Len(merged)].last = v.last]
    ELSE Append(merged, v)

Merging(s) ==
    LET merged[k \in 0 .. Len(structVersions[s])] ==
            IF k = 0 THEN <<>> ELSE Merge(s, merged[k - 1], structVersions[s][k])
    IN  merged

Simplified(s) == Merging(s)[Len(structVersions[s])]

(* The generated get_version_id(): the last id whose first version is not  *)
(* after the running one, or the first.  (Ids count from 1 here.)          *)
VersionId(s, gtk) ==
    LET from == {k \in DOMAIN structVersions[s] :
                    Combo(gtk) >= Combo(versions[structVersions[s][k].first])}
    IN  CHOOSE k \in from \cup {1} : \A j \in from : j <= k

(* mutant: versions seen with an earlier type stay supported *)
AccessorAnyType(s, name) ==
    LET has(k) == \E m \in Members[structVersions[s][k].text] : m.name = name
        latest == CHOOSE k \in DOMAIN structVersions[s] :
                    has(k) /\ \A j \in DOMAIN structVersions[s] : has(j) => j <= k
    IN  [type |-> (CHOOSE m \in Members[structVersions[s][latest].text] : m.name = name).type,
         ids  |-> {k \in DOMAIN structVersions[s] : has(k)}]

(* setup_properties(): a member whose type changes is forgotten for all    *)
(* earlier versions.                                                       *)
Accessor(s, name) ==
    LET types(k) == {m.type : m \in {n \in Members[structVersions[s][k].text] : n.name = name}}
        ids    == {k \in DOMAIN structVersions[s] : types(k) # {}}
        latest == CHOOSE k \in ids : \A j \in ids : j <= k
        type   == CHOOSE t \in types(latest) : TRUE
    IN  [type |-> type,
         ids  |-> {k \in ids : \A j \in ids : k <= j => types(j) = {type}}]

-----------------------------------------------------------------------------
(* build.py                                                                *)

Init ==
    /\ tags \in TagSets /\ branches \in BranchSets
    /\ versions = ParseTagsAndBranches(tags, branches)
    /\ source \in [Structs -> [DOMAIN versions -> Texts]]
    /\ structVersions = [s \in Structs |-> <<>>]
    /\ step = "update" /\ cursor = 0 /\ made_change = FALSE

(* checkout(v) and Project.update(v).                                      *)
Update ==
    /\ step = "update" /\ cursor < Len(versions)
    /\ cursor' = cursor + 1
    /\ structVersions' = [s \in Structs |->
            Append(structVersions[s],
                   [first |-> cursor + 1, last |-> cursor + 1, text |-> source[s][cursor + 1]])]
    /\ UNCHANGED <<repoVars, step, made_change>>

StartSimplify ==
    /\ step = "update" /\ cursor = Len(versions)
    /\ step' = "simplify" /\ cursor' = 1
    /\ UNCHANGED <<repoVars, structVersions, made_change>>

SimplifyStruct ==
    /\ step = "simplify" /\ cursor \in Structs
    /\ structVersions' = [structVersions EXCEPT ![cursor] = Simplified(cursor)]
    /\ made_change' = (made_change \/ Len(Simplified(cursor)) < Len(structVersions[cursor]))
    /\ cursor' = cursor + 1
    /\ UNCHANGED <<repoVars, step>>

(* mutant: one round is thought to be enough *)
EndRoundOnce ==
    /\ step = "simplify" /\ cursor \notin Structs
    /\ step' = "done"
    /\ UNCHANGED <<repoVars, structVersions, cursor, made_change>>

(* Another round, until one has changed nothing.                           *)
EndRound ==
    /\ step = "simplify" /\ cursor \notin Structs
    /\ IF made_change THEN step' = "simplify" /\ cursor' = 1
                      ELSE step' = "done" /\ UNCHANGED cursor
    /\ made_change' = FALSE
    /\ UNCHANGED <<repoVars, structVersions>>

Next == Update \/ StartSimplify \/ SimplifyStruct \/ EndRound

Spec == Init /\ [][Next]_vars

-----------------------------------------------------------------------------
(* Properties.                                                             *)

(* No branch head passes for a release, and the versions that are checked  *)
(* out come in increasing order of the number the C code compares.         *)
VersionsInOrder ==
    \A i, j \in DOMAIN versions : i < j => Combo(versions[i]) < Combo(versions[j])

(* A struct with everything it embeds: as it is in a version of GTK, ...   *)
LayoutOf(looks, n) ==
    LET layout[s \in Structs] ==
            [i \in 1 .. n |-> [text |-> looks[s][i], parts |-> [e \in Embeds[s] |-> layout[e][i]]]]
    IN  layout

Layout == LayoutOf(source, Len(versions))

(* ... and as it is emitted for a version that begins at i.                *)
Emitted ==
    LET emitted[s \in Structs] ==
            [i \in 1 .. Len(versions) |->
                [text |-> source[s][i],
                 parts |-> [e \in Embeds[s] |-> emitted[e][LookupVersion(e, i).first]]]]
    IN  emitted

(* On every GTK it was generated from, the generated code uses a           *)
(* definition with exactly the layout of that GTK, embedded structs        *)
(* included (simplify(), lookup_version() and get_version_id() together).  *)
PicksTheRightLayout ==
    step = "done" =>
        \A s \in Structs, i \in DOMAIN versions :
            Emitted[s][structVersions[s][VersionId(s, versions[i])].first] = Layout[s][i]

(* Simplifying goes on until no two neighbouring ids have the same layout. *)
NoNeedlessVersion ==
    step = "done" =>
        \A s \in Structs : \A k \in 2 .. Len(structVersions[s]) :
            Layout[s][structVersions[s][k].first] # Layout[s][structVersions[s][k - 1].first]

(* A generated accessor never touches a member that the running GTK does   *)
(* not have or has with another type, and the newest GTK has an accessor   *)
(* for each of its members.                                                *)
AccessorsAreSound ==
    step = "done" =>
        \A s \in Structs, i \in DOMAIN versions, m \in UNION {Members[t] : t \in Texts} :
            (\E v \in DOMAIN structVersions[s] : \E n \in Members[structVersions[s][v].text] : n.name = m.name) =>
                LET a == Accessor(s, m.name)
                IN  /\ VersionId(s, versions[i]) \in a.ids =>
                            [name |-> m.name, type |-> a.type] \in Members[source[s][i]]
                    /\ i = Len(versions) /\ m \in Members[source[s][i]] =>
                            a.type = m.type /\ VersionId(s, versions[i]) \in a.ids
=============================================================================

-------------------------- MODULE PrivAccessProofs --------------------------
(***************************************************************************)
(* Theorems about PrivAccess for any number of headers, releases and       *)
(* windows: what they need of the headers' tables are the assumptions of   *)
(* PrivAccess, which TLC evaluates for the real ones.                      *)
(***************************************************************************)
EXTENDS PrivAccess, WellFoundedInduction, TLAPS

(* A non-empty part of 0..n has a largest element.                         *)
LEMMA LargestExists ==
    ASSUME NEW n \in Nat, NEW S \in SUBSET (0..n), S # {}
    PROVE  \E k \in S : \A j \in S : j <= k
<1> DEFINE T == {n - k : k \in S}
<1>1. T \subseteq Nat /\ T # {}
  <2>1. \A k \in S : k \in Nat /\ k <= n /\ n - k \in Nat
    OBVIOUS
  <2>2. PICK k \in S : TRUE
    OBVIOUS
  <2> QED BY <2>1, <2>2
<1>2. PICK t \in T : \A u \in T : ~(<<u, t>> \in OpToRel(<, Nat))
  BY <1>1, NatLessThanWellFounded, WFMin, Zenon
<1>3. \A u \in T : ~(u < t)
  BY <1>1, <1>2 DEF OpToRel
<1>4. n - t \in S /\ t \in Nat
  BY <1>1
<1>5. \A j \in S : j <= n - t
  <2> SUFFICES ASSUME NEW j \in S PROVE j <= n - t
    OBVIOUS
  <2>1. n - j \in T /\ n - j \in Nat /\ j \in Nat
    OBVIOUS
  <2>2. ~(n - j < t)
    BY <1>3, <2>1
  <2> QED BY <1>4, <2>1, <2>2
<1> QED BY <1>4, <1>5

(* get_version_id() returns one of the header's ids, and the one that is   *)
(* valid for the running release if there is one.                          *)
Begun(h) == {0} \cup {k \in DOMAIN VersionId[h].first : Combo >= VersionId[h].first[k]}

LEMMA ReleaseTypes ==
    ASSUME TypeOK
    PROVE  Combo \in Nat
<1> DEFINE minor == gtk.minor
           micro == gtk.micro
<1>1. minor \in Nat /\ micro \in Nat
  <2>1. gtk.minor \in Nat /\ gtk.micro \in 0..999
    BY TablesHaveTypes DEF TypeOK
  <2> QED BY <2>1
<1>2. Combo = minor * 1000 + micro
  BY DEF Combo
<1> HIDE DEF minor, micro
<1> QED BY <1>1, <1>2

LEMMA NewIdIsAnId ==
    ASSUME TypeOK, NEW h \in Headers
    PROVE  /\ NewVersionId(h) \in Begun(h) /\ Begun(h) \subseteq Ids(h)
           /\ \A j \in Begun(h) : j <= NewVersionId(h)
           /\ Ids(h) \subseteq Nat
<1>1. PICK n \in Nat : n = Len(VersionId[h].first)
  BY TablesHaveTypes
<1>2. DOMAIN VersionId[h].first = 1..n /\ Ids(h) = 0..n
  BY <1>1, TablesHaveTypes
<1>3. Begun(h) \in SUBSET (0..n) /\ Begun(h) # {}
  BY <1>2 DEF Begun
<1>4. \E k \in Begun(h) : \A j \in Begun(h) : j <= k
  BY <1>3, LargestExists
<1>5. NewVersionId(h) = CHOOSE k \in Begun(h) : \A j \in Begun(h) : j <= k
  BY DEF NewVersionId, Begun
<1> QED BY <1>2, <1>3, <1>4, <1>5

LEMMA NewIdIsInForce ==
    ASSUME TypeOK, NEW h \in Headers, Covered(h)
    PROVE  NewVersionId(h) = Real(h)
<1> DEFINE Holds(k) == Combo \in Valid[h][k].first .. Valid[h][k].last
<1>1. Real(h) \in Ids(h) /\ Holds(Real(h))
  BY DEF Covered, Real
<1>2. PICK r \in Ids(h) : r = Real(h) /\ r \in Nat
  BY <1>1, NewIdIsAnId
<1>3. /\ Valid[h][r].first \in Nat /\ Valid[h][r].last \in Nat /\ Combo \in Nat
      /\ Valid[h][r].first <= Combo /\ Combo <= Valid[h][r].last
  BY <1>1, <1>2, ReleaseTypes, TablesHaveTypes
<1>4. r \in Begun(h)
  <2>1. CASE r = 0
    BY <2>1 DEF Begun
  <2>2. CASE r # 0
    <3>1. r \in DOMAIN VersionId[h].first
      BY <2>2, <1>2, TablesHaveTypes
    <3>2. VersionId[h].first[r] = Valid[h][r].first
      BY <3>1, TablesAgree
    <3> QED BY <1>3, <3>1, <3>2 DEF Begun
  <2> QED BY <2>1, <2>2
<1>5. ASSUME NEW j \in Begun(h), j > r PROVE FALSE
  <2>1. j \in Nat /\ j # 0
    BY <1>2, <1>5, NewIdIsAnId
  <2>2. j \in DOMAIN VersionId[h].first /\ Combo >= VersionId[h].first[j]
    BY <1>5, <2>1 DEF Begun
  <2>3. r \in 0 .. j - 1
    BY <1>2, <1>5, <2>1
  <2>4. VersionId[h].first[j] = Valid[h][j].first /\ Valid[h][r].last < Valid[h][j].first
    BY <2>2, <2>3, TablesAgree
  <2>5. Valid[h][j].first \in Nat
    BY <1>5, NewIdIsAnId, TablesHaveTypes
  <2> QED BY <1>3, <2>2, <2>4, <2>5
<1>6. NewVersionId(h) <= r /\ r <= NewVersionId(h) /\ NewVersionId(h) \in Nat
  BY <1>2, <1>4, <1>5, NewIdIsAnId
<1> QED BY <1>2, <1>6

-----------------------------------------------------------------------------
(* The inductive invariant: an id taken is the one get_version_id() would  *)
(* compute again, none is taken of a GTK that is too old, and what was     *)
(* taken of an unknown one, or written to it, came after the warning.      *)
IdsAreKept == \A h \in Headers : version_id[h] # -1 => version_id[h] = NewVersionId(h)

NoneIfOld == ~GtkVersionValid => \A h \in Headers : version_id[h] = -1

Noticed ==
    /\ \A h \in Headers : version_id[h] # -1 /\ Combo \notin VersionId[h].known => shown
    /\ \A w \in Windows : mapped[w] \/ damaged[w] => version_id[Impl] # -1
    /\ warnings = IF shown /\ warn THEN 1 ELSE 0

AccessInv ==
    /\ TypeOK /\ IdsAreKept /\ NoneIfOld /\ Noticed
    /\ GdkDataIsIntact /\ MappedIsKnown

LEMMA AccessInit == Init => AccessInv
<1> SUFFICES ASSUME Init PROVE AccessInv
  OBVIOUS
<1>1. Window \in Headers /\ Impl \in Headers
  BY TablesHaveTypes
<1>2. TypeOK
  <2>1. version_id \in [Headers -> Int] /\ \A h \in Headers : version_id[h] = -1
    BY DEF Init
  <2>2. /\ win \in [Windows -> {"new", "realized", "mapped"}]
        /\ mapped \in [Windows -> BOOLEAN] /\ damaged \in [Windows -> BOOLEAN]
    BY DEF Init
  <2>3. gtk \in Releases /\ warn \in BOOLEAN /\ shown \in BOOLEAN /\ warnings \in Nat
        /\ process \in {"running", "aborted"}
    BY DEF Init
  <2> QED BY <2>1, <2>2, <2>3 DEF TypeOK
<1>3. IdsAreKept /\ NoneIfOld /\ Noticed
  BY <1>1 DEF Init, IdsAreKept, NoneIfOld, Noticed
<1>4. GdkDataIsIntact /\ MappedIsKnown
  BY DEF Init, GdkDataIsIntact, MappedIsKnown
<1> QED BY <1>2, <1>3, <1>4 DEF AccessInv

(* What taking ids does to the parts of the invariant about them.          *)
LEMMA IdsTaken ==
    ASSUME TypeOK, IdsAreKept, NoneIfOld, Noticed,
           NEW used \in SUBSET Headers, TakeIds(used), ~Fails(used),
           UNCHANGED <<gtk, warn>>
    PROVE  /\ version_id' \in [Headers -> Int]
           /\ \A h \in Headers : version_id'[h] \in Ids(h) \cup {-1}
           /\ shown' \in BOOLEAN /\ warnings' \in Nat
           /\ IdsAreKept' /\ NoneIfOld'
           /\ \A h \in used : version_id'[h] # -1 /\ IdOf(h) = NewVersionId(h)
           /\ \A h \in Headers : version_id[h] # -1 => version_id'[h] # -1
           /\ \A h \in Headers : version_id'[h] # -1 /\ Combo' \notin VersionId[h].known => shown'
           /\ warnings' = IF shown' /\ warn' THEN 1 ELSE 0
<1>1. \A h \in Headers : NewVersionId(h) \in Ids(h) /\ NewVersionId(h) \in Nat
  BY NewIdIsAnId
<1>2. \A h \in Headers : IdOf(h) = NewVersionId(h)
  BY DEF IdsAreKept, IdOf
<1>3. version_id' = [h \in Headers |-> IF h \in used THEN NewVersionId(h) ELSE version_id[h]]
  BY <1>2 DEF TakeIds
<1>4. gtk' = gtk /\ warn' = warn
  OBVIOUS
<1>5. \A h \in Headers : NewVersionId(h)' = NewVersionId(h)
  BY <1>4 DEF NewVersionId, Combo
<1>6. Combo' = Combo /\ GtkVersionValid' = GtkVersionValid
  BY <1>4 DEF Combo, GtkVersionValid
<1>7. /\ version_id' \in [Headers -> Int]
      /\ \A h \in Headers : version_id'[h] \in Ids(h) \cup {-1}
  BY <1>1, <1>3 DEF TypeOK
<1>8. IdsAreKept'
  BY <1>3, <1>5 DEF IdsAreKept
<1>9. NoneIfOld'
  <2>1. ~GtkVersionValid => used = {}
    BY DEF Fails, NoneIfOld
  <2> QED BY <1>3, <1>6, <2>1 DEF NoneIfOld
<1>10. \A h \in used : version_id'[h] # -1
  BY <1>1, <1>3
<1>11. \A h \in Headers : version_id[h] # -1 => version_id'[h] # -1
  BY <1>1, <1>3
<1> DEFINE unknown == \E h \in used : version_id[h] = -1 /\ Combo \notin VersionId[h].known
<1>12. /\ shown' = (shown \/ unknown)
       /\ warnings' = IF unknown /\ ~shown /\ warn THEN warnings + 1 ELSE warnings
  BY DEF TakeIds, Warn
<1>13. \A h \in Headers : version_id'[h] # -1 /\ Combo' \notin VersionId[h].known => shown'
  BY <1>3, <1>6, <1>12 DEF Noticed
<1>14. shown' \in BOOLEAN
  BY <1>12 DEF TypeOK
<1>15. warnings' = IF shown' /\ warn' THEN 1 ELSE 0
  BY <1>4, <1>12 DEF TypeOK, Noticed
<1> QED BY <1>2, <1>7, <1>8, <1>9, <1>10, <1>11, <1>13, <1>14, <1>15

(* On a release both headers are valid for, the way to the bit is right.   *)
LEMMA BothLand ==
    ASSUME TypeOK, IdsAreKept, Covered(Window), Covered(Impl)
    PROVE  Lands(Window, "impl") = {TRUE} /\ Lands(Impl, "mapped") = {TRUE}
<1>1. Window \in Headers /\ Impl \in Headers
  BY TablesHaveTypes
<1>2. \A h \in {Window, Impl} : IdOf(h) = NewVersionId(h) /\ NewVersionId(h) = Real(h)
  BY <1>1, NewIdIsInForce DEF IdsAreKept, IdOf
<1>3. \A h \in {Window, Impl} : Real(h) \in Ids(h)
  BY <1>1, <1>2, NewIdIsAnId
<1>4. "impl" \in DOMAIN Address[Window][Real(Window)] /\ "mapped" \in DOMAIN Address[Impl][Real(Impl)]
  BY <1>3, TablesAgree
<1>5. Fits(Window, IdOf(Window), "impl") = TRUE /\ Fits(Impl, IdOf(Impl), "mapped") = TRUE
  BY <1>2, <1>4 DEF Fits
<1> QED BY <1>5 DEF Lands

LEMMA AccessStep == AccessInv /\ [Next]_vars => AccessInv'
<1> SUFFICES ASSUME AccessInv, [Next]_vars PROVE AccessInv'
  OBVIOUS
<1> USE DEF AccessInv
<1>0. Window \in Headers /\ Impl \in Headers
  BY TablesHaveTypes
<1>1. ASSUME gtk' = gtk, warn' = warn, version_id' = version_id, shown' = shown, warnings' = warnings
      PROVE  IdsAreKept' /\ NoneIfOld' /\ Combo' = Combo /\ \A h \in Headers : Covered(h)' = Covered(h)
  BY <1>1 DEF IdsAreKept, NoneIfOld, NewVersionId, Combo, GtkVersionValid, Covered, Ids
<1>2. ASSUME NEW w \in Windows, Realize(w) PROVE AccessInv'
  <2>1. IdsAreKept' /\ NoneIfOld' /\ Combo' = Combo /\ \A h \in Headers : Covered(h)' = Covered(h)
    BY <1>1, <1>2 DEF Realize
  <2>2. TypeOK'
    BY <1>2 DEF Realize, TypeOK
  <2>3. Noticed'
    BY <1>2, <2>1 DEF Realize, Noticed
  <2>4. GdkDataIsIntact' /\ MappedIsKnown'
    BY <1>0, <1>2, <2>1 DEF Realize, GdkDataIsIntact, MappedIsKnown, TypeOK
  <2> QED BY <2>1, <2>2, <2>3, <2>4
<1>3. ASSUME NEW w \in Windows, Map(w) PROVE AccessInv'
  <2>1. /\ gtk' = gtk /\ warn' = warn /\ process' = process
        /\ TakeIds({Window, Impl}) /\ ~Fails({Window, Impl}) /\ {Window, Impl} \in SUBSET Headers
        /\ win' = [win EXCEPT ![w] = "mapped"]
    BY <1>0, <1>3 DEF Map, gdk_window_set_priv_mapped
  <2>2. PICK impl \in Lands(Window, "impl"), bit \in Lands(Impl, "mapped") :
            /\ mapped' = [mapped EXCEPT ![w] = @ \/ (impl /\ bit)]
            /\ damaged' = [damaged EXCEPT ![w] = @ \/ ~(impl /\ bit)]
    BY <1>3 DEF Map, gdk_window_set_priv_mapped
  <2>3. /\ version_id' \in [Headers -> Int]
        /\ \A h \in Headers : version_id'[h] \in Ids(h) \cup {-1}
        /\ shown' \in BOOLEAN /\ warnings' \in Nat
        /\ IdsAreKept' /\ NoneIfOld'
        /\ version_id'[Impl] # -1
        /\ \A h \in Headers : version_id'[h] # -1 /\ Combo' \notin VersionId[h].known => shown'
        /\ warnings' = IF shown' /\ warn' THEN 1 ELSE 0
    BY <2>1, IdsTaken
  <2>4. /\ mapped' \in [Windows -> BOOLEAN] /\ damaged' \in [Windows -> BOOLEAN]
        /\ win' \in [Windows -> {"new", "realized", "mapped"}]
    BY <2>1, <2>2 DEF TypeOK
  <2>5. TypeOK'
    BY <2>1, <2>3, <2>4 DEF TypeOK
  <2>6. Noticed'
    BY <2>3 DEF Noticed
  <2>7. \A h \in Headers : Covered(h)' = Covered(h)
    BY <2>1 DEF Covered, Combo, Ids
  <2>8. GdkDataIsIntact' /\ MappedIsKnown'
    <3> SUFFICES ASSUME Covered(Window), Covered(Impl)
                 PROVE  \A v \in Windows : ~damaged'[v] /\ mapped'[v] = (win'[v] = "mapped")
      BY <1>0, <2>7 DEF GdkDataIsIntact, MappedIsKnown
    <3>1. impl = TRUE /\ bit = TRUE
      BY <2>2, BothLand
    <3>2. /\ mapped' = [mapped EXCEPT ![w] = TRUE]
          /\ damaged'[w] = damaged[w] /\ \A v \in Windows \ {w} : damaged'[v] = damaged[v]
      BY <2>2, <3>1 DEF TypeOK
    <3> QED BY <2>1, <3>2 DEF GdkDataIsIntact, MappedIsKnown, TypeOK
  <2> QED BY <2>3, <2>5, <2>6, <2>8
<1>4. ASSUME Abort PROVE AccessInv'
  <2>1. IdsAreKept' /\ NoneIfOld' /\ Combo' = Combo /\ \A h \in Headers : Covered(h)' = Covered(h)
    BY <1>1, <1>4 DEF Abort
  <2>2. TypeOK'
    BY <1>4 DEF Abort, TypeOK
  <2>3. Noticed'
    BY <1>4, <2>1 DEF Abort, Noticed
  <2>4. GdkDataIsIntact' /\ MappedIsKnown'
    BY <1>0, <1>4, <2>1 DEF Abort, GdkDataIsIntact, MappedIsKnown
  <2> QED BY <2>1, <2>2, <2>3, <2>4
<1>5. ASSUME NEW w \in Windows, Hide(w) PROVE AccessInv'
  <2>1. IdsAreKept' /\ NoneIfOld' /\ Combo' = Combo /\ \A h \in Headers : Covered(h)' = Covered(h)
    BY <1>1, <1>5 DEF Hide
  <2>2. TypeOK'
    BY <1>5 DEF Hide, TypeOK
  <2>3. Noticed'
    BY <1>5, <2>1 DEF Hide, Noticed, TypeOK
  <2>4. GdkDataIsIntact' /\ MappedIsKnown'
    BY <1>0, <1>5, <2>1 DEF Hide, GdkDataIsIntact, MappedIsKnown, TypeOK
  <2> QED BY <2>1, <2>2, <2>3, <2>4
<1>6. ASSUME NEW g \in Headers, Query(g) PROVE AccessInv'
  <2>1. /\ UNCHANGED <<gtk, warn, process, win, mapped, damaged>>
        /\ TakeIds({g}) /\ ~Fails({g}) /\ {g} \in SUBSET Headers
    BY <1>6 DEF Query
  <2>2. /\ version_id' \in [Headers -> Int]
        /\ \A h \in Headers : version_id'[h] \in Ids(h) \cup {-1}
        /\ shown' \in BOOLEAN /\ warnings' \in Nat
        /\ IdsAreKept' /\ NoneIfOld'
        /\ \A h \in Headers : version_id[h] # -1 => version_id'[h] # -1
        /\ \A h \in Headers : version_id'[h] # -1 /\ Combo' \notin VersionId[h].known => shown'
        /\ warnings' = IF shown' /\ warn' THEN 1 ELSE 0
    BY <2>1, IdsTaken
  <2>3. TypeOK'
    BY <2>1, <2>2 DEF TypeOK
  <2>4. Noticed'
    BY <1>0, <2>1, <2>2 DEF Noticed
  <2>5. \A h \in Headers : Covered(h)' = Covered(h)
    BY <2>1 DEF Covered, Combo, Ids
  <2>6. GdkDataIsIntact' /\ MappedIsKnown'
    BY <1>0, <2>1, <2>5 DEF GdkDataIsIntact, MappedIsKnown
  <2> QED BY <2>2, <2>3, <2>4, <2>6
<1>7. CASE UNCHANGED vars
  <2>1. IdsAreKept' /\ NoneIfOld' /\ Combo' = Combo /\ \A h \in Headers : Covered(h)' = Covered(h)
    BY <1>1, <1>7 DEF vars
  <2>2. TypeOK'
    BY <1>7 DEF vars, TypeOK
  <2>3. Noticed'
    BY <1>7, <2>1 DEF vars, Noticed
  <2>4. GdkDataIsIntact' /\ MappedIsKnown'
    BY <1>0, <1>7, <2>1 DEF vars, GdkDataIsIntact, MappedIsKnown
  <2> QED BY <2>1, <2>2, <2>3, <2>4
<1>8. \A w \in Windows : MapFails(w) => Abort
  BY DEF MapFails
<1>9. \A h \in Headers : QueryFails(h) => Abort
  BY DEF QueryFails
<1> QED BY <1>2, <1>3, <1>4, <1>5, <1>6, <1>7, <1>8, <1>9 DEF Next

LEMMA AccessInvariant == Spec => []AccessInv
  BY AccessInit, AccessStep, PTL DEF Spec

-----------------------------------------------------------------------------
(* Every variable keeps its type; each header's id is one of its own.      *)
THEOREM AccessTypes == Spec => []TypeOK
<1>1. AccessInv => TypeOK
  BY DEF AccessInv
<1> QED BY <1>1, AccessInvariant, PTL

(* The id a header has taken stays the right one for the running release.  *)
THEOREM TheRightDefinition == Spec => []IdIsInForce
<1>1. AccessInv => IdIsInForce
  BY NewIdIsInForce DEF AccessInv, IdsAreKept, IdIsInForce
<1> QED BY <1>1, AccessInvariant, PTL

(* On a release the headers are valid for, mapping windows damages nothing *)
(* in GDK ...                                                              *)
THEOREM NothingIsDamaged == Spec => []GdkDataIsIntact
<1>1. AccessInv => GdkDataIsIntact
  BY DEF AccessInv
<1> QED BY <1>1, AccessInvariant, PTL

(* ... and GDK knows which windows are mapped.                             *)
THEOREM GdkKnowsMapped == Spec => []MappedIsKnown
<1>1. AccessInv => MappedIsKnown
  BY DEF AccessInv
<1> QED BY <1>1, AccessInvariant, PTL

(* Under the id a header has taken each accessor reaches the member it is  *)
(* named for in the running GTK, or gives up where that has none.          *)
THEOREM AccessorsReachMembers == Spec => []AccessorsFit
<1>1. AccessInv => AccessorsFit
  <2> SUFFICES ASSUME AccessInv, NEW h \in Headers, version_id[h] # -1, Covered(h),
                      NEW a \in Accessor[h]
               PROVE  /\ version_id[h] = Real(h)
                      /\ version_id[h] \in a.ids <=> a.member \in DOMAIN Address[h][Real(h)]
    BY DEF AccessorsFit
  <2>1. version_id[h] = Real(h)
    BY NewIdIsInForce DEF AccessInv, IdsAreKept
  <2>2. version_id[h] \in Ids(h)
    BY DEF AccessInv, TypeOK
  <2> QED BY <2>1, <2>2, AccessorsAreDeclared
<1> QED BY <1>1, AccessInvariant, PTL

LEMMA Comparisons ==
    ASSUME NEW h \in Headers
    PROVE  /\ \A k \in DOMAIN VersionId[h].first : VersionId[h].first[k] \in Nat /\ k \in Nat
           /\ Ids(h) \ {0} = DOMAIN VersionId[h].first
<1>1. PICK q \in Seq(Nat) : q = VersionId[h].first
  BY TablesHaveTypes
<1>2. Ids(h) = 0 .. Len(q)
  BY <1>1, TablesHaveTypes
<1>3. DOMAIN q = 1 .. Len(q) /\ Len(q) \in Nat /\ \A k \in DOMAIN q : q[k] \in Nat
  OBVIOUS
<1>4. (0 .. Len(q)) \ {0} = 1 .. Len(q)
  BY <1>3
<1> QED BY <1>1, <1>2, <1>3, <1>4

(* get_version_id() of a struct's header and of a header whose struct      *)
(* embeds it choose definitions that belong together.                      *)
LEMMA PartIsInStep ==
    ASSUME TypeOK, NEW h \in Headers, NEW p \in Parts[h][NewVersionId(h)]
    PROVE  p.header \in Headers /\ NewVersionId(p.header) = p.id
<1>1. PICK k \in Ids(h) : k = NewVersionId(h) /\ k \in Nat
  BY NewIdIsAnId
<1>2. p \in Parts[h][k]
  BY <1>1
<1>3. PICK g \in Headers : g = p.header
  BY <1>2, PartsAreInStep
<1>4. PICK i \in Ids(g) : i = p.id /\ i \in Nat
  BY <1>2, <1>3, PartsAreInStep, NewIdIsAnId
<1>5. /\ \A l \in DOMAIN VersionId[h].first : VersionId[h].first[l] \in Nat /\ l \in Nat
      /\ \A j \in DOMAIN VersionId[g].first : VersionId[g].first[j] \in Nat
      /\ Ids(g) \ {0} = DOMAIN VersionId[g].first
  BY Comparisons
<1>6. Combo \in Nat
  BY ReleaseTypes
<1>7. i \in Begun(g)
  <2>1. CASE i = 0
    BY <2>1 DEF Begun
  <2>2. CASE i # 0
    <3>1. k # 0 /\ VersionId[g].first[i] <= VersionId[h].first[k]
      BY <1>2, <1>3, <1>4, <2>2, PartsAreInStep
    <3>2. k \in Begun(h)
      BY <1>1, NewIdIsAnId
    <3>3. k \in DOMAIN VersionId[h].first /\ Combo >= VersionId[h].first[k]
      BY <3>1, <3>2 DEF Begun
    <3>4. i \in DOMAIN VersionId[g].first
      BY <1>5, <2>2
    <3>5. Combo >= VersionId[g].first[i]
      BY <1>5, <1>6, <3>1, <3>3, <3>4
    <3> QED BY <3>4, <3>5 DEF Begun
  <2> QED BY <2>1, <2>2
<1>8. ASSUME NEW j \in Begun(g), j > i PROVE FALSE
  <2>1. j \in Nat /\ j # 0
    BY <1>4, <1>8, NewIdIsAnId
  <2>2. j \in DOMAIN VersionId[g].first /\ Combo >= VersionId[g].first[j]
    BY <1>8, <2>1 DEF Begun
  <2>3. PICK l \in DOMAIN VersionId[h].first : l > k /\ VersionId[h].first[l] <= VersionId[g].first[j]
    BY <1>2, <1>3, <1>4, <1>8, <2>2, PartsAreInStep
  <2>4. Combo >= VersionId[h].first[l]
    BY <1>5, <1>6, <2>2, <2>3
  <2>5. l \in Begun(h)
    BY <2>4 DEF Begun
  <2>6. l <= k
    BY <1>1, <2>5, NewIdIsAnId
  <2> QED BY <1>1, <1>5, <2>3, <2>6
<1>9. NewVersionId(g) \in Begun(g) /\ NewVersionId(g) \in Nat /\ i <= NewVersionId(g)
  BY <1>7, NewIdIsAnId
<1>10. NewVersionId(g) = i
  BY <1>4, <1>8, <1>9
<1> QED BY <1>3, <1>4, <1>10

(* Two headers agree on what one embeds of the other, in whichever order   *)
(* they were first used and whether or not they know the running release.  *)
THEOREM HeadersAgree == Spec => []PartsAgree
<1>1. AccessInv => PartsAgree
  <2> SUFFICES ASSUME AccessInv, NEW h \in Headers, version_id[h] # -1,
                      NEW p \in Parts[h][version_id[h]], version_id[p.header] # -1
               PROVE  version_id[p.header] = p.id
    BY DEF PartsAgree
  <2>1. version_id[h] = NewVersionId(h)
    BY DEF AccessInv, IdsAreKept
  <2>2. p.header \in Headers /\ NewVersionId(p.header) = p.id
    BY <2>1, PartIsInStep DEF AccessInv
  <2> QED BY <2>2 DEF AccessInv, IdsAreKept
<1> QED BY <1>1, AccessInvariant, PTL

(* Nothing is written to an unknown GTK before the warning, which is       *)
(* printed at most once.                                                   *)
THEOREM UnknownGtkIsNoticed == Spec => []UnknownIsNoticed
<1>1. AccessInv => UnknownIsNoticed
  BY TablesHaveTypes DEF AccessInv, Noticed, UnknownIsNoticed
<1> QED BY <1>1, AccessInvariant, PTL

(* An unsupported GTK is never written to.                                 *)
THEOREM OldGtkIsSafe == Spec => []OldGtkIsUntouched
<1>1. AccessInv => OldGtkIsUntouched
  <2> SUFFICES ASSUME AccessInv PROVE OldGtkIsUntouched
    OBVIOUS
  <2>1. gtk.major # 3 \/ gtk.minor < 22 => ~GtkVersionValid
    BY TablesHaveTypes DEF AccessInv, TypeOK, GtkVersionValid
  <2> QED BY <2>1, TablesHaveTypes DEF AccessInv, NoneIfOld, Noticed, OldGtkIsUntouched
<1> QED BY <1>1, AccessInvariant, PTL
=============================================================================

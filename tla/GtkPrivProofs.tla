--------------------------- MODULE GtkPrivProofs ---------------------------
(***************************************************************************)
(* The generator of the private headers is right for every history of     *)
(* GTK: any number of releases and branches, and any structs that embed    *)
(* each other without a cycle.                                             *)
(***************************************************************************)
EXTENDS GtkPriv, WellFoundedInduction, FiniteSetTheorems, TLAPS

(* Induction is by the smallest counterexample.                            *)
LEMMA Smallest ==
    ASSUME NEW T \in SUBSET Nat, T # {}
    PROVE  \E m \in T : \A k \in T : m <= k
<1>1. PICK m \in T : \A k \in T : ~(<<k, m>> \in OpToRel(<, Nat))
  BY NatLessThanWellFounded, WFMin
<1>2. \A k \in T : ~(k < m)
  BY <1>1 DEF OpToRel
<1>3. \A k \in T : k \in Nat
  OBVIOUS
<1>4. m \in Nat
  BY <1>3
<1>5. \A k \in T : m <= k
  BY <1>2, <1>3, <1>4
<1> QED BY <1>5

-----------------------------------------------------------------------------
(* The order of versions (version.py).                                     *)

IsVersion(v) == v.minor \in Nat /\ v.micro \in 0 .. 999

LEMMA LessIsCombo ==
    ASSUME NEW v, NEW w, IsVersion(v), IsVersion(w)
    PROVE  /\ Combo(v) \in Nat /\ Combo(w) \in Nat
           /\ Less(v, w) <=> Combo(v) < Combo(w)
<1>1. PICK a, b, c, d : a = v.minor /\ b = v.micro /\ c = w.minor /\ d = w.micro
  OBVIOUS
<1>2. a \in Nat /\ c \in Nat /\ b \in 0 .. 999 /\ d \in 0 .. 999
  BY <1>1 DEF IsVersion
<1>3. Combo(v) = a * 1000 + b /\ Combo(w) = c * 1000 + d
  BY <1>1 DEF Combo
<1>4. Less(v, w) <=> (a = c /\ b < d) \/ (a # c /\ a < c)
  BY <1>1 DEF Less
<1>5. a * 1000 + b < c * 1000 + d <=> (a = c /\ b < d) \/ (a # c /\ a < c)
  BY <1>2
<1> QED BY <1>2, <1>3, <1>4, <1>5

LEMMA Digits ==
    ASSUME NEW a \in Int, NEW b \in Int, NEW c \in Int, NEW d \in Int,
           0 <= b, b <= 999, 0 <= d, d <= 999, a * 1000 + b = c * 1000 + d
    PROVE  a = c /\ b = d
OBVIOUS

LEMMA SameCombo ==
    ASSUME NEW v, NEW w, IsVersion(v), IsVersion(w), Combo(v) = Combo(w)
    PROVE  v.minor = w.minor /\ v.micro = w.micro
<1>1. PICK a, b, c, d : a = v.minor /\ b = v.micro /\ c = w.minor /\ d = w.micro
  OBVIOUS
<1>2. a \in Nat /\ c \in Nat /\ b \in 0 .. 999 /\ d \in 0 .. 999
  BY <1>1 DEF IsVersion
<1>3. a * 1000 + b = c * 1000 + d
  BY <1>1 DEF Combo
<1>4. a \in Int /\ b \in Int /\ c \in Int /\ d \in Int /\ 0 <= b /\ b <= 999 /\ 0 <= d /\ d <= 999
  BY <1>2
<1>5. a = c /\ b = d
  BY <1>3, <1>4, Digits
<1> QED BY <1>1, <1>5

(* The number of a branch head is above all its supported releases.        *)
LEMMA HeadIsNext ==
    ASSUME NEW releases, NEW minor,
           \A v \in releases : v.micro \in 0 .. 998
    PROVE  /\ NextMicro(releases, minor) \in 0 .. 999
           /\ \A v \in releases : v.minor = minor => v.micro < NextMicro(releases, minor)
<1> DEFINE micros == {v.micro : v \in {w \in releases : w.minor = minor}} \cup {-1}
<1>1. micros \subseteq -1 .. 998 /\ -1 \in micros
  OBVIOUS
<1>2. \A v \in releases : v.minor = minor => v.micro \in micros
  OBVIOUS
<1>3. NextMicro(releases, minor) = 1 + CHOOSE m \in micros : \A n \in micros : n <= m
  BY DEF NextMicro
<1> HIDE DEF micros
<1> DEFINE below == {998 - m : m \in micros}
<1>4. below \in SUBSET Nat /\ below # {}
  BY <1>1
<1>5. PICK b \in below : \A c \in below : b <= c
  <2> HIDE DEF below
  <2> QED BY <1>4, Smallest
<1>6. PICK m \in micros : b = 998 - m
  OBVIOUS
<1>7. \A n \in micros : 998 - n \in below
  OBVIOUS
<1> HIDE DEF below
<1>8. ASSUME NEW n \in micros PROVE n <= m
  <2>1. b <= 998 - n
    BY <1>5, <1>7
  <2> QED BY <1>1, <1>6, <2>1
<1>9. \E x \in micros : \A n \in micros : n <= x
  BY <1>8
<1>10. PICK top : top = CHOOSE x \in micros : \A n \in micros : n <= x
  OBVIOUS
<1>11. top \in micros /\ \A n \in micros : n <= top
  BY <1>9, <1>10
<1>12. NextMicro(releases, minor) = 1 + top /\ top \in -1 .. 998
  <2>1. NextMicro(releases, minor) = 1 + top
    BY <1>3, <1>10
  <2>2. top \in -1 .. 998
    BY <1>1, <1>11
  <2> QED BY <2>1, <2>2
<1>13. NextMicro(releases, minor) \in 0 .. 999
  BY <1>12
<1>14. ASSUME NEW v \in releases, v.minor = minor PROVE v.micro < NextMicro(releases, minor)
  <2>1. v.micro <= top /\ v.micro \in 0 .. 998
    BY <1>2, <1>11, <1>14
  <2>2. PICK c : c = v.micro /\ c <= top /\ c \in 0 .. 998
    BY <2>1
  <2>3. c < 1 + top
    BY <1>12, <2>2
  <2> QED BY <1>12, <2>2, <2>3
<1> QED BY <1>13, <1>14

(* sorted() has a result, which has every version once, in order.          *)
IsSorting(q, S) ==
    /\ q \in [1 .. Cardinality(S) -> S]
    /\ \A v \in S : \E i \in DOMAIN q : q[i] = v
    /\ \A i, j \in DOMAIN q : i < j => ~Less(q[j], q[i])

LEMMA HaveSorting ==
    ASSUME NEW S, IsFiniteSet(S), \A v \in S : IsVersion(v)
    PROVE  \E q : IsSorting(q, S)
<1> DEFINE unsorted == {n \in Nat : \E T \in SUBSET S : Cardinality(T) = n /\ ~ \E q : IsSorting(q, T)}
<1>1. SUFFICES ASSUME unsorted # {} PROVE FALSE
  <2>1. S \in SUBSET S /\ Cardinality(S) \in Nat
    BY FS_CardinalityType
  <2> QED BY <1>1, <2>1
<1>2. PICK n \in unsorted : \A k \in unsorted : n <= k
  <2>1. unsorted \in SUBSET Nat
    OBVIOUS
  <2> HIDE DEF unsorted
  <2> QED BY <1>1, <2>1, Smallest
<1>3. PICK T \in SUBSET S : Cardinality(T) = n /\ ~ \E q : IsSorting(q, T)
  OBVIOUS
<1>4. IsFiniteSet(T) /\ n \in Nat
  BY FS_Subset
<1>5. CASE T = {}
  <2>1. n = 0
    BY <1>3, <1>5, FS_EmptySet
  <2>2. PICK q : q = [i \in 1 .. 0 |-> 0]
    OBVIOUS
  <2>3. q \in [1 .. 0 -> T] /\ DOMAIN q = 1 .. 0
    BY <2>2
  <2>4. IsSorting(q, T)
    BY <1>3, <1>5, <2>1, <2>3 DEF IsSorting
  <2> QED BY <1>3, <2>4
<1>6. CASE T # {}
  <2> DEFINE combos == {Combo(v) : v \in T}
  <2>1. combos \in SUBSET Nat /\ combos # {}
    BY <1>6, LessIsCombo
  <2>2. PICK c \in combos : \A d \in combos : c <= d
    <3> HIDE DEF combos
    <3> QED BY <2>1, Smallest
  <2>3. PICK v \in T : c = Combo(v)
    OBVIOUS
  <2>4. \A w \in T : IsVersion(w) /\ IsVersion(v) /\ Combo(v) <= Combo(w)
    BY <2>2, <2>3
  <2>5. \A w \in T : ~Less(w, v)
    <3> SUFFICES ASSUME NEW w \in T PROVE ~Less(w, v)
      OBVIOUS
    <3>1. Combo(w) \in Nat /\ Combo(v) \in Nat /\ (Less(w, v) <=> Combo(w) < Combo(v))
      BY <2>4, LessIsCombo
    <3> QED BY <2>4, <3>1
  <2>6. PICK U : U = T \ {v}
    OBVIOUS
  <2>7. U \in SUBSET S /\ IsFiniteSet(U) /\ Cardinality(U) = n - 1
    BY <1>3, <1>4, <2>6, FS_RemoveElement
  <2>8. n # 0
    BY <1>3, <1>4, <1>6, FS_EmptySet
  <2>9. n - 1 \in Nat /\ n - 1 \notin unsorted
    BY <1>2, <1>4, <2>8
  <2>10. PICK p : IsSorting(p, U)
    BY <2>7, <2>9
  <2>11. p \in [1 .. n - 1 -> U] /\ DOMAIN p = 1 .. n - 1
    BY <2>7, <2>10 DEF IsSorting
  <2>12. PICK q : q = [i \in 1 .. n |-> IF i = 1 THEN v ELSE p[i - 1]]
    OBVIOUS
  <2>13. /\ DOMAIN q = 1 .. n /\ q[1] = v
         /\ \A i \in 2 .. n : i - 1 \in 1 .. n - 1 /\ q[i] = p[i - 1] /\ q[i] \in U
    BY <1>4, <2>8, <2>11, <2>12
  <2>14. q \in [1 .. n -> T]
    <3>1. \A i \in 1 .. n : (IF i = 1 THEN v ELSE p[i - 1]) \in T
      BY <1>4, <2>6, <2>8, <2>11
    <3> QED BY <2>12, <3>1
  <2>15. ASSUME NEW w \in T PROVE \E i \in DOMAIN q : q[i] = w
    <3>1. CASE w = v
      BY <1>4, <2>8, <2>13, <3>1
    <3>2. CASE w # v
      <4>1. PICK i \in 1 .. n - 1 : p[i] = w
        BY <2>6, <2>10, <2>11, <3>2 DEF IsSorting
      <4>2. i + 1 \in 2 .. n /\ (i + 1) - 1 = i /\ i + 1 \in 1 .. n
        BY <1>4, <4>1
      <4> QED BY <2>13, <4>1, <4>2
    <3> QED BY <3>1, <3>2
  <2>16. ASSUME NEW i \in 1 .. n, NEW j \in 1 .. n, i < j PROVE ~Less(q[j], q[i])
    <3>1. j \in 2 .. n /\ q[j] = p[j - 1] /\ q[j] \in U
      BY <1>4, <2>13, <2>16
    <3>2. CASE i = 1
      BY <2>5, <2>6, <2>13, <3>1, <3>2
    <3>3. CASE i # 1
      <4>1. i \in 2 .. n /\ i - 1 \in 1 .. n - 1 /\ j - 1 \in 1 .. n - 1 /\ i - 1 < j - 1
        BY <1>4, <2>16, <3>3
      <4> QED BY <2>10, <2>11, <2>13, <3>1, <4>1 DEF IsSorting
    <3> QED BY <3>2, <3>3
  <2>17. IsSorting(q, T)
    BY <1>3, <2>13, <2>14, <2>15, <2>16 DEF IsSorting
  <2> QED BY <1>3, <2>17
<1> QED BY <1>5, <1>6

LEMMA SortedIsSorting ==
    ASSUME NEW S, IsFiniteSet(S), \A v \in S : IsVersion(v)
    PROVE  IsSorting(Sorted(S), S)
BY HaveSorting DEF IsSorting, Sorted

(* What is checked out: the supported releases and branch heads, in order, *)
(* no two of one number.                                                   *)
LEMMA ParsedInOrder ==
    ASSUME NEW ts \in TagSets, NEW bs \in BranchSets
    PROVE  LET q == ParseTagsAndBranches(ts, bs)
           IN  /\ \E n \in Nat : DOMAIN q = 1 .. n /\ Len(q) = n
               /\ \A i \in DOMAIN q : IsVersion(q[i])
               /\ \A i, j \in DOMAIN q : i < j => Combo(q[i]) < Combo(q[j])
<1> DEFINE all == {Release(t) : t \in ts}
           releases == {v \in all : IsSupported(v)}
           head(b) == [minor |-> b, micro |-> NextMicro(releases, b), released |-> FALSE]
           heads == {head(b) : b \in bs}
           supported == {v \in heads : IsSupported(v)}
           S == releases \cup supported
<1>1. ParseTagsAndBranches(ts, bs) = Sorted(S)
  BY DEF ParseTagsAndBranches
<1>2. \A v \in releases : v.minor \in Nat /\ v.micro \in 0 .. 998
  BY ReleasesAreNumbered DEF Release
<1>3. \A b \in bs : b \in Nat
  BY ReleasesAreNumbered
<1>4. \A b \in bs : /\ head(b).minor = b /\ head(b).micro \in 0 .. 999
                    /\ \A v \in releases : v.minor = b => v.micro < head(b).micro
  BY <1>2, HeadIsNext
<1>5. \A v \in S : IsVersion(v)
  <2>1. \A v \in releases : IsVersion(v)
    BY <1>2 DEF IsVersion
  <2>2. ASSUME NEW v \in supported PROVE IsVersion(v)
    <3>1. PICK b \in bs : v = head(b)
      OBVIOUS
    <3>2. head(b).minor \in Nat /\ head(b).micro \in 0 .. 999
      BY <1>3, <1>4
    <3> QED BY <3>1, <3>2 DEF IsVersion
  <2> QED BY <2>1, <2>2
<1>6. IsFiniteSet(S)
  <2>1. IsFiniteSet(all)
    <3>1. PICK f : f = [t \in ts |-> Release(t)]
      OBVIOUS
    <3>2. f \in Surjection(ts, all)
      BY <3>1 DEF Surjection
    <3> QED BY <3>2, ReleasesAreNumbered, FS_Surjection
  <2>2. IsFiniteSet(heads)
    <3>1. PICK f : f = [b \in bs |-> head(b)]
      OBVIOUS
    <3>2. f \in Surjection(bs, heads)
      BY <3>1 DEF Surjection
    <3> HIDE DEF heads
    <3> QED BY <3>2, ReleasesAreNumbered, FS_Surjection
  <2>3. releases \in SUBSET all /\ supported \in SUBSET heads
    OBVIOUS
  <2>4. IsFiniteSet(releases) /\ IsFiniteSet(supported)
    BY <2>1, <2>2, <2>3, FS_Subset
  <2> HIDE DEF releases, supported
  <2> QED BY <2>4, FS_Union
<1>7. ASSUME NEW v \in S, NEW w \in S, v.minor = w.minor, v.micro = w.micro
      PROVE  v = w
  <2>1. CASE v \in releases /\ w \in releases
    <3>1. PICK t \in ts : v = Release(t)
      BY <2>1
    <3>2. PICK u \in ts : w = Release(u)
      BY <2>1
    <3> QED BY <1>7, <3>1, <3>2 DEF Release
  <2>2. CASE v \in supported /\ w \in supported
    <3>1. PICK b \in bs : v = head(b)
      BY <2>2
    <3>2. PICK c \in bs : w = head(c)
      BY <2>2
    <3>3. b = c
      BY <1>4, <1>7, <3>1, <3>2
    <3> QED BY <3>1, <3>2, <3>3
  <2>3. ASSUME NEW x \in releases, NEW y \in supported, x.minor = y.minor, x.micro = y.micro
        PROVE  FALSE
    <3>1. PICK b \in bs : y = head(b)
      OBVIOUS
    <3>2. PICK c \in 0 .. 998 : c = x.micro
      BY <1>2
    <3>3. x.minor = b
      BY <1>4, <2>3, <3>1
    <3>4. c < y.micro
      BY <1>4, <3>1, <3>2, <3>3
    <3> QED BY <2>3, <3>2, <3>4
  <2> QED BY <1>7, <2>1, <2>2, <2>3
<1> HIDE DEF S
<1>8. PICK n \in Nat : n = Cardinality(S)
  BY <1>6, FS_CardinalityType
<1>9. PICK q : q = ParseTagsAndBranches(ts, bs) /\ IsSorting(q, S)
  BY <1>1, <1>5, <1>6, SortedIsSorting
<1>10. q \in [1 .. n -> S] /\ DOMAIN q = 1 .. n /\ Len(q) = n
  BY <1>8, <1>9 DEF IsSorting
<1>11. \A i \in DOMAIN q : IsVersion(q[i])
  BY <1>5, <1>10
<1>12. \A i, j \in 1 .. n : q[i] = q[j] => i = j
  <2>1. q \in Surjection(1 .. n, S)
    BY <1>9, <1>10 DEF IsSorting, Surjection
  <2>2. IsFiniteSet(1 .. n) /\ Cardinality(1 .. n) = n
    BY <1>8, FS_Interval
  <2>3. q \in Injection(1 .. n, S)
    BY <1>6, <1>8, <2>1, <2>2, FS_Surjection
  <2> QED BY <2>3 DEF Injection, IsInjective
<1>13. ASSUME NEW i \in 1 .. n, NEW j \in 1 .. n, i < j PROVE Combo(q[i]) < Combo(q[j])
  <2>1. IsVersion(q[i]) /\ IsVersion(q[j]) /\ ~Less(q[j], q[i])
    BY <1>9, <1>10, <1>11, <1>13 DEF IsSorting
  <2>2. Combo(q[i]) \in Nat /\ Combo(q[j]) \in Nat /\ ~(Combo(q[j]) < Combo(q[i]))
    BY <2>1, LessIsCombo
  <2>3. Combo(q[i]) # Combo(q[j])
    <3>1. q[i] = q[j] => i = j
      BY <1>12
    <3> QED BY <1>5, <1>7, <1>10, <1>13, <2>1, <3>1, SameCombo
  <2> QED BY <2>2, <2>3
<1> QED BY <1>8, <1>9, <1>10, <1>11, <1>13

-----------------------------------------------------------------------------
(* Recursion over the structs that a struct embeds: there are layouts.     *)

Row(looks, n, ref, g, s) ==
    [i \in 1 .. n |-> [text |-> looks[s][i], parts |-> [e \in Embeds[s] |-> g[e][ref[e][i]]]]]

LEMMA RowDepends ==
    ASSUME NEW looks, NEW n, NEW ref, NEW g, NEW h, NEW s, \A e \in Embeds[s] : g[e] = h[e]
    PROVE  Row(looks, n, ref, g, s) = Row(looks, n, ref, h, s)
<1>1. \A i : [e \in Embeds[s] |-> g[e][ref[e][i]]] = [e \in Embeds[s] |-> h[e][ref[e][i]]]
  OBVIOUS
<1> DEFINE G(i) == [e \in Embeds[s] |-> g[e][ref[e][i]]]
           H(i) == [e \in Embeds[s] |-> h[e][ref[e][i]]]
<1>2. /\ Row(looks, n, ref, g, s) = [i \in 1 .. n |-> [text |-> looks[s][i], parts |-> G(i)]]
      /\ Row(looks, n, ref, h, s) = [i \in 1 .. n |-> [text |-> looks[s][i], parts |-> H(i)]]
  BY DEF Row
<1>3. \A i : G(i) = H(i)
  BY <1>1
<1> HIDE DEF G, H
<1> QED BY <1>2, <1>3

LEMMA HaveRows ==
    ASSUME NEW looks, NEW n, NEW ref
    PROVE  \E g : g = [s \in Structs |-> Row(looks, n, ref, g, s)]
<1>1. PICK depth \in [Structs -> Structs] : \A s \in Structs : \A e \in Embeds[s] : depth[e] < depth[s]
  BY StructsAreFinite
<1>2. PICK size \in Nat : Structs = 1 .. size
  BY StructsAreFinite, FS_CardinalityType
<1>3. \A s \in Structs : depth[s] \in 1 .. size /\ \A e \in Embeds[s] : e \in Structs
  BY <1>1, <1>2, StructsAreFinite
<1> DEFINE D(k) == {s \in Structs : depth[s] < k}
           Works(k) == \E g : g = [s \in D(k) |-> Row(looks, n, ref, g, s)]
           bad == {k \in Nat : ~Works(k)}
<1>4. Works(0)
  <2>1. D(0) = {}
    BY <1>3
  <2>2. PICK g : g = [s \in {} |-> 0]
    OBVIOUS
  <2>3. g = [s \in D(0) |-> Row(looks, n, ref, g, s)]
    BY <2>1, <2>2
  <2> QED BY <2>3
<1>5. ASSUME NEW k \in Nat, Works(k) PROVE Works(k + 1)
  <2>1. PICK g : g = [s \in D(k) |-> Row(looks, n, ref, g, s)]
    BY <1>5
  <2>2. PICK h : h = [s \in D(k + 1) |-> Row(looks, n, ref, g, s)]
    OBVIOUS
  <2>3. D(k) \subseteq D(k + 1)
    BY <1>3
  <2>4. \A s \in D(k) : h[s] = g[s]
    <3> SUFFICES ASSUME NEW s \in D(k) PROVE h[s] = g[s]
      OBVIOUS
    <3>1. g[s] = Row(looks, n, ref, g, s)
      BY <2>1
    <3>2. h[s] = Row(looks, n, ref, g, s)
      BY <2>2, <2>3
    <3> QED BY <3>1, <3>2
  <2>5. ASSUME NEW s \in D(k + 1) PROVE Row(looks, n, ref, g, s) = Row(looks, n, ref, h, s)
    <3>1. \A e \in Embeds[s] : e \in D(k)
      <4>1. \A e \in Embeds[s] : e \in Structs /\ depth[e] < depth[s] /\ depth[e] \in 1 .. size
        BY <1>1, <1>3
      <4>2. depth[s] < k + 1 /\ depth[s] \in 1 .. size
        BY <1>3
      <4> QED BY <4>1, <4>2
    <3>2. \A e \in Embeds[s] : g[e] = h[e]
      BY <2>4, <3>1
    <3> QED BY <3>2, RowDepends
  <2>6. h = [s \in D(k + 1) |-> Row(looks, n, ref, h, s)]
    BY <2>2, <2>5
  <2> QED BY <2>6
<1> HIDE DEF Works
<1>6. bad = {}
  <2>1. bad \in SUBSET Nat
    OBVIOUS
  <2>2. SUFFICES ASSUME bad # {} PROVE FALSE
    OBVIOUS
  <2>3. PICK k \in bad : \A j \in bad : k <= j
    <3> HIDE DEF bad
    <3> QED BY <2>1, <2>2, Smallest
  <2>4. k \in Nat /\ k # 0 /\ k - 1 \in Nat /\ (k - 1) + 1 = k
    BY <1>4, <2>3
  <2>5. Works(k - 1)
    BY <2>3, <2>4
  <2> QED BY <1>5, <2>3, <2>4, <2>5
<1>7. D(size + 1) = Structs
  BY <1>2, <1>3
<1>8. Works(size + 1)
  <2>1. size + 1 \in Nat /\ size + 1 \notin bad
    BY <1>2, <1>6
  <2> QED BY <2>1
<1> QED BY <1>7, <1>8 DEF Works

(* The layout of a struct, of the text it has and of the structs in it.    *)
LEMMA LayoutUnfolds ==
    ASSUME NEW looks, NEW n
    PROVE  \A s \in Structs : \A i \in 1 .. n :
            LayoutOf(looks, n)[s][i]
                = [text |-> looks[s][i], parts |-> [e \in Embeds[s] |-> LayoutOf(looks, n)[e][i]]]
<1> DEFINE ref == [e \in Structs |-> [i \in 1 .. n |-> i]]
           P(g, s, i) == [e \in Embeds[s] |-> g[e][i]]
           R(g, s) == [i \in 1 .. n |-> [text |-> looks[s][i], parts |-> P(g, s, i)]]
<1>1. PICK g : g = [s \in Structs |-> Row(looks, n, ref, g, s)]
  BY HaveRows
<1>2. ASSUME NEW s \in Structs PROVE Row(looks, n, ref, g, s) = R(g, s)
  <2> DEFINE Q(i) == [e \in Embeds[s] |-> g[e][ref[e][i]]]
  <2>1. ASSUME NEW i \in 1 .. n PROVE Q(i) = P(g, s, i)
    <3>1. \A e \in Embeds[s] : ref[e][i] = i
      BY StructsAreFinite
    <3> HIDE DEF ref
    <3> QED BY <3>1
  <2>2. Row(looks, n, ref, g, s) = [i \in 1 .. n |-> [text |-> looks[s][i], parts |-> Q(i)]]
    BY DEF Row
  <2> HIDE DEF Q, P, ref
  <2> QED BY <2>1, <2>2
<1> HIDE DEF R, P, ref
<1>3. g = [s \in Structs |-> R(g, s)]
  BY <1>1, <1>2
<1>4. LayoutOf(looks, n) = CHOOSE f : f = [s \in Structs |-> R(f, s)]
  BY DEF LayoutOf, R, P
<1>5. LayoutOf(looks, n) = [s \in Structs |-> R(LayoutOf(looks, n), s)]
  BY <1>3, <1>4
<1>6. ASSUME NEW s \in Structs, NEW i \in 1 .. n
      PROVE  LayoutOf(looks, n)[s][i] = [text |-> looks[s][i], parts |-> P(LayoutOf(looks, n), s, i)]
  <2>1. PICK f : f = LayoutOf(looks, n)
    OBVIOUS
  <2>2. f[s] = R(f, s)
    BY <1>5, <2>1
  <2>3. f[s][i] = [text |-> looks[s][i], parts |-> P(f, s, i)]
    BY <2>2 DEF R
  <2> QED BY <2>1, <2>3
<1> QED BY <1>6 DEF P

LEMMA EmittedUnfolds ==
    \A s \in Structs : \A i \in 1 .. Len(versions) :
        Emitted[s][i] = [text |-> source[s][i],
                         parts |-> [e \in Embeds[s] |-> Emitted[e][LookupVersion(e, i).first]]]
<1> DEFINE n == Len(versions)
           from(e, i) == LookupVersion(e, i).first
           ref == [e \in Structs |-> [i \in 1 .. n |-> from(e, i)]]
           P(g, s, i) == [e \in Embeds[s] |-> g[e][from(e, i)]]
           R(g, s) == [i \in 1 .. n |-> [text |-> source[s][i], parts |-> P(g, s, i)]]
<1>4. Emitted = CHOOSE f : f = [s \in Structs |-> R(f, s)]
  BY DEF Emitted
<1> HIDE DEF n, from
<1>1. PICK g : g = [s \in Structs |-> Row(source, n, ref, g, s)]
  BY HaveRows
<1>2. ASSUME NEW s \in Structs PROVE Row(source, n, ref, g, s) = R(g, s)
  <2> DEFINE Q(i) == [e \in Embeds[s] |-> g[e][ref[e][i]]]
  <2>1. ASSUME NEW i \in 1 .. n PROVE Q(i) = P(g, s, i)
    <3>1. \A e \in Embeds[s] : ref[e][i] = from(e, i)
      BY StructsAreFinite
    <3> HIDE DEF ref
    <3> QED BY <3>1
  <2>2. Row(source, n, ref, g, s) = [i \in 1 .. n |-> [text |-> source[s][i], parts |-> Q(i)]]
    BY DEF Row
  <2> HIDE DEF Q, P, ref
  <2> QED BY <2>1, <2>2
<1> HIDE DEF R, P, ref
<1>3. g = [s \in Structs |-> R(g, s)]
  BY <1>1, <1>2
<1>5. Emitted = [s \in Structs |-> R(Emitted, s)]
  BY <1>3, <1>4
<1>6. ASSUME NEW s \in Structs, NEW i \in 1 .. n
      PROVE  Emitted[s][i] = [text |-> source[s][i], parts |-> P(Emitted, s, i)]
  <2>1. PICK f : f = Emitted
    OBVIOUS
  <2>2. f[s] = R(f, s)
    BY <1>5, <2>1
  <2>3. f[s][i] = [text |-> source[s][i], parts |-> P(f, s, i)]
    BY <2>2 DEF R
  <2> QED BY <2>1, <2>3
<1> QED BY <1>6 DEF P, n, from

(* simplify() goes through the versions of a struct one by one.            *)
LEMMA MergingUnfolds ==
    ASSUME NEW s, Len(structVersions[s]) \in Nat
    PROVE  /\ Merging(s)[0] = <<>>
           /\ \A k \in 1 .. Len(structVersions[s]) :
                Merging(s)[k] = Merge(s, Merging(s)[k - 1], structVersions[s][k])
<1> DEFINE F(m, k) == Merge(s, m, structVersions[s][k])
           Works(n) == \E f : f = [k \in 0 .. n |-> IF k = 0 THEN <<>> ELSE F(f[k - 1], k)]
           bad == {n \in Nat : ~Works(n)}
<1>1. PICK len \in Nat : len = Len(structVersions[s])
  OBVIOUS
<1>2. Merging(s) = CHOOSE f : f = [k \in 0 .. len |-> IF k = 0 THEN <<>> ELSE F(f[k - 1], k)]
  BY <1>1 DEF Merging
<1> HIDE DEF F
<1>3. Works(0)
  <2>1. PICK f : f = [k \in 0 .. 0 |-> <<>>]
    OBVIOUS
  <2>2. \A k \in 0 .. 0 : k = 0
    OBVIOUS
  <2>3. f = [k \in 0 .. 0 |-> IF k = 0 THEN <<>> ELSE F(f[k - 1], k)]
    BY <2>1, <2>2
  <2> QED BY <2>3
<1>4. ASSUME NEW n \in Nat, Works(n) PROVE Works(n + 1)
  <2>1. PICK f : f = [k \in 0 .. n |-> IF k = 0 THEN <<>> ELSE F(f[k - 1], k)]
    BY <1>4
  <2>2. PICK g : g = [k \in 0 .. n + 1 |-> IF k = 0 THEN <<>> ELSE F(f[k - 1], k)]
    OBVIOUS
  <2>3. ASSUME NEW k \in 0 .. n PROVE g[k] = f[k]
    <3>1. g[k] = IF k = 0 THEN <<>> ELSE F(f[k - 1], k)
      BY <2>2
    <3>2. f[k] = IF k = 0 THEN <<>> ELSE F(f[k - 1], k)
      BY <2>1
    <3> QED BY <3>1, <3>2
  <2>4. \A k \in 0 .. n + 1 : k # 0 => g[k - 1] = f[k - 1]
    BY <2>3
  <2>5. g = [k \in 0 .. n + 1 |-> IF k = 0 THEN <<>> ELSE F(g[k - 1], k)]
    BY <2>2, <2>4
  <2> QED BY <2>5
<1> HIDE DEF Works
<1>5. bad = {}
  <2>1. bad \in SUBSET Nat
    OBVIOUS
  <2>2. SUFFICES ASSUME bad # {} PROVE FALSE
    OBVIOUS
  <2>3. PICK n \in bad : \A j \in bad : n <= j
    <3> HIDE DEF bad
    <3> QED BY <2>1, <2>2, Smallest
  <2>4. n \in Nat /\ n # 0 /\ n - 1 \in Nat /\ (n - 1) + 1 = n
    BY <1>3, <2>3
  <2>5. Works(n - 1)
    BY <2>3, <2>4
  <2> QED BY <1>4, <2>3, <2>4, <2>5
<1>6. Works(len)
  BY <1>5
<1>7. PICK f : f = Merging(s) /\ f = [k \in 0 .. len |-> IF k = 0 THEN <<>> ELSE F(f[k - 1], k)]
  BY <1>2, <1>6 DEF Works
<1>8. f[0] = <<>>
  BY <1>7
<1>9. \A k \in 1 .. len : f[k] = F(f[k - 1], k)
  BY <1>7
<1> QED BY <1>1, <1>7, <1>8, <1>9 DEF F

-----------------------------------------------------------------------------
(* The versions of a struct: ranges that follow each other up to n.        *)

VersionRecords == [first : Nat, last : Nat, text : Texts]

Chain(q, n) ==
    /\ q \in Seq(VersionRecords)
    /\ Len(q) = 0 <=> n = 0
    /\ Len(q) # 0 => q[1].first = 1 /\ q[Len(q)].last = n
    /\ \A k \in 1 .. Len(q) : q[k].first <= q[k].last
    /\ \A k \in 2 .. Len(q) : q[k].first = q[k - 1].last + 1

LEMMA ChainTypes ==
    ASSUME NEW q, NEW n, Chain(q, n)
    PROVE  /\ Len(q) \in Nat /\ DOMAIN q = 1 .. Len(q)
           /\ \A k \in 1 .. Len(q) : /\ q[k] \in VersionRecords
                                     /\ q[k].first \in Nat /\ q[k].last \in Nat
<1>1. q \in Seq(VersionRecords)
  BY DEF Chain
<1>2. Len(q) \in Nat /\ DOMAIN q = 1 .. Len(q) /\ \A k \in 1 .. Len(q) : q[k] \in VersionRecords
  BY <1>1
<1> QED BY <1>2 DEF VersionRecords

LEMMA ChainOrdered ==
    ASSUME NEW q, NEW n, Chain(q, n), NEW k \in 1 .. Len(q), NEW l \in 1 .. Len(q), k < l
    PROVE  q[k].last < q[l].first
<1> DEFINE bad == {j \in k + 1 .. Len(q) : ~(q[k].last < q[j].first)}
<1>1. /\ Len(q) \in Nat
      /\ \A j \in 1 .. Len(q) : q[j].first \in Nat /\ q[j].last \in Nat /\ q[j].first <= q[j].last
      /\ \A j \in 2 .. Len(q) : q[j].first = q[j - 1].last + 1
  BY ChainTypes DEF Chain
<1>2. SUFFICES ASSUME bad # {} PROVE FALSE
  <2>1. l \in k + 1 .. Len(q)
    BY <1>1
  <2> QED BY <1>2, <2>1
<1>3. PICK j \in bad : \A i \in bad : j <= i
  <2>1. bad \in SUBSET Nat
    BY <1>1
  <2> HIDE DEF bad
  <2> QED BY <1>2, <2>1, Smallest
<1>4. j \in 2 .. Len(q) /\ j - 1 \in 1 .. Len(q) /\ j - 1 \in k .. Len(q)
  BY <1>1, <1>3
<1>5. q[j].first = q[j - 1].last + 1 /\ q[j - 1].last \in Nat
  BY <1>1, <1>4
<1>6. CASE j - 1 = k
  BY <1>3, <1>5, <1>6
<1>7. CASE j - 1 # k
  <2>1. j - 1 \in k + 1 .. Len(q) /\ ~(j <= j - 1)
    BY <1>1, <1>4, <1>7
  <2>2. q[k].last < q[j - 1].first
    BY <1>3, <2>1
  <2>3. q[j - 1].first \in Nat /\ q[j - 1].first <= q[j - 1].last /\ q[k].last \in Nat /\ q[j].first \in Nat
    BY <1>1, <1>4
  <2>4. ~(q[k].last < q[j].first)
    BY <1>3
  <2>5. PICK a \in Nat, b \in Nat, c \in Nat : a = q[k].last /\ b = q[j - 1].last /\ c = q[j - 1].first
    BY <1>5, <2>3
  <2>6. a < c /\ c <= b /\ ~(a < b + 1)
    BY <1>5, <2>2, <2>3, <2>4, <2>5
  <2> QED BY <2>6
<1> QED BY <1>6, <1>7

LEMMA ChainWithin ==
    ASSUME NEW q, NEW n \in Nat, Chain(q, n), NEW k \in 1 .. Len(q)
    PROVE  q[k].first \in 1 .. n /\ q[k].last \in 1 .. n
<1>1. /\ Len(q) \in Nat /\ Len(q) # 0
      /\ \A j \in 1 .. Len(q) : q[j].first \in Nat /\ q[j].last \in Nat
  BY ChainTypes
<1>2. q[1].first = 1 /\ q[Len(q)].last = n /\ q[1].first <= q[1].last
  <2>1. 1 \in 1 .. Len(q)
    BY <1>1
  <2> QED BY <1>1, <2>1 DEF Chain
<1>3. q[k].first <= q[k].last
  BY DEF Chain
<1>4. q[k].last <= n
  <2>1. CASE k = Len(q)
    BY <1>1, <1>2, <2>1
  <2>2. CASE k # Len(q)
    <3>1. k < Len(q) /\ Len(q) \in 1 .. Len(q)
      <4>1. PICK len \in Nat : len = Len(q) /\ len # 0
        BY <1>1
      <4> QED BY <2>2, <4>1
    <3>2. q[k].last < q[Len(q)].first /\ q[Len(q)].first <= q[Len(q)].last
      BY <3>1, ChainOrdered DEF Chain
    <3> QED BY <1>1, <1>2, <3>1, <3>2
  <2> QED BY <2>1, <2>2
<1>5. 1 <= q[k].first
  <2>1. CASE k = 1
    BY <1>2, <2>1
  <2>2. CASE k # 1
    <3>1. 1 < k /\ 1 \in 1 .. Len(q)
      BY <1>1, <2>2
    <3>2. q[1].last < q[k].first
      BY <3>1, ChainOrdered
    <3> QED BY <1>1, <1>2, <3>1, <3>2
  <2> QED BY <2>1, <2>2
<1> QED BY <1>1, <1>3, <1>4, <1>5

(* Every version is in exactly one of the ranges.                          *)
LEMMA ChainCovers ==
    ASSUME NEW q, NEW n \in Nat, Chain(q, n), NEW i \in 1 .. n
    PROVE  \E k \in 1 .. Len(q) : i \in q[k].first .. q[k].last
<1> DEFINE past == {k \in 1 .. Len(q) : i <= q[k].last}
<1>1. /\ Len(q) \in Nat /\ Len(q) # 0
      /\ \A j \in 1 .. Len(q) : q[j].first \in Nat /\ q[j].last \in Nat
      /\ \A j \in 2 .. Len(q) : q[j].first = q[j - 1].last + 1
      /\ q[1].first = 1 /\ q[Len(q)].last = n
  <2>1. Len(q) \in Nat /\ \A j \in 1 .. Len(q) : q[j].first \in Nat /\ q[j].last \in Nat
    BY ChainTypes
  <2>2. n # 0
    OBVIOUS
  <2>3. Len(q) # 0 /\ q[1].first = 1 /\ q[Len(q)].last = n
    BY <2>2 DEF Chain
  <2>4. \A j \in 2 .. Len(q) : q[j].first = q[j - 1].last + 1
    BY DEF Chain
  <2> QED BY <2>1, <2>3, <2>4
<1>2. Len(q) \in past
  BY <1>1
<1>3. PICK k \in past : \A j \in past : k <= j
  <2>1. past \in SUBSET Nat
    BY <1>1
  <2> HIDE DEF past
  <2> QED BY <1>2, <2>1, Smallest
<1>4. CASE k = 1
  BY <1>1, <1>3, <1>4
<1>5. CASE k # 1
  <2>1. k \in 2 .. Len(q) /\ k - 1 \in 1 .. Len(q) /\ ~(k <= k - 1)
    BY <1>1, <1>3, <1>5
  <2>2. ~(i <= q[k - 1].last)
    BY <1>3, <2>1
  <2>3. q[k - 1].last \in Nat /\ q[k].first = q[k - 1].last + 1 /\ q[k].first \in Nat /\ q[k].last \in Nat
    BY <1>1, <2>1
  <2>4. i \in q[k].first .. q[k].last
    BY <1>3, <2>2, <2>3
  <2> QED BY <1>3, <2>4
<1> QED BY <1>4, <1>5

LEMMA ChainOnce ==
    ASSUME NEW q, NEW n, Chain(q, n), NEW k \in 1 .. Len(q), NEW l \in 1 .. Len(q),
           NEW i \in Nat, i \in q[k].first .. q[k].last, i \in q[l].first .. q[l].last
    PROVE  k = l
<1>1. /\ Len(q) \in Nat
      /\ \A j \in 1 .. Len(q) : q[j].first \in Nat /\ q[j].last \in Nat
  BY ChainTypes
<1>2. k < l => q[k].last < q[l].first
  BY ChainOrdered
<1>3. l < k => q[l].last < q[k].first
  BY ChainOrdered
<1>4. ~(q[k].last < q[l].first) /\ ~(q[l].last < q[k].first)
  BY <1>1
<1> QED BY <1>1, <1>2, <1>3, <1>4

(* lookup_version() finds the range of a version.                          *)
LEMMA LookupFinds ==
    ASSUME NEW e, NEW n \in Nat, Chain(structVersions[e], n), NEW i \in 1 .. n
    PROVE  \E k \in 1 .. Len(structVersions[e]) :
            /\ LookupVersion(e, i) = structVersions[e][k]
            /\ i \in structVersions[e][k].first .. structVersions[e][k].last
<1>1. PICK q : q = structVersions[e]
  OBVIOUS
<1> DEFINE valid == {k \in DOMAIN q : i \in q[k].first .. q[k].last}
           found == CHOOSE k \in valid : \A j \in valid : k <= j
<1>2. Len(q) \in Nat /\ DOMAIN q = 1 .. Len(q)
  BY <1>1, ChainTypes
<1>3. PICK k \in 1 .. Len(q) : i \in q[k].first .. q[k].last
  BY <1>1, ChainCovers
<1>4. k \in valid /\ valid \in SUBSET Nat
  BY <1>2, <1>3
<1>5. LookupVersion(e, i) = q[found]
  BY <1>1 DEF LookupVersion
<1> HIDE DEF valid
<1>6. \E m \in valid : \A j \in valid : m <= j
  BY <1>4, Smallest
<1>7. found \in valid
  BY <1>6
<1> HIDE DEF found
<1>8. found \in 1 .. Len(q) /\ i \in q[found].first .. q[found].last
  BY <1>2, <1>7 DEF valid
<1> QED BY <1>1, <1>5, <1>8

(* So does get_version_id(), in numbers of releases.                       *)
VersionsFit(n) ==
    /\ n \in Nat /\ Len(versions) = n /\ DOMAIN versions = 1 .. n
    /\ \A i \in 1 .. n : Combo(versions[i]) \in Nat
    /\ VersionsInOrder

LEMMA VersionIdFinds ==
    ASSUME NEW s, NEW n, VersionsFit(n), Chain(structVersions[s], n), NEW i \in 1 .. n
    PROVE  /\ VersionId(s, versions[i]) \in 1 .. Len(structVersions[s])
           /\ i \in structVersions[s][VersionId(s, versions[i])].first
                    .. structVersions[s][VersionId(s, versions[i])].last
<1>1. PICK q : q = structVersions[s]
  OBVIOUS
<1> DEFINE from == {k \in DOMAIN q : Combo(versions[i]) >= Combo(versions[q[k].first])}
<1>2. /\ Len(q) \in Nat /\ Len(q) # 0 /\ DOMAIN q = 1 .. Len(q)
      /\ \A k \in 1 .. Len(q) : q[k].first \in Nat /\ q[k].last \in Nat /\ q[k].first <= q[k].last
      /\ q[1].first = 1
  <2>1. /\ Len(q) \in Nat /\ DOMAIN q = 1 .. Len(q)
        /\ \A k \in 1 .. Len(q) : q[k].first \in Nat /\ q[k].last \in Nat
    BY <1>1, ChainTypes
  <2>2. n # 0
    BY DEF VersionsFit
  <2>3. Len(q) # 0 /\ q[1].first = 1
    BY <1>1, <2>2 DEF Chain
  <2>4. \A k \in 1 .. Len(q) : q[k].first <= q[k].last
    BY <1>1 DEF Chain
  <2> QED BY <2>1, <2>3, <2>4
<1>3. ASSUME NEW k \in 1 .. Len(q) PROVE q[k].first \in 1 .. n
  BY <1>1, ChainWithin DEF VersionsFit
<1>4. ASSUME NEW k \in 1 .. Len(q) PROVE k \in from <=> q[k].first <= i
  <2>1. PICK f \in 1 .. n : f = q[k].first
    BY <1>3
  <2>2. /\ n \in Nat /\ Combo(versions[i]) \in Nat /\ Combo(versions[f]) \in Nat
        /\ (i < f => Combo(versions[i]) < Combo(versions[f]))
        /\ (f < i => Combo(versions[f]) < Combo(versions[i]))
    BY DEF VersionsFit, VersionsInOrder
  <2>3. Combo(versions[i]) >= Combo(versions[f]) <=> f <= i
    BY <2>2
  <2> QED BY <1>2, <2>1, <2>3
<1>5. PICK k \in 1 .. Len(q) : i \in q[k].first .. q[k].last
  BY <1>1, ChainCovers DEF VersionsFit
<1>6. k \in from /\ 1 \in from
  <2>1. q[k].first <= i /\ q[1].first <= i /\ 1 \in 1 .. Len(q)
    BY <1>2, <1>3, <1>5
  <2> QED BY <1>4, <2>1
<1>7. ASSUME NEW j \in from PROVE j <= k
  <2>1. j \in 1 .. Len(q) /\ q[j].first <= i
    BY <1>2, <1>4
  <2>2. k < j => q[k].last < q[j].first
    BY <1>1, <2>1, ChainOrdered
  <2>3. i <= q[k].last /\ q[k].last \in Nat /\ q[j].first \in Nat
    BY <1>2, <1>5, <2>1
  <2> QED BY <1>2, <2>1, <2>2, <2>3
<1>8. from \subseteq Nat
  BY <1>2
<1>9. VersionId(s, versions[i]) = CHOOSE x \in from \cup {1} : \A j \in from : j <= x
  BY <1>1 DEF VersionId
<1> HIDE DEF from
<1>10. PICK id : id = CHOOSE x \in from \cup {1} : \A j \in from : j <= x
  OBVIOUS
<1>11. id \in from \cup {1} /\ \A j \in from : j <= id
  BY <1>6, <1>7, <1>10
<1>12. id = k
  BY <1>6, <1>7, <1>8, <1>11
<1> QED BY <1>1, <1>5, <1>9, <1>10, <1>12

-----------------------------------------------------------------------------
(* Merging.  A version stands for releases in which the struct has the     *)
(* same layout.                                                            *)

Alike(s, v) == \A i \in v.first .. v.last : Layout[s][i] = Layout[s][v.first]

Honest(s, q) ==
    \A k \in 1 .. Len(q) : q[k].text = source[s][q[k].first] /\ Alike(s, q[k])

Ranged(n) == \A s \in Structs : Chain(structVersions[s], n) /\ Honest(s, structVersions[s])

Settled(s) ==
    \A k \in 2 .. Len(structVersions[s]) :
        ~SameAst(s, structVersions[s][k - 1], structVersions[s][k])

LEMMA LayoutParts ==
    ASSUME NEW s \in Structs, NEW i \in 1 .. Len(versions), NEW j \in 1 .. Len(versions)
    PROVE  Layout[s][i] = Layout[s][j]
            <=> source[s][i] = source[s][j] /\ \A e \in Embeds[s] : Layout[e][i] = Layout[e][j]
<1>1. PICK L : L = Layout
  OBVIOUS
<1> DEFINE P(k) == [e \in Embeds[s] |-> L[e][k]]
<1>2. /\ L[s][i] = [text |-> source[s][i], parts |-> P(i)]
      /\ L[s][j] = [text |-> source[s][j], parts |-> P(j)]
  BY <1>1, LayoutUnfolds DEF Layout
<1>3. P(i) = P(j) <=> \A e \in Embeds[s] : L[e][i] = L[e][j]
  <2>1. ASSUME P(i) = P(j), NEW e \in Embeds[s] PROVE L[e][i] = L[e][j]
    <3>1. P(i)[e] = L[e][i] /\ P(j)[e] = L[e][j]
      OBVIOUS
    <3> HIDE DEF P
    <3> QED BY <2>1, <3>1
  <2> QED BY <2>1
<1> HIDE DEF P
<1> QED BY <1>1, <1>2, <1>3

(* Where two versions print the same, the struct is the same.              *)
LEMMA SameIsSame ==
    ASSUME NEW s \in Structs, NEW x, NEW y, NEW n, n = Len(versions), n \in Nat, Ranged(n),
           x.first \in 1 .. n, y.first \in 1 .. n,
           x.text = source[s][x.first], y.text = source[s][y.first], SameAst(s, x, y)
    PROVE  Layout[s][x.first] = Layout[s][y.first]
<1>1. ASSUME NEW e \in Embeds[s] PROVE Layout[e][x.first] = Layout[e][y.first]
  <2>1. e \in Structs
    BY StructsAreFinite
  <2>2. PICK q : q = structVersions[e] /\ Chain(q, n) /\ Honest(e, q)
    BY <2>1 DEF Ranged
  <2>3. PICK k \in 1 .. Len(q) : LookupVersion(e, x.first) = q[k] /\ x.first \in q[k].first .. q[k].last
    BY <2>2, LookupFinds
  <2>4. PICK l \in 1 .. Len(q) : LookupVersion(e, y.first) = q[l] /\ y.first \in q[l].first .. q[l].last
    BY <2>2, LookupFinds
  <2>5. q[k].first = q[l].first
    BY <2>3, <2>4 DEF SameAst
  <2>6. Layout[e][x.first] = Layout[e][q[k].first] /\ Layout[e][y.first] = Layout[e][q[l].first]
    BY <2>2, <2>3, <2>4 DEF Honest, Alike
  <2> QED BY <2>5, <2>6
<1>2. source[s][x.first] = source[s][y.first]
  BY DEF SameAst
<1> QED BY <1>1, <1>2, LayoutParts

LEMMA FunctionIsSequence == \A R : \A l \in Nat : \A f \in [1 .. l -> R] : f \in Seq(R)
  OBVIOUS

LEMMA Replaced ==
    ASSUME NEW R, NEW l \in Nat, NEW m \in [1 .. l -> R], NEW w \in R, NEW i \in 1 .. l,
           NEW r, r = [m EXCEPT ![i] = w]
    PROVE  /\ r \in Seq(R) /\ Len(r) = l
           /\ r[i] = w /\ \A k \in 1 .. l : k # i => r[k] = m[k]
<1>1. /\ r \in [1 .. l -> R] /\ DOMAIN r = 1 .. l
      /\ r[i] = w /\ \A k \in 1 .. l : k # i => r[k] = m[k]
  OBVIOUS
<1>2. r \in Seq(R)
  BY <1>1, FunctionIsSequence
<1>3. Len(r) = l
  BY <1>1, <1>2
<1> QED BY <1>1, <1>2, <1>3

(* The last range grows by the next version, ...                           *)
Grown(m, v) == [m EXCEPT ![Len(m)].last = v.last]

LEMMA Extended ==
    ASSUME NEW s \in Structs, NEW m, NEW n \in Nat, NEW v \in VersionRecords, Chain(m, n), Honest(s, m),
           m # <<>>, v.first = n + 1, v.first <= v.last,
           Layout[s][m[Len(m)].first] = Layout[s][v.first],
           Alike(s, v),
           NEW r, r = Grown(m, v)
    PROVE  Chain(r, v.last) /\ Honest(s, r) /\ Len(r) = Len(m)
<1>1. PICK l \in Nat : l = Len(m) /\ l # 0
  BY ChainTypes DEF Chain
<1>2. /\ DOMAIN m = 1 .. l /\ m \in [1 .. l -> VersionRecords]
      /\ \A k \in 1 .. l : m[k].first \in Nat /\ m[k].last \in Nat
  <2>1. DOMAIN m = 1 .. l /\ \A k \in 1 .. l : m[k].first \in Nat /\ m[k].last \in Nat
    BY <1>1, ChainTypes
  <2>2. m \in Seq(VersionRecords)
    BY DEF Chain
  <2> QED BY <1>1, <2>1, <2>2
<1>3. v.first \in Nat /\ v.last \in Nat
  BY DEF VersionRecords
<1>u. PICK u \in VersionRecords : u = m[l]
  BY <1>1, <1>2
<1>w. PICK w : w = [u EXCEPT !.last = v.last]
  OBVIOUS
<1>4. w \in VersionRecords /\ w.first = m[l].first /\ w.last = v.last /\ w.text = m[l].text
  <2>1. w \in VersionRecords /\ w.first = u.first /\ w.last = v.last /\ w.text = u.text
    BY <1>3, <1>w DEF VersionRecords
  <2> QED BY <1>u, <2>1
<1>5. r = [m EXCEPT ![l] = w]
  BY <1>1, <1>u, <1>w DEF Grown
<1>6. /\ r \in Seq(VersionRecords) /\ Len(r) = l
      /\ r[l] = w /\ \A k \in 1 .. l : k # l => r[k] = m[k]
  <2>1. l \in 1 .. l
    BY <1>1
  <2> QED BY <1>2, <1>4, <1>5, <2>1, Replaced
<1>8. m[l].first <= m[l].last /\ m[l].last = n
  BY <1>1 DEF Chain
<1>9. Chain(r, v.last)
  <2>1. Len(r) = 0 <=> v.last = 0
    BY <1>1, <1>3, <1>6
  <2>2. r[1].first = 1 /\ r[Len(r)].last = v.last
    <3>1. m[1].first = 1
      BY <1>1 DEF Chain
    <3>2. r[1].first = m[1].first
      BY <1>1, <1>4, <1>6
    <3> QED BY <1>4, <1>6, <3>1, <3>2
  <2>3. ASSUME NEW k \in 1 .. l PROVE r[k].first <= r[k].last
    <3>1. CASE k = l
      BY <1>2, <1>3, <1>4, <1>6, <1>8, <3>1
    <3>2. CASE k # l
      BY <1>1, <1>6, <3>2 DEF Chain
    <3> QED BY <3>1, <3>2
  <2>4. ASSUME NEW k \in 2 .. l PROVE r[k].first = r[k - 1].last + 1
    <3>1. m[k].first = m[k - 1].last + 1
      BY <1>1 DEF Chain
    <3>2. k - 1 \in 1 .. l /\ k - 1 # l /\ k \in 1 .. l
      BY <1>1
    <3>3. r[k - 1] = m[k - 1] /\ r[k].first = m[k].first
      BY <1>4, <1>6, <3>2
    <3> QED BY <3>1, <3>3
  <2> QED BY <1>1, <1>6, <2>1, <2>2, <2>3, <2>4 DEF Chain
<1>10. Honest(s, r)
  <2> SUFFICES ASSUME NEW k \in 1 .. l
               PROVE  r[k].text = source[s][r[k].first] /\ Alike(s, r[k])
    BY <1>6 DEF Honest
  <2>1. m[k].text = source[s][m[k].first] /\ Alike(s, m[k])
    BY <1>1 DEF Honest
  <2>2. CASE k # l
    BY <1>6, <2>1, <2>2
  <2>3. CASE k = l
    <3>1. ASSUME NEW i \in w.first .. w.last PROVE Layout[s][i] = Layout[s][w.first]
      <4>1. i \in m[l].first .. m[l].last \/ i \in v.first .. v.last
        BY <1>2, <1>3, <1>4, <1>8, <3>1
      <4> QED BY <1>1, <1>4, <2>1, <2>3, <4>1 DEF Alike
    <3> QED BY <1>4, <1>6, <2>1, <2>3, <3>1 DEF Alike
  <2> QED BY <2>2, <2>3
<1> QED BY <1>1, <1>6, <1>9, <1>10

(* ... or the next version begins a range of its own.                      *)
LEMMA Appended ==
    ASSUME NEW s \in Structs, NEW m, NEW n \in Nat, NEW v \in VersionRecords, Chain(m, n), Honest(s, m),
           v.first = n + 1, v.first <= v.last, v.text = source[s][v.first],
           Alike(s, v),
           NEW r, r = Append(m, v)
    PROVE  Chain(r, v.last) /\ Honest(s, r) /\ Len(r) = Len(m) + 1
<1>1. PICK l \in Nat : l = Len(m)
  BY ChainTypes
<1>2. m \in Seq(VersionRecords) /\ v.first \in Nat /\ v.last \in Nat
  BY DEF Chain, VersionRecords
<1>3. /\ r \in Seq(VersionRecords) /\ Len(r) = l + 1
      /\ r[l + 1] = v /\ \A k \in 1 .. l : r[k] = m[k]
  BY <1>1, <1>2
<1>4. Chain(r, v.last)
  <2>1. (Len(r) = 0 <=> v.last = 0) /\ Len(r) # 0
    BY <1>1, <1>2, <1>3
  <2>2. r[1].first = 1
    <3>1. CASE l = 0
      <4>1. n = 0
        BY <1>1, <3>1 DEF Chain
      <4> QED BY <1>3, <3>1, <4>1
    <3>2. CASE l # 0
      <4>1. m[1].first = 1 /\ 1 \in 1 .. l
        BY <1>1, <3>2 DEF Chain
      <4> QED BY <1>3, <4>1
    <3> QED BY <3>1, <3>2
  <2>3. ASSUME NEW k \in 1 .. l + 1 PROVE r[k].first <= r[k].last
    <3>1. CASE k = l + 1
      BY <1>3, <3>1
    <3>2. CASE k # l + 1
      <4>1. k \in 1 .. l
        BY <1>1, <3>2
      <4> QED BY <1>1, <1>3, <4>1 DEF Chain
    <3> QED BY <3>1, <3>2
  <2>4. ASSUME NEW k \in 2 .. l + 1 PROVE r[k].first = r[k - 1].last + 1
    <3>1. k - 1 \in 1 .. l /\ r[k - 1] = m[k - 1]
      BY <1>1, <1>3
    <3>2. CASE k = l + 1
      <4>1. m[l].last = n
        BY <1>1, <3>1 DEF Chain
      <4> QED BY <1>1, <1>3, <3>1, <3>2, <4>1
    <3>3. CASE k # l + 1
      <4>1. k \in 2 .. l /\ k \in 1 .. l
        BY <1>1, <3>3
      <4>2. m[k].first = m[k - 1].last + 1
        BY <1>1, <4>1 DEF Chain
      <4> QED BY <1>3, <3>1, <4>1, <4>2
    <3> QED BY <3>2, <3>3
  <2> QED BY <1>1, <1>3, <2>1, <2>2, <2>3, <2>4 DEF Chain
<1>5. Honest(s, r)
  <2> SUFFICES ASSUME NEW k \in 1 .. l + 1
               PROVE  r[k].text = source[s][r[k].first] /\ Alike(s, r[k])
    BY <1>3 DEF Honest
  <2>1. CASE k = l + 1
    BY <1>3, <2>1
  <2>2. CASE k # l + 1
    <3>1. k \in 1 .. l
      BY <1>1, <2>2
    <3> QED BY <1>1, <1>3, <3>1 DEF Honest
  <2> QED BY <2>1, <2>2
<1> QED BY <1>1, <1>3, <1>4, <1>5

(* What simplify() has of the first k versions of a struct.                *)
Merged(s, q, m, k) ==
    /\ Chain(m, IF k = 0 THEN 0 ELSE q[k].last) /\ Honest(s, m)
    /\ Len(m) <= k
    /\ Len(m) = k => /\ \A j \in 1 .. k : m[j] = q[j]
                     /\ \A j \in 2 .. k : ~SameAst(s, q[j - 1], q[j])

LEMMA MergeStep ==
    ASSUME NEW n \in Nat, n = Len(versions), Ranged(n), NEW s \in Structs,
           NEW k \in 1 .. Len(structVersions[s]), NEW m, Merged(s, structVersions[s], m, k - 1)
    PROVE  Merged(s, structVersions[s], Merge(s, m, structVersions[s][k]), k)
<1>q. PICK q, r : /\ q = structVersions[s] /\ k \in 1 .. Len(q)
                  /\ Merged(s, q, m, k - 1) /\ r = Merge(s, m, q[k])
  OBVIOUS
<1>1. Chain(q, n) /\ Honest(s, q) /\ k \in 1 .. Len(q)
  BY <1>q DEF Ranged
<1>2. PICK v \in VersionRecords : v = q[k]
  BY <1>1, ChainTypes
<1>3. Len(q) \in Nat /\ k \in 1 .. Len(q) /\ \A j \in 1 .. Len(q) : q[j].first \in Nat /\ q[j].last \in Nat
  BY <1>1, ChainTypes
<1>4. k \in Nat /\ k - 1 \in Nat /\ k # 0
  BY <1>3
<1>5. PICK d \in Nat : d = IF k - 1 = 0 THEN 0 ELSE q[k - 1].last
  <2>1. k - 1 # 0 => k - 1 \in 1 .. Len(q)
    BY <1>3
  <2> QED BY <1>3, <2>1
<1>6. v.first = d + 1
  <2>1. CASE k = 1
    <3>1. q[1].first = 1
      BY <1>1, <1>3 DEF Chain
    <3> QED BY <1>2, <1>5, <2>1, <3>1
  <2>2. CASE k # 1
    <3>1. k \in 2 .. Len(q)
      BY <1>3, <2>2
    <3>2. q[k].first = q[k - 1].last + 1
      BY <1>1, <3>1 DEF Chain
    <3> QED BY <1>2, <1>4, <1>5, <2>2, <3>2
  <2> QED BY <2>1, <2>2
<1>7. /\ v.first <= v.last /\ v.first \in 1 .. n /\ v.last \in 1 .. n
      /\ v.text = source[s][v.first] /\ Alike(s, v)
  <2>1. v.first <= v.last
    BY <1>1, <1>2 DEF Chain
  <2>2. v.first \in 1 .. n /\ v.last \in 1 .. n
    BY <1>1, <1>2, ChainWithin
  <2>3. v.text = source[s][v.first] /\ Alike(s, v)
    BY <1>1, <1>2 DEF Honest
  <2> QED BY <2>1, <2>2, <2>3
<1>8. Chain(m, d) /\ Honest(s, m)
  BY <1>q, <1>5 DEF Merged
<1>9. PICK l \in Nat : l = Len(m) /\ l <= k - 1
  BY <1>q, <1>8, ChainTypes DEF Merged
<1>10. m \in Seq(VersionRecords) /\ (m = <<>> <=> l = 0)
  <2>1. m \in Seq(VersionRecords)
    BY <1>8 DEF Chain
  <2> QED BY <1>9, <2>1
<1>11. Last(m) = m[l]
  BY <1>9 DEF Last
<1>12. CASE m # <<>> /\ SameAst(s, m[l], v)
  <2>1. l \in 1 .. Len(m)
    BY <1>9, <1>10, <1>12
  <2>2. m[l].first \in 1 .. n /\ m[l].text = source[s][m[l].first]
    <3>1. m[l].first \in 1 .. d
      BY <1>8, <2>1, ChainWithin
    <3>2. d <= n
      BY <1>6, <1>7
    <3>3. m[l].text = source[s][m[l].first]
      BY <1>8, <2>1 DEF Honest
    <3> QED BY <3>1, <3>2, <3>3
  <2>3. Layout[s][m[l].first] = Layout[s][v.first]
    BY <1>7, <1>12, <2>2, SameIsSame
  <2>4. r = Grown(m, v)
    BY <1>q, <1>2, <1>11, <1>12 DEF Merge, Grown
  <2>5. Chain(r, v.last) /\ Honest(s, r) /\ Len(r) = l
    <3>1. /\ Chain(m, d) /\ Honest(s, m) /\ m # <<>> /\ v.first = d + 1 /\ v.first <= v.last
          /\ Layout[s][m[Len(m)].first] = Layout[s][v.first] /\ Alike(s, v)
      BY <1>6, <1>7, <1>8, <1>9, <1>12, <2>3
    <3>2. Chain(r, v.last) /\ Honest(s, r) /\ Len(r) = Len(m)
      BY <2>4, <3>1, Extended, Zenon
    <3> QED BY <1>9, <3>2
  <2>6. l <= k /\ l # k
    BY <1>4, <1>9
  <2> QED BY <1>q, <1>2, <1>4, <2>5, <2>6 DEF Merged
<1>13. CASE ~(m # <<>> /\ SameAst(s, m[l], v))
  <2>1. r = Append(m, v)
    BY <1>q, <1>2, <1>11, <1>13 DEF Merge
  <2>2. Chain(r, v.last) /\ Honest(s, r) /\ Len(r) = l + 1
    <3>1. /\ Chain(m, d) /\ Honest(s, m) /\ v.first = d + 1 /\ v.first <= v.last
          /\ v.text = source[s][v.first] /\ Alike(s, v)
      BY <1>6, <1>7, <1>8
    <3>2. Chain(r, v.last) /\ Honest(s, r) /\ Len(r) = Len(m) + 1
      BY <2>1, <3>1, Appended, Zenon
    <3> QED BY <1>9, <3>2
  <2>3. r[l + 1] = v /\ \A j \in 1 .. l : r[j] = m[j]
    BY <1>9, <1>10, <2>1
  <2>4. l + 1 <= k
    BY <1>4, <1>9
  <2>5. ASSUME l + 1 = k
        PROVE  /\ \A j \in 1 .. k : r[j] = q[j]
               /\ \A j \in 2 .. k : ~SameAst(s, q[j - 1], q[j])
    <3>1. l = k - 1
      BY <1>4, <2>5
    <3>2. /\ \A j \in 1 .. k - 1 : m[j] = q[j]
          /\ \A j \in 2 .. k - 1 : ~SameAst(s, q[j - 1], q[j])
      BY <1>q, <1>9, <3>1 DEF Merged
    <3>3. ASSUME NEW j \in 1 .. k PROVE r[j] = q[j]
      <4>1. CASE j = k
        BY <1>2, <2>3, <2>5, <4>1
      <4>2. CASE j # k
        <5>1. j \in 1 .. k - 1
          BY <1>4, <4>2
        <5> QED BY <2>3, <3>1, <3>2, <5>1
      <4> QED BY <4>1, <4>2
    <3>4. ASSUME NEW j \in 2 .. k PROVE ~SameAst(s, q[j - 1], q[j])
      <4>1. CASE j = k
        <5>1. l # 0 /\ l = j - 1 /\ l \in 1 .. k - 1
          BY <1>4, <1>9, <3>1, <4>1
        <5>2. m[l] = q[j - 1] /\ m # <<>>
          BY <1>10, <3>2, <5>1
        <5> QED BY <1>2, <1>13, <4>1, <5>2
      <4>2. CASE j # k
        <5>1. j \in 2 .. k - 1
          BY <1>4, <4>2
        <5> QED BY <3>2, <5>1
      <4> QED BY <4>1, <4>2
    <3> QED BY <3>3, <3>4
  <2> QED BY <1>q, <1>2, <1>4, <2>2, <2>4, <2>5 DEF Merged
<1> QED BY <1>12, <1>13

(* simplify() keeps the ranges honest, and changes a struct only when it   *)
(* makes it shorter.                                                       *)
LEMMA SimplifiedRanges ==
    ASSUME NEW n \in Nat, n = Len(versions), Ranged(n), NEW s \in Structs
    PROVE  /\ Chain(Simplified(s), n) /\ Honest(s, Simplified(s))
           /\ Len(Simplified(s)) <= Len(structVersions[s])
           /\ Len(Simplified(s)) = Len(structVersions[s]) =>
                Simplified(s) = structVersions[s] /\ Settled(s)
<1>1. PICK q : q = structVersions[s] /\ Chain(q, n) /\ Honest(s, q)
  BY DEF Ranged
<1>2. PICK len \in Nat : len = Len(q)
  BY <1>1, ChainTypes
<1>3. PICK f : f = Merging(s)
  OBVIOUS
<1>4. /\ f[0] = <<>>
      /\ \A k \in 1 .. len : f[k] = Merge(s, f[k - 1], q[k])
  BY <1>1, <1>2, <1>3, MergingUnfolds
<1> DEFINE bad == {k \in 0 .. len : ~Merged(s, q, f[k], k)}
<1>5. bad = {}
  <2>1. SUFFICES ASSUME bad # {} PROVE FALSE
    OBVIOUS
  <2>2. bad \in SUBSET Nat
    OBVIOUS
  <2>3. PICK k \in bad : \A j \in bad : k <= j
    <3> HIDE DEF bad
    <3> QED BY <2>1, <2>2, Smallest
  <2>4. k \in 0 .. len /\ ~Merged(s, q, f[k], k)
    OBVIOUS
  <2>5. CASE k = 0
    <3>1. Chain(<<>>, 0) /\ Honest(s, <<>>) /\ Len(<<>>) = 0
      BY DEF Chain, Honest
    <3>2. Merged(s, q, <<>>, 0)
      BY <3>1 DEF Merged
    <3> QED BY <1>4, <2>4, <2>5, <3>2
  <2>6. CASE k # 0
    <3>1. k \in 1 .. len /\ k - 1 \in 0 .. len /\ ~(k <= k - 1)
      BY <2>4, <2>6
    <3>2. Merged(s, q, f[k - 1], k - 1)
      BY <2>3, <3>1
    <3>3. f[k] = Merge(s, f[k - 1], q[k])
      BY <1>4, <3>1
    <3> HIDE DEF bad
    <3>4. Merged(s, q, f[k], k)
      BY <1>1, <1>2, <3>1, <3>2, <3>3, MergeStep
    <3> QED BY <2>4, <3>4
  <2> QED BY <2>5, <2>6
<1>6. PICK r : r = Simplified(s) /\ Merged(s, q, r, len)
  <2>1. len \in 0 .. len
    BY <1>2
  <2>2. Merged(s, q, f[len], len)
    BY <1>5, <2>1
  <2> QED BY <1>1, <1>2, <1>3, <2>2 DEF Simplified
<1>7. Chain(r, n)
  <2>1. CASE len = 0
    <3>1. n = 0
      BY <1>1, <1>2, <2>1 DEF Chain
    <3> QED BY <1>6, <2>1, <3>1 DEF Merged
  <2>2. CASE len # 0
    <3>1. q[len].last = n
      BY <1>1, <1>2, <2>2 DEF Chain
    <3> QED BY <1>6, <2>2, <3>1 DEF Merged
  <2> QED BY <2>1, <2>2
<1>8. ASSUME Len(r) = len PROVE r = q /\ Settled(s)
  <2>1. /\ \A j \in 1 .. len : r[j] = q[j]
        /\ \A j \in 2 .. len : ~SameAst(s, q[j - 1], q[j])
    BY <1>6, <1>8 DEF Merged
  <2>2. r \in Seq(VersionRecords) /\ q \in Seq(VersionRecords)
    BY <1>1, <1>7 DEF Chain
  <2>3. r = q
    BY <1>2, <1>8, <2>1, <2>2
  <2> QED BY <1>1, <1>2, <2>1, <2>3 DEF Settled
<1> QED BY <1>1, <1>2, <1>6, <1>7, <1>8 DEF Merged

-----------------------------------------------------------------------------
(* The invariant of the generator (build.py).                              *)

GenInv ==
    /\ VersionsFit(Len(versions))
    /\ source \in [Structs -> [1 .. Len(versions) -> Texts]]
    /\ structVersions = [s \in Structs |-> structVersions[s]]
    /\ step \in {"update", "simplify", "done"}
    /\ step = "update" =>
        /\ cursor \in 0 .. Len(versions)
        /\ \A s \in Structs : Chain(structVersions[s], cursor) /\ Honest(s, structVersions[s])
    /\ step # "update" => Ranged(Len(versions))
    /\ step = "simplify" =>
        /\ cursor \in Nat /\ cursor # 0
        /\ made_change \/ \A s \in Structs : s < cursor => Settled(s)
    /\ step = "done" => \A s \in Structs : Settled(s)

LEMMA GenInit == Init => GenInv
<1> SUFFICES ASSUME Init PROVE GenInv
  OBVIOUS
<1>1. /\ tags \in TagSets /\ branches \in BranchSets
      /\ versions = ParseTagsAndBranches(tags, branches)
      /\ source \in [Structs -> [DOMAIN versions -> Texts]]
      /\ structVersions = [s \in Structs |-> <<>>]
      /\ step = "update" /\ cursor = 0
  BY DEF Init
<1>2. /\ \E n \in Nat : DOMAIN versions = 1 .. n /\ Len(versions) = n
      /\ \A i \in DOMAIN versions : IsVersion(versions[i])
      /\ \A i, j \in DOMAIN versions : i < j => Combo(versions[i]) < Combo(versions[j])
  BY <1>1, ParsedInOrder
<1>3. PICK n \in Nat : DOMAIN versions = 1 .. n /\ Len(versions) = n
  BY <1>2
<1>4. \A i \in 1 .. n : Combo(versions[i]) \in Nat
  BY <1>2, <1>3, LessIsCombo
<1>5. VersionsFit(n)
  BY <1>2, <1>3, <1>4 DEF VersionsFit, VersionsInOrder
<1>6. source \in [Structs -> [1 .. n -> Texts]]
  BY <1>1, <1>3
<1>7. structVersions = [s \in Structs |-> structVersions[s]]
  BY <1>1
<1>8. \A s \in Structs : Chain(structVersions[s], 0) /\ Honest(s, structVersions[s])
  <2>1. ASSUME NEW s PROVE Chain(<<>>, 0) /\ Honest(s, <<>>)
    BY DEF Chain, Honest
  <2> QED BY <1>1, <2>1
<1>9. 0 \in 0 .. n
  BY <1>3
<1> QED BY <1>1, <1>3, <1>5, <1>6, <1>7, <1>8, <1>9 DEF GenInv

LEMMA RepoKept ==
    ASSUME UNCHANGED repoVars, GenInv
    PROVE  /\ VersionsFit(Len(versions))'
           /\ (source \in [Structs -> [1 .. Len(versions) -> Texts]])'
           /\ Len(versions)' = Len(versions) /\ source' = source /\ Layout' = Layout
<1>1. versions' = versions /\ source' = source
  BY DEF repoVars
<1>2. VersionsFit(Len(versions)) /\ source \in [Structs -> [1 .. Len(versions) -> Texts]]
  BY DEF GenInv
<1>3. VersionsFit(Len(versions))'
  BY <1>1, <1>2 DEF VersionsFit, VersionsInOrder
<1>4. Layout' = Layout
  BY <1>1 DEF Layout
<1> QED BY <1>1, <1>2, <1>3, <1>4

(* The next version begins a range of its own in every struct.             *)
LEMMA GenUpdate == GenInv /\ Update => GenInv'
<1> SUFFICES ASSUME GenInv, Update PROVE GenInv'
  OBVIOUS
<1>1. /\ step = "update" /\ cursor < Len(versions) /\ cursor' = cursor + 1
      /\ structVersions' = [s \in Structs |->
            Append(structVersions[s],
                   [first |-> cursor + 1, last |-> cursor + 1, text |-> source[s][cursor + 1]])]
      /\ UNCHANGED repoVars /\ step' = step
  BY DEF Update
<1>2. PICK n \in Nat : n = Len(versions) /\ cursor \in 0 .. n /\ cursor \in Nat /\ cursor + 1 \in 1 .. n
  <2>1. Len(versions) \in Nat /\ cursor \in 0 .. Len(versions)
    BY <1>1 DEF GenInv, VersionsFit
  <2> QED BY <1>1, <2>1
<1>3. /\ VersionsFit(Len(versions))'
      /\ (source \in [Structs -> [1 .. Len(versions) -> Texts]])'
      /\ Len(versions)' = n /\ source' = source /\ Layout' = Layout
  BY <1>1, <1>2, RepoKept
<1>4. ASSUME NEW s \in Structs
      PROVE  Chain(structVersions'[s], cursor + 1) /\ Honest(s, structVersions[s])'
  <2>1. PICK v : v = [first |-> cursor + 1, last |-> cursor + 1, text |-> source[s][cursor + 1]]
    OBVIOUS
  <2>2. source[s][cursor + 1] \in Texts
    BY <1>2 DEF GenInv
  <2>3. /\ v \in VersionRecords /\ v.first = cursor + 1 /\ v.last = cursor + 1
        /\ v.text = source[s][cursor + 1]
    BY <1>2, <2>1, <2>2 DEF VersionRecords
  <2>4. Chain(structVersions[s], cursor) /\ Honest(s, structVersions[s])
    BY <1>1 DEF GenInv
  <2>5. Alike(s, v)
    <3>1. \A i \in v.first .. v.last : i = v.first
      BY <1>2, <2>3
    <3> QED BY <3>1 DEF Alike
  <2>6. PICK r : r = Append(structVersions[s], v) /\ r = structVersions'[s]
    BY <1>1, <2>1
  <2>7. Chain(r, v.last) /\ Honest(s, r)
    <3>1. PICK m : m = structVersions[s] /\ Chain(m, cursor) /\ Honest(s, m) /\ r = Append(m, v)
      BY <2>4, <2>6
    <3>2. v.first <= v.last /\ v.text = source[s][v.first] /\ cursor \in Nat
      BY <1>2, <2>3
    <3> QED BY <2>3, <2>5, <3>1, <3>2, Appended, Zenon
  <2>8. Honest(s, structVersions[s])'
    BY <1>3, <2>6, <2>7 DEF Honest, Alike
  <2> QED BY <2>3, <2>6, <2>7, <2>8
<1>5. (structVersions = [s \in Structs |-> structVersions[s]])'
  BY <1>1
<1> QED BY <1>1, <1>2, <1>3, <1>4, <1>5 DEF GenInv

LEMMA GenStartSimplify == GenInv /\ StartSimplify => GenInv'
<1> SUFFICES ASSUME GenInv, StartSimplify PROVE GenInv'
  OBVIOUS
<1>1. /\ step = "update" /\ cursor = Len(versions) /\ step' = "simplify" /\ cursor' = 1
      /\ structVersions' = structVersions /\ UNCHANGED repoVars
  BY DEF StartSimplify
<1>2. /\ VersionsFit(Len(versions))'
      /\ (source \in [Structs -> [1 .. Len(versions) -> Texts]])'
      /\ Len(versions)' = Len(versions) /\ source' = source /\ Layout' = Layout
  BY <1>1, RepoKept
<1>3. Ranged(Len(versions))'
  <2>1. \A s \in Structs : Chain(structVersions[s], Len(versions)) /\ Honest(s, structVersions[s])
    BY <1>1 DEF GenInv
  <2> QED BY <1>1, <1>2, <2>1 DEF Ranged, Honest, Alike
<1>4. \A s \in Structs : ~(s < 1)
  <2>1. PICK size \in Nat : Structs = 1 .. size
    BY StructsAreFinite, FS_CardinalityType
  <2> QED BY <2>1
<1>5. (structVersions = [s \in Structs |-> structVersions[s]])'
  BY <1>1 DEF GenInv
<1> QED BY <1>1, <1>2, <1>3, <1>4, <1>5 DEF GenInv

LEMMA SettledKept ==
    ASSUME structVersions' = structVersions
    PROVE  \A s \in Structs : Settled(s)' <=> Settled(s)
BY DEF Settled, SameAst, LookupVersion

(* A round that has changed nothing so far leaves what is behind settled.  *)
LEMMA GenSimplifyStruct == GenInv /\ SimplifyStruct => GenInv'
<1> SUFFICES ASSUME GenInv, SimplifyStruct PROVE GenInv'
  OBVIOUS
<1>1. /\ step = "simplify" /\ cursor \in Structs
      /\ structVersions' = [structVersions EXCEPT ![cursor] = Simplified(cursor)]
      /\ made_change' = (made_change \/ Len(Simplified(cursor)) < Len(structVersions[cursor]))
      /\ cursor' = cursor + 1 /\ UNCHANGED repoVars /\ step' = step
  BY DEF SimplifyStruct
<1>2. PICK n \in Nat : n = Len(versions) /\ Ranged(n)
  BY <1>1 DEF GenInv, VersionsFit
<1>3. /\ VersionsFit(Len(versions))'
      /\ (source \in [Structs -> [1 .. Len(versions) -> Texts]])'
      /\ Len(versions)' = n /\ source' = source /\ Layout' = Layout
  BY <1>1, <1>2, RepoKept
<1>4. PICK r : /\ r = Simplified(cursor)
               /\ Chain(r, n) /\ Honest(cursor, r)
               /\ Len(r) <= Len(structVersions[cursor])
               /\ Len(r) = Len(structVersions[cursor]) => r = structVersions[cursor] /\ Settled(cursor)
  BY <1>1, <1>2, SimplifiedRanges
<1>5. /\ structVersions = [s \in Structs |-> structVersions[s]]
      /\ structVersions' = [s \in Structs |-> IF s = cursor THEN r ELSE structVersions[s]]
  BY <1>1, <1>4 DEF GenInv
<1>6. Ranged(n)'
  <2> SUFFICES ASSUME NEW s \in Structs
               PROVE  Chain(structVersions[s], n)' /\ Honest(s, structVersions[s])'
    BY DEF Ranged
  <2>1. PICK q : q = structVersions'[s] /\ Chain(q, n) /\ Honest(s, q)
    <3>1. CASE s = cursor
      BY <1>4, <1>5, <3>1
    <3>2. CASE s # cursor
      BY <1>2, <1>5, <3>2 DEF Ranged
    <3> QED BY <3>1, <3>2
  <2> QED BY <1>3, <2>1 DEF Chain, Honest, Alike
<1>7. ASSUME ~made_change' PROVE \A s \in Structs : s < cursor + 1 => Settled(s)'
  <2>1. ~made_change /\ ~(Len(r) < Len(structVersions[cursor]))
    BY <1>1, <1>4, <1>7
  <2>2. Len(r) = Len(structVersions[cursor])
    <3>1. Len(r) \in Nat /\ Len(structVersions[cursor]) \in Nat
      BY <1>1, <1>2, <1>4, ChainTypes DEF Ranged
    <3> QED BY <1>4, <2>1, <3>1
  <2>3. r = structVersions[cursor] /\ Settled(cursor)
    BY <1>4, <2>2
  <2>4. structVersions' = structVersions
    BY <1>5, <2>3
  <2>5. \A s \in Structs : s < cursor + 1 => s < cursor \/ s = cursor
    <3>1. PICK size \in Nat : Structs = 1 .. size
      BY StructsAreFinite, FS_CardinalityType
    <3> QED BY <1>1, <3>1
  <2>6. \A s \in Structs : s < cursor + 1 => Settled(s)
    BY <1>1, <2>1, <2>3, <2>5 DEF GenInv
  <2> QED BY <2>4, <2>6, SettledKept
<1>8. cursor' \in Nat /\ cursor' # 0
  BY <1>1 DEF GenInv
<1>9. (structVersions = [s \in Structs |-> structVersions[s]])'
  BY <1>5
<1>10. Ranged(Len(versions))'
  BY <1>3, <1>6
<1> QED BY <1>1, <1>3, <1>7, <1>8, <1>9, <1>10 DEF GenInv

LEMMA GenEndRound == GenInv /\ EndRound => GenInv'
<1> SUFFICES ASSUME GenInv, EndRound PROVE GenInv'
  OBVIOUS
<1>1. /\ step = "simplify" /\ cursor \notin Structs
      /\ made_change => step' = "simplify" /\ cursor' = 1
      /\ ~made_change => step' = "done"
      /\ structVersions' = structVersions /\ UNCHANGED repoVars
  BY DEF EndRound
<1>2. /\ VersionsFit(Len(versions))'
      /\ (source \in [Structs -> [1 .. Len(versions) -> Texts]])'
      /\ Len(versions)' = Len(versions) /\ source' = source /\ Layout' = Layout
  BY <1>1, RepoKept
<1>3. Ranged(Len(versions))'
  <2>1. Ranged(Len(versions))
    BY <1>1 DEF GenInv
  <2> QED BY <1>1, <1>2, <2>1 DEF Ranged, Honest, Alike
<1>4. PICK size \in Nat : Structs = 1 .. size
  BY StructsAreFinite, FS_CardinalityType
<1>5. \A s \in Structs : s < cursor /\ ~(s < 1)
  <2>1. cursor \in Nat /\ cursor # 0
    BY <1>1 DEF GenInv
  <2> QED BY <1>1, <1>4, <2>1
<1>6. (structVersions = [s \in Structs |-> structVersions[s]])'
  BY <1>1 DEF GenInv
<1>7. ~made_change => \A s \in Structs : Settled(s)'
  <2>1. ~made_change => \A s \in Structs : Settled(s)
    BY <1>1, <1>5 DEF GenInv
  <2> QED BY <1>1, <2>1, SettledKept
<1>8. CASE made_change
  BY <1>1, <1>2, <1>3, <1>5, <1>6, <1>8 DEF GenInv
<1>9. CASE ~made_change
  BY <1>1, <1>2, <1>3, <1>6, <1>7, <1>9 DEF GenInv
<1> QED BY <1>8, <1>9

LEMMA GenStutter == GenInv /\ UNCHANGED vars => GenInv'
<1> SUFFICES ASSUME GenInv, UNCHANGED vars PROVE GenInv'
  OBVIOUS
<1>1. UNCHANGED <<repoVars, structVersions, step, cursor, made_change>>
  BY DEF vars
<1>2. /\ VersionsFit(Len(versions))'
      /\ (source \in [Structs -> [1 .. Len(versions) -> Texts]])'
      /\ Len(versions)' = Len(versions) /\ source' = source /\ Layout' = Layout
  BY <1>1, RepoKept
<1>3. \A s \in Structs : Settled(s)' <=> Settled(s)
  BY <1>1, SettledKept
<1>4. Ranged(Len(versions)) => Ranged(Len(versions))'
  BY <1>1, <1>2 DEF Ranged, Honest, Alike
<1>5. step = "update" =>
        \A s \in Structs : Chain(structVersions'[s], cursor') /\ Honest(s, structVersions[s])'
  <2>1. step = "update" =>
        \A s \in Structs : Chain(structVersions[s], cursor) /\ Honest(s, structVersions[s])
    BY DEF GenInv
  <2> QED BY <1>1, <1>2, <2>1 DEF Honest, Alike
<1> QED BY <1>1, <1>2, <1>3, <1>4, <1>5 DEF GenInv

LEMMA GenInvariant == Spec => []GenInv
<1>1. GenInv /\ [Next]_vars => GenInv'
  BY GenUpdate, GenStartSimplify, GenSimplifyStruct, GenEndRound, GenStutter DEF Next
<1> QED BY GenInit, <1>1, PTL DEF Spec

-----------------------------------------------------------------------------
(* Theorems.                                                               *)

(* The versions checked out are in increasing order of the number the C    *)
(* code compares, and no branch head shares it with a release.             *)
THEOREM VersionsAreInOrder == Spec => []VersionsInOrder
<1>1. GenInv => VersionsInOrder
  BY DEF GenInv, VersionsFit
<1> QED BY <1>1, GenInvariant, PTL

(* The structs in a struct are emitted under the name of the range their   *)
(* version is in: it has the right layout, whatever it embeds in turn.     *)
LEMMA EmittedIsLayout ==
    ASSUME NEW n \in Nat, n = Len(versions), Ranged(n)
    PROVE  \A s \in Structs : \A i \in 1 .. n : Emitted[s][i] = Layout[s][i]
<1>1. PICK depth \in [Structs -> Structs] : \A s \in Structs : \A e \in Embeds[s] : depth[e] < depth[s]
  BY StructsAreFinite
<1>2. PICK size \in Nat : Structs = 1 .. size
  BY StructsAreFinite, FS_CardinalityType
<1>3. PICK E, L : E = Emitted /\ L = Layout
  OBVIOUS
<1> DEFINE bad == {k \in Nat : \E s \in Structs : depth[s] = k /\ \E i \in 1 .. n : E[s][i] # L[s][i]}
<1>4. SUFFICES ASSUME bad # {} PROVE FALSE
  <2>1. ASSUME NEW s \in Structs, NEW i \in 1 .. n, E[s][i] # L[s][i] PROVE bad # {}
    <3>1. depth[s] \in Nat
      BY <1>2
    <3> QED BY <2>1, <3>1
  <2> QED BY <1>3, <1>4, <2>1
<1>5. PICK k \in bad : \A j \in bad : k <= j
  <2>1. bad \in SUBSET Nat
    OBVIOUS
  <2> HIDE DEF bad
  <2> QED BY <1>4, <2>1, Smallest
<1>6. PICK s \in Structs, i \in 1 .. n : depth[s] = k /\ E[s][i] # L[s][i]
  BY <1>5
<1>7. ASSUME NEW e \in Embeds[s] PROVE e \in Structs /\ \A j \in 1 .. n : E[e][j] = L[e][j]
  <2>1. e \in Structs /\ depth[e] < k /\ depth[e] \in Nat /\ k \in Nat
    <3>1. e \in Structs
      BY StructsAreFinite
    <3>2. depth[e] < k
      BY <1>1, <1>6
    <3>3. depth[e] \in 1 .. size /\ depth[s] \in 1 .. size
      BY <1>1, <1>2, <3>1
    <3> QED BY <1>6, <3>1, <3>2, <3>3
  <2>2. depth[e] \notin bad
    <3> HIDE DEF bad
    <3> QED BY <1>5, <2>1
  <2> QED BY <2>1, <2>2
<1> HIDE DEF bad
<1>8. ASSUME NEW e \in Embeds[s] PROVE E[e][LookupVersion(e, i).first] = L[e][i]
  <2>1. PICK q : q = structVersions[e] /\ Chain(q, n) /\ Honest(e, q)
    BY <1>7 DEF Ranged
  <2>2. PICK l \in 1 .. Len(q) : LookupVersion(e, i) = q[l] /\ i \in q[l].first .. q[l].last
    BY <2>1, LookupFinds
  <2>3. q[l].first \in 1 .. n
    BY <2>1, ChainWithin
  <2>4. L[e][i] = L[e][q[l].first]
    BY <1>3, <2>1, <2>2 DEF Honest, Alike
  <2> QED BY <1>7, <2>2, <2>3, <2>4
<1> DEFINE P == [e \in Embeds[s] |-> E[e][LookupVersion(e, i).first]]
           Q == [e \in Embeds[s] |-> L[e][i]]
<1>9. P = Q
  <2> DEFINE p(e) == E[e][LookupVersion(e, i).first]
             q(e) == L[e][i]
  <2>1. \A e \in Embeds[s] : p(e) = q(e)
    BY <1>8
  <2>2. P = [e \in Embeds[s] |-> p(e)] /\ Q = [e \in Embeds[s] |-> q(e)]
    OBVIOUS
  <2> HIDE DEF p, q, P, Q
  <2> QED BY <2>1, <2>2
<1>10. E[s][i] = [text |-> source[s][i], parts |-> P]
  BY <1>3, <1>6, EmittedUnfolds
<1>11. L[s][i] = [text |-> source[s][i], parts |-> Q]
  BY <1>3, <1>6, LayoutUnfolds DEF Layout
<1> QED BY <1>6, <1>9, <1>10, <1>11

(* On every GTK it was generated from, the code that was generated uses a  *)
(* definition with the layout of that GTK, embedded structs included.      *)
THEOREM RightLayoutIsPicked == Spec => []PicksTheRightLayout
<1>1. ASSUME GenInv, step = "done", NEW s \in Structs, NEW i \in DOMAIN versions
      PROVE  Emitted[s][structVersions[s][VersionId(s, versions[i])].first] = Layout[s][i]
  <2>1. PICK n \in Nat : n = Len(versions) /\ DOMAIN versions = 1 .. n /\ VersionsFit(n) /\ Ranged(n)
    BY <1>1 DEF GenInv, VersionsFit
  <2>2. PICK q : q = structVersions[s] /\ Chain(q, n) /\ Honest(s, q)
    BY <2>1 DEF Ranged
  <2>3. PICK k \in 1 .. Len(q) : k = VersionId(s, versions[i]) /\ i \in q[k].first .. q[k].last
    BY <2>1, <2>2, VersionIdFinds
  <2>4. q[k].first \in 1 .. n
    BY <2>2, ChainWithin
  <2>5. Emitted[s][q[k].first] = Layout[s][q[k].first]
    BY <2>1, <2>4, EmittedIsLayout
  <2>6. Layout[s][i] = Layout[s][q[k].first]
    BY <2>2, <2>3 DEF Honest, Alike
  <2> QED BY <2>2, <2>3, <2>5, <2>6
<1>2. GenInv => PicksTheRightLayout
  BY <1>1 DEF PicksTheRightLayout
<1> QED BY <1>2, GenInvariant, PTL

(* When a round of simplify() changes nothing, neighbours differ in layout *)
(* and not only in the names of what they embed.  The embedded struct in   *)
(* question may change and change back between the first versions of two   *)
(* neighbours, but not within one of them.                                 *)
LEMMA NeighboursDiffer ==
    ASSUME NEW n \in Nat, n = Len(versions), Ranged(n), \A s \in Structs : Settled(s)
    PROVE  \A s \in Structs : \A k \in 2 .. Len(structVersions[s]) :
            Layout[s][structVersions[s][k].first] # Layout[s][structVersions[s][k - 1].first]
<1>1. PICK depth \in [Structs -> Structs] : \A s \in Structs : \A e \in Embeds[s] : depth[e] < depth[s]
  BY StructsAreFinite
<1>2. PICK size \in Nat : Structs = 1 .. size
  BY StructsAreFinite, FS_CardinalityType
<1>3. PICK L, sv : L = Layout /\ sv = structVersions
  OBVIOUS
<1> DEFINE Fails(s) == \E k \in 2 .. Len(sv[s]) : L[s][sv[s][k].first] = L[s][sv[s][k - 1].first]
           bad == {d \in Nat : \E s \in Structs : depth[s] = d /\ Fails(s)}
<1>4. SUFFICES ASSUME bad # {} PROVE FALSE
  <2>1. ASSUME NEW s \in Structs, Fails(s) PROVE bad # {}
    <3>1. depth[s] \in Nat
      BY <1>2
    <3> QED BY <2>1, <3>1
  <2> QED BY <1>3, <1>4, <2>1
<1>5. PICK d \in bad : \A j \in bad : d <= j
  <2>1. bad \in SUBSET Nat
    OBVIOUS
  <2> HIDE DEF bad
  <2> QED BY <1>4, <2>1, Smallest
<1>6. PICK s \in Structs : depth[s] = d /\ Fails(s)
  BY <1>5
<1>7. ASSUME NEW e \in Embeds[s] PROVE e \in Structs /\ ~Fails(e)
  <2>1. e \in Structs /\ depth[e] < d /\ depth[e] \in Nat /\ d \in Nat
    <3>1. e \in Structs
      BY StructsAreFinite
    <3>2. depth[e] < d
      BY <1>1, <1>6
    <3>3. depth[e] \in 1 .. size /\ depth[s] \in 1 .. size
      BY <1>1, <1>2, <3>1
    <3> QED BY <1>6, <3>1, <3>2, <3>3
  <2>2. depth[e] \notin bad
    <3> HIDE DEF bad
    <3> QED BY <1>5, <2>1
  <2> HIDE DEF Fails
  <2> QED BY <2>1, <2>2
<1> HIDE DEF bad
<1>8. PICK q : q = sv[s] /\ Chain(q, n) /\ Honest(s, q)
  BY <1>3 DEF Ranged
<1>9. PICK k \in 2 .. Len(q) : L[s][q[k].first] = L[s][q[k - 1].first]
  BY <1>6, <1>8
<1>10. Len(q) \in Nat /\ k \in 1 .. Len(q) /\ k - 1 \in 1 .. Len(q)
  BY <1>8, ChainTypes
<1>11. PICK x \in Nat, y \in Nat : /\ x = q[k - 1].first /\ y = q[k].first
                                   /\ q[k - 1].last = y - 1 /\ x < y
                                   /\ x \in 1 .. n /\ y \in 1 .. n
  <2>1. q[k - 1].first \in 1 .. n /\ q[k - 1].last \in 1 .. n /\ q[k].first \in 1 .. n
    BY <1>8, <1>10, ChainWithin
  <2>2. q[k].first = q[k - 1].last + 1 /\ q[k - 1].first <= q[k - 1].last
    BY <1>8, <1>9, <1>10 DEF Chain
  <2>3. PICK x, z, y \in 1 .. n : x = q[k - 1].first /\ z = q[k - 1].last /\ y = q[k].first
    BY <2>1
  <2>4. y = z + 1 /\ x <= z
    BY <2>2, <2>3
  <2>5. x \in Nat /\ y \in Nat /\ z = y - 1 /\ x < y
    BY <2>4
  <2> QED BY <2>3, <2>5
<1>12. source[s][x] = source[s][y] /\ \A e \in Embeds[s] : L[e][x] = L[e][y]
  BY <1>3, <1>9, <1>11, LayoutParts
<1>13. q[k - 1].text = source[s][x] /\ q[k].text = source[s][y]
  BY <1>8, <1>10, <1>11 DEF Honest
<1>14. PICK e \in Embeds[s] : LookupVersion(e, x).first # LookupVersion(e, y).first
  <2>1. ~SameAst(s, q[k - 1], q[k])
    BY <1>3, <1>8, <1>9 DEF Settled
  <2> QED BY <1>11, <1>12, <1>13, <2>1 DEF SameAst
<1>15. PICK p : p = sv[e] /\ Chain(p, n) /\ Honest(e, p)
  BY <1>3, <1>7 DEF Ranged
<1>16. Len(p) \in Nat /\ \A j \in 1 .. Len(p) : p[j].first \in Nat /\ p[j].last \in Nat
  BY <1>15, ChainTypes
<1>17. PICK r \in 1 .. Len(p) : LookupVersion(e, x) = p[r] /\ x \in p[r].first .. p[r].last
  BY <1>3, <1>11, <1>15, LookupFinds
<1>18. PICK t \in 1 .. Len(p) : LookupVersion(e, y) = p[t] /\ y \in p[t].first .. p[t].last
  BY <1>3, <1>11, <1>15, LookupFinds
<1>19. PICK a, b, c, z : a = p[r].first /\ b = p[r].last /\ c = p[t].first /\ z = p[t].last
  OBVIOUS
<1>20. /\ a \in Nat /\ b \in Nat /\ c \in Nat /\ z \in Nat
       /\ a <= x /\ x <= b /\ c <= y /\ y <= z /\ x < y /\ 1 <= x /\ y <= n
  <2>1. a \in Nat /\ b \in Nat /\ c \in Nat /\ z \in Nat
    BY <1>16, <1>19
  <2>2. x \in a .. b /\ y \in c .. z
    BY <1>17, <1>18, <1>19
  <2>3. a <= x /\ x <= b /\ c <= y /\ y <= z
    BY <2>1, <2>2
  <2>4. x < y /\ 1 <= x /\ y <= n
    BY <1>11
  <2> QED BY <2>1, <2>3, <2>4
<1>21. r < t
  <2>1. r # t
    BY <1>14, <1>17, <1>18
  <2>2. t < r => z < a
    BY <1>15, <1>19, ChainOrdered
  <2>3. ~(z < a)
    BY <1>20
  <2> QED BY <1>16, <2>1, <2>2, <2>3
<1>22. r + 1 \in 2 .. Len(p) /\ r + 1 \in 1 .. Len(p) /\ (r + 1) - 1 = r
  BY <1>16, <1>21
<1>23. p[r + 1].first = b + 1 /\ x < b + 1 /\ b + 1 <= y
  <2>1. p[r + 1].first = b + 1
    BY <1>15, <1>19, <1>22 DEF Chain
  <2>2. b < c
    BY <1>15, <1>19, <1>21, ChainOrdered
  <2> QED BY <1>20, <2>1, <2>2
<1>24. L[e][b + 1] # L[e][a] /\ L[e][x] = L[e][a]
  <2>1. L[e][b + 1] # L[e][a]
    BY <1>7, <1>15, <1>19, <1>22, <1>23
  <2>2. L[e][x] = L[e][a]
    BY <1>3, <1>15, <1>17, <1>19 DEF Honest, Alike
  <2> QED BY <2>1, <2>2
<1>25. CASE b + 1 = y
  BY <1>12, <1>24, <1>25
<1>26. CASE b + 1 # y
  <2>1. b + 1 \in x .. y - 1 /\ b + 1 \in 1 .. n
    BY <1>20, <1>23, <1>26
  <2>2. L[s][b + 1] = L[s][x]
    <3>1. PICK v : v = q[k - 1] /\ Alike(s, v)
      BY <1>8, <1>10 DEF Honest
    <3>2. v.first = x /\ v.last = y - 1
      BY <1>11, <3>1
    <3> QED BY <1>3, <2>1, <3>1, <3>2 DEF Alike
  <2>3. L[e][b + 1] = L[e][x]
    BY <1>3, <1>11, <2>1, <2>2, LayoutParts
  <2> QED BY <1>24, <2>3
<1> QED BY <1>25, <1>26

(* Simplifying goes on until no two neighbouring ids have the same layout. *)
THEOREM NoVersionIsNeedless == Spec => []NoNeedlessVersion
<1>1. ASSUME GenInv, step = "done" PROVE NoNeedlessVersion
  <2>1. Len(versions) \in Nat /\ Ranged(Len(versions)) /\ \A s \in Structs : Settled(s)
    BY <1>1 DEF GenInv, VersionsFit
  <2> QED BY <2>1, NeighboursDiffer DEF NoNeedlessVersion
<1>2. GenInv => NoNeedlessVersion
  BY <1>1 DEF NoNeedlessVersion
<1> QED BY <1>2, GenInvariant, PTL

-----------------------------------------------------------------------------
(* Accessors (setup_properties()).                                         *)

TypesIn(s, name, k) ==
    {m.type : m \in {n \in Members[structVersions[s][k].text] : n.name = name}}

(* A struct has one member of a name.                                      *)
LEMMA OneType ==
    ASSUME NEW s, NEW k, structVersions[s][k].text \in Texts, NEW name
    PROVE  /\ \A t, u \in TypesIn(s, name, k) : t = u
           /\ \A t : t \in TypesIn(s, name, k)
                <=> [name |-> name, type |-> t] \in Members[structVersions[s][k].text]
<1>1. PICK M : M = Members[structVersions[s][k].text]
  OBVIOUS
<1>2. \A m, n \in M : m = [name |-> m.name, type |-> m.type] /\ (m.name = n.name => m = n)
  BY <1>1, StructsAreFinite
<1>3. TypesIn(s, name, k) = {m.type : m \in {n \in M : n.name = name}}
  BY <1>1 DEF TypesIn
<1>4. ASSUME NEW t \in TypesIn(s, name, k), NEW u \in TypesIn(s, name, k) PROVE t = u
  <2>1. PICK m \in M : m.name = name /\ m.type = t
    BY <1>3
  <2>2. PICK n \in M : n.name = name /\ n.type = u
    BY <1>3
  <2> QED BY <1>2, <2>1, <2>2
<1>5. ASSUME NEW t \in TypesIn(s, name, k) PROVE [name |-> name, type |-> t] \in M
  <2>1. PICK m \in M : m.name = name /\ m.type = t
    BY <1>3
  <2> QED BY <1>2, <2>1
<1>6. ASSUME NEW t, [name |-> name, type |-> t] \in M PROVE t \in TypesIn(s, name, k)
  <2>1. PICK m \in M : m.name = name /\ m.type = t
    BY <1>6
  <2> QED BY <1>3, <2>1
<1> QED BY <1>1, <1>4, <1>5, <1>6

(* The accessor of a member is made for its type in the latest version     *)
(* that has it, and is used from where it keeps that type on.              *)
LEMMA AccessorIs ==
    ASSUME NEW s, NEW n, Chain(structVersions[s], n), NEW name,
           NEW some \in DOMAIN structVersions[s], TypesIn(s, name, some) # {}
    PROVE  \E latest \in DOMAIN structVersions[s] :
            /\ TypesIn(s, name, latest) = {Accessor(s, name).type}
            /\ \A k \in DOMAIN structVersions[s] : TypesIn(s, name, k) # {} => k <= latest
            /\ \A k : k \in Accessor(s, name).ids
                <=> /\ k \in DOMAIN structVersions[s]
                    /\ \A j \in DOMAIN structVersions[s] :
                        k <= j /\ TypesIn(s, name, j) # {} => TypesIn(s, name, j) = {Accessor(s, name).type}
                    /\ TypesIn(s, name, k) # {}
<1>1. PICK q : q = structVersions[s]
  OBVIOUS
<1>2. PICK len \in Nat : len = Len(q) /\ DOMAIN q = 1 .. len /\ \A k \in 1 .. len : q[k] \in VersionRecords
  BY <1>1, ChainTypes
<1> DEFINE types(k) == TypesIn(s, name, k)
           ids == {k \in DOMAIN q : types(k) # {}}
           latest == CHOOSE k \in ids : \A j \in ids : j <= k
           type == CHOOSE t \in types(latest) : TRUE
<1>3. Accessor(s, name) = [type |-> type, ids |-> {k \in ids : \A j \in ids : k <= j => types(j) = {type}}]
  BY <1>1 DEF Accessor, TypesIn
<1> HIDE DEF types
<1>4. ids \subseteq 1 .. len /\ some \in ids
  BY <1>1, <1>2 DEF types
<1> DEFINE below == {len - k : k \in ids}
<1>5. below \in SUBSET Nat /\ below # {}
  BY <1>2, <1>4
<1>6. PICK b \in below : \A c \in below : b <= c
  <2> HIDE DEF below
  <2> QED BY <1>5, Smallest
<1>7. PICK top \in ids : b = len - top
  OBVIOUS
<1>8. ASSUME NEW j \in ids PROVE j <= top
  <2>1. len - j \in below
    OBVIOUS
  <2>2. b <= len - j
    <3> HIDE DEF below
    <3> QED BY <1>6, <2>1
  <2>3. j \in 1 .. len /\ top \in 1 .. len
    BY <1>4
  <2> QED BY <1>7, <2>2, <2>3
<1> HIDE DEF below, ids
<1>9. latest \in ids /\ \A j \in ids : j <= latest
  BY <1>8
<1> HIDE DEF latest
<1>10. types(latest) # {} /\ latest \in 1 .. len
  BY <1>2, <1>9 DEF ids
<1>11. types(latest) = {type}
  <2>1. type \in types(latest)
    BY <1>10
  <2>2. q[latest].text \in Texts
    BY <1>2, <1>10 DEF VersionRecords
  <2>3. \A t, u \in types(latest) : t = u
    BY <1>1, <2>2, OneType DEF types
  <2> HIDE DEF type
  <2> QED BY <2>1, <2>3
<1> HIDE DEF type
<1>12. Accessor(s, name).type = type
  BY <1>3
<1>13. \A k : k \in Accessor(s, name).ids <=> k \in ids /\ \A j \in ids : k <= j => types(j) = {type}
  BY <1>3
<1>14. latest \in DOMAIN q
  BY <1>2, <1>10
<1>15. \A k \in DOMAIN q : types(k) # {} => k <= latest
  BY <1>9 DEF ids
<1>16. \A k : k \in Accessor(s, name).ids
                <=> /\ k \in DOMAIN q
                    /\ \A j \in DOMAIN q : k <= j /\ types(j) # {} => types(j) = {type}
                    /\ types(k) # {}
  BY <1>13 DEF ids
<1> QED BY <1>1, <1>11, <1>12, <1>14, <1>15, <1>16 DEF types

(* A generated accessor never touches a member that the running GTK does   *)
(* not have or has with another type, and the newest GTK has an accessor   *)
(* for each of its members.                                                *)
THEOREM AccessorsOnlyTouchMembers == Spec => []AccessorsAreSound
<1>1. ASSUME GenInv, step = "done", NEW s \in Structs, NEW i \in DOMAIN versions, NEW m,
             NEW some \in DOMAIN structVersions[s],
             \E o \in Members[structVersions[s][some].text] : o.name = m.name
      PROVE  /\ VersionId(s, versions[i]) \in Accessor(s, m.name).ids =>
                    [name |-> m.name, type |-> Accessor(s, m.name).type] \in Members[source[s][i]]
             /\ i = Len(versions) /\ m \in Members[source[s][i]] =>
                    /\ Accessor(s, m.name).type = m.type
                    /\ VersionId(s, versions[i]) \in Accessor(s, m.name).ids
  <2>1. PICK n \in Nat : n = Len(versions) /\ DOMAIN versions = 1 .. n /\ VersionsFit(n) /\ Ranged(n)
    BY <1>1 DEF GenInv, VersionsFit
  <2>2. PICK q : q = structVersions[s] /\ Chain(q, n) /\ Honest(s, q)
    BY <2>1 DEF Ranged
  <2>3. PICK len \in Nat : len = Len(q) /\ DOMAIN q = 1 .. len /\ \A k \in 1 .. len : q[k].text \in Texts
    BY <2>2, ChainTypes DEF VersionRecords
  <2>4. PICK id \in 1 .. len : id = VersionId(s, versions[i]) /\ i \in q[id].first .. q[id].last
    BY <2>1, <2>2, <2>3, VersionIdFinds
  <2>5. q[id].text = source[s][i]
    <3>1. q[id].text = source[s][q[id].first] /\ Layout[s][i] = Layout[s][q[id].first]
      BY <2>2, <2>3, <2>4 DEF Honest, Alike
    <3>2. q[id].first \in 1 .. n /\ i \in 1 .. n
      BY <2>1, <2>2, <2>3, <2>4, ChainWithin
    <3>3. source[s][i] = source[s][q[id].first]
      BY <2>1, <3>1, <3>2, LayoutParts
    <3> QED BY <3>1, <3>3
  <2>6. TypesIn(s, m.name, some) # {}
    BY <1>1 DEF TypesIn
  <2>7. PICK type, ids : type = Accessor(s, m.name).type /\ ids = Accessor(s, m.name).ids
    OBVIOUS
  <2>8. PICK latest \in 1 .. len :
          /\ TypesIn(s, m.name, latest) = {type}
          /\ \A k \in 1 .. len : TypesIn(s, m.name, k) # {} => k <= latest
          /\ \A k : k \in ids
                <=> /\ k \in 1 .. len
                    /\ \A j \in 1 .. len :
                        k <= j /\ TypesIn(s, m.name, j) # {} => TypesIn(s, m.name, j) = {type}
                    /\ TypesIn(s, m.name, k) # {}
    BY <2>2, <2>3, <2>6, <2>7, AccessorIs
  <2>9. \A t : t \in TypesIn(s, m.name, id) <=> [name |-> m.name, type |-> t] \in Members[source[s][i]]
    BY <2>2, <2>3, <2>5, OneType
  <2>10. ASSUME id \in ids PROVE [name |-> m.name, type |-> type] \in Members[source[s][i]]
    <3>1. id <= id
      BY <2>3
    <3>2. TypesIn(s, m.name, id) = {type}
      BY <2>8, <2>10, <3>1
    <3> QED BY <2>9, <3>2
  <2>11. ASSUME i = n, m \in Members[source[s][i]] PROVE type = m.type /\ id \in ids
    <3>1. m = [name |-> m.name, type |-> m.type]
      <4>1. source[s][i] \in Texts
        BY <2>3, <2>5
      <4> QED BY <2>11, <4>1, StructsAreFinite
    <3>2. m.type \in TypesIn(s, m.name, id)
      BY <2>9, <2>11, <3>1
    <3>3. id = len
      <4>1. len \in 1 .. len
        BY <2>4
      <4>2. q[len].last = n /\ q[len].first <= q[len].last
        BY <2>2, <2>3, <4>1 DEF Chain
      <4>3. q[len].first \in Nat /\ q[len].last \in Nat
        BY <2>2, <2>3, <4>1, ChainTypes
      <4>4. n \in q[len].first .. q[len].last
        BY <4>2, <4>3
      <4> QED BY <2>2, <2>3, <2>4, <2>11, <4>1, <4>4, ChainOnce
    <3>4. latest = id
      <4>1. id <= latest
        BY <2>8, <3>2
      <4> QED BY <2>3, <3>3, <4>1
    <3>5. type = m.type
      BY <2>8, <3>2, <3>4
    <3>6. ASSUME NEW j \in 1 .. len, id <= j PROVE j = latest
      BY <2>3, <3>3, <3>4, <3>6
    <3>7. id \in ids
      BY <2>8, <3>2, <3>6
    <3> QED BY <3>5, <3>7
  <2> QED BY <2>1, <2>4, <2>7, <2>10, <2>11
<1>2. GenInv => AccessorsAreSound
  BY <1>1 DEF AccessorsAreSound
<1> QED BY <1>2, GenInvariant, PTL

=============================================================================

------------------------- MODULE LockSurfaceProofs -------------------------
(***************************************************************************)
(* Theorems about LockSurface for every set of windows, monitors, structs  *)
(* and surfaces: what any order of calls keeps, and what a documented      *)
(* application gets for a window's first showing.                          *)
(***************************************************************************)
EXTENDS LockSurface, FiniteSetTheorems, TLAPS

LockPointers == lockObj \in [Locks -> Objs \cup {NULL}]

(* The struct attached to a window is alive and the window's own.          *)
Attached ==
    \A w \in Windows : data[w] # NULL => st[data[w]].state = "live" /\ st[data[w]].win = w

Placed == \A s \in Structs : st[s].state = "live" => st[s].win \in Windows

(* A lock surface and its struct point at each other, both alive.          *)
Backed ==
    \A i \in Ids : slot[i].state = "live" =>
        /\ slot[i].data \in Structs
        /\ st[slot[i].data].state = "live" /\ st[slot[i].data].obj = i

Owned ==
    \A s \in Structs : st[s].obj # NULL =>
        slot[st[s].obj].state = "live" /\ slot[st[s].obj].data = s

(* A realized window with a struct is marked, whichever came first.        *)
MarkedInTime ==
    \A w \in Windows : data[w] # NULL /\ win[w] \in {"realized", "mapped"} => marked[w]

OnScreen == \A w \in Windows : win[w] = "mapped" => cur[w] \in Ids /\ slot[cur[w]].state # "none"

SurfaceInv ==
    /\ LockPointers /\ SurfaceTypeOK
    /\ Attached /\ Placed /\ Backed /\ Owned
    /\ MarkedInTime /\ OnScreen /\ SurfaceIsBlank

-----------------------------------------------------------------------------
(* Records, field by field.                                                *)

LEMMA SerialTypes == 0 \in Serial /\ 1 \in Serial /\ Serial \subseteq Nat
  BY SurfaceConstants DEF Serial

LEMMA Fields ==
    ASSUME SurfaceTypeOK
    PROVE  /\ \A s \in Structs :
                /\ st[s] \in StructRecords
                /\ st[s].state \in {"none", "live", "freed"} /\ st[s].win \in Windows \cup {NULL}
                /\ st[s].obj \in Ids \cup {NULL} /\ st[s].size \in Serial /\ st[s].first \in BOOLEAN
           /\ \A i \in Ids :
                /\ slot[i] \in SlotRecords
                /\ slot[i].state \in {"none", "plain", "live", "destroyed"}
                /\ slot[i].data \in Structs \cup {NULL}
                /\ slot[i].xdg \in BOOLEAN /\ slot[i].buf \in BOOLEAN
           /\ NULL \notin Structs /\ NULL \notin Ids
  BY SurfaceConstants DEF SurfaceTypeOK, StructRecords, SlotRecords

LEMMA NoStructType == NoStruct \in StructRecords
  BY SurfaceConstants, SMTT(30) DEF NoStruct, Serial, StructRecords

LEMMA StructUpdates ==
    ASSUME NEW r \in StructRecords
    PROVE  /\ \A x \in {"none", "live", "freed"} : [r EXCEPT !.state = x] \in StructRecords
           /\ \A x \in Windows \cup {NULL} : [r EXCEPT !.win = x] \in StructRecords
           /\ \A x \in Outputs \cup {NULL} : [r EXCEPT !.mon = x] \in StructRecords
           /\ \A x \in Objs \cup {NULL} : [r EXCEPT !.lock = x] \in StructRecords
           /\ \A x \in Ids \cup {NULL} : [r EXCEPT !.obj = x] \in StructRecords
           /\ \A x \in BOOLEAN : [r EXCEPT !.first = x] \in StructRecords
           /\ \A x \in Serial : [r EXCEPT !.size = x] \in StructRecords
  BY DEF StructRecords

LEMMA ObjRecord ==
    ASSUME NEW q \in StructRecords, NEW x \in Ids \cup {NULL}
    PROVE  \E r \in StructRecords :
            /\ r = [q EXCEPT !.obj = x]
            /\ r.obj = x /\ r.state = q.state /\ r.win = q.win /\ r.first = q.first
            /\ r.mon = q.mon /\ r.lock = q.lock /\ r.size = q.size
<1> DEFINE r == [q EXCEPT !.obj = x]
<1>1. r \in StructRecords
  BY StructUpdates
<1>2. r.obj = x /\ r.state = q.state /\ r.win = q.win /\ r.first = q.first
            /\ r.mon = q.mon /\ r.lock = q.lock /\ r.size = q.size
  BY DEF StructRecords
<1> QED BY <1>1, <1>2, Zenon

LEMMA FreedRecord ==
    ASSUME NEW q \in StructRecords
    PROVE  \E r \in StructRecords :
            /\ r = [q EXCEPT !.state = "freed", !.obj = NULL]
            /\ r.obj = NULL /\ r.state = "freed" /\ r.win = q.win
            /\ r.mon = q.mon /\ r.lock = q.lock
<1> DEFINE f == [q EXCEPT !.state = "freed"]
           r == [f EXCEPT !.obj = NULL]
<1>1. f \in StructRecords /\ f.state = "freed" /\ f.win = q.win /\ f.mon = q.mon /\ f.lock = q.lock
  BY StructUpdates DEF StructRecords
<1>2. r = [q EXCEPT !.state = "freed", !.obj = NULL]
  OBVIOUS
<1> HIDE DEF f
<1>3. r \in StructRecords
  BY <1>1, StructUpdates
<1>4. r.obj = NULL /\ r.state = "freed" /\ r.win = q.win /\ r.mon = q.mon /\ r.lock = q.lock
  BY <1>1 DEF StructRecords
<1> QED BY <1>2, <1>3, <1>4, Zenon

(* What custom_shell_surface_init() is given.                              *)
LEMMA NewStructFields ==
    ASSUME NEW w \in Windows, NEW m \in Outputs, NEW o \in Objs
    PROVE  LET new == NewStruct(w, m, o)
           IN  /\ new \in StructRecords
               /\ new.state = "live" /\ new.win = w /\ new.obj = NULL /\ ~new.first
               /\ new.mon = m /\ new.lock = o
<1> DEFINE new == NewStruct(w, m, o)
<1>1. new \in StructRecords
  <2> DEFINE r1 == [NoStruct EXCEPT !.state = "live"]
             r2 == [r1 EXCEPT !.win = w]
             r3 == [r2 EXCEPT !.mon = m]
             r4 == [r3 EXCEPT !.lock = o]
  <2>5. new = r4
    BY DEF NewStruct
  <2>1. r1 \in StructRecords
    BY NoStructType, StructUpdates
  <2> HIDE DEF r1
  <2>2. r2 \in StructRecords
    BY <2>1, StructUpdates
  <2> HIDE DEF r2
  <2>3. r3 \in StructRecords
    BY <2>2, StructUpdates
  <2> HIDE DEF r3
  <2>4. r4 \in StructRecords
    BY <2>3, StructUpdates
  <2> QED BY <2>4, <2>5
<1>2. new.state = "live" /\ new.win = w /\ new.obj = NULL /\ ~new.first /\ new.mon = m /\ new.lock = o
  BY DEF NoStruct, NewStruct
<1> QED BY <1>1, <1>2

LEMMA SlotUpdates ==
    ASSUME NEW r \in SlotRecords
    PROVE  /\ [r EXCEPT !.state = "destroyed"] \in SlotRecords
           /\ [r EXCEPT !.state = "destroyed"].state = "destroyed"
           /\ [r EXCEPT !.state = "destroyed"].win = r.win
           /\ [r EXCEPT !.state = "destroyed"].data = r.data
           /\ [r EXCEPT !.state = "destroyed"].xdg = r.xdg
           /\ [r EXCEPT !.state = "destroyed"].buf = r.buf
  BY DEF SlotRecords

(* lock_surface_unmap() destroys the lock surface of a struct, if any.     *)
LEMMA Unmapping ==
    ASSUME SurfaceTypeOK, NEW s \in Structs
    PROVE  /\ Unmapped(s) \in [Ids -> SlotRecords]
           /\ \A i \in Ids :
                /\ Unmapped(s)[i].state = IF st[s].obj = i THEN "destroyed" ELSE slot[i].state
                /\ Unmapped(s)[i].win = slot[i].win /\ Unmapped(s)[i].data = slot[i].data
                /\ Unmapped(s)[i].xdg = slot[i].xdg /\ Unmapped(s)[i].buf = slot[i].buf
<1>1. slot \in [Ids -> SlotRecords] /\ st[s].obj \in Ids \cup {NULL} /\ NULL \notin Ids
  BY Fields DEF SurfaceTypeOK
<1>2. CASE st[s].obj = NULL
  BY <1>1, <1>2 DEF Unmapped
<1>3. CASE st[s].obj # NULL
  <2>1. PICK i \in Ids : i = st[s].obj
    BY <1>1, <1>3
  <2>2. PICK r \in SlotRecords : r = [slot[i] EXCEPT !.state = "destroyed"]
    BY <1>1, SlotUpdates
  <2>3. /\ r.state = "destroyed" /\ r.win = slot[i].win /\ r.data = slot[i].data
        /\ r.xdg = slot[i].xdg /\ r.buf = slot[i].buf
    BY <1>1, <2>2, SlotUpdates
  <2>4. Unmapped(s) = [slot EXCEPT ![i] = r]
    BY <1>3, <2>1, <2>2 DEF Unmapped
  <2> QED BY <1>1, <2>1, <2>3, <2>4
<1> QED BY <1>2, <1>3

(* A struct gets a lock surface or loses it, or is freed.                  *)
LEMMA Repointed ==
    ASSUME SurfaceTypeOK, NEW s \in Structs, NEW x \in Ids \cup {NULL},
           st' = [st EXCEPT ![s].obj = x]
    PROVE  /\ st' \in [Structs -> StructRecords]
           /\ \A t \in Structs :
                /\ st'[t].win = st[t].win /\ st'[t].mon = st[t].mon /\ st'[t].lock = st[t].lock
                /\ st'[t].state = st[t].state /\ st'[t].size = st[t].size
                /\ st'[t].first <=> st[t].first
                /\ st'[t].obj = IF t = s THEN x ELSE st[t].obj
<1>1. st \in [Structs -> StructRecords] /\ st[s] \in StructRecords
  BY DEF SurfaceTypeOK
<1>2. PICK q \in StructRecords : q = st[s]
  BY <1>1
<1>3. PICK r \in StructRecords :
        /\ r = [q EXCEPT !.obj = x]
        /\ r.obj = x /\ r.state = q.state /\ r.win = q.win /\ r.first = q.first
        /\ r.mon = q.mon /\ r.lock = q.lock /\ r.size = q.size
  BY ObjRecord
<1>4. st' = [st EXCEPT ![s] = r]
  BY <1>1, <1>2, <1>3
<1>5. st' \in [Structs -> StructRecords] /\ st'[s] = r /\ \A t \in Structs \ {s} : st'[t] = st[t]
  BY <1>1, <1>4, Zenon
<1>6. ASSUME NEW t \in Structs
      PROVE  /\ st'[t].win = st[t].win /\ st'[t].mon = st[t].mon /\ st'[t].lock = st[t].lock
             /\ st'[t].state = st[t].state /\ st'[t].size = st[t].size
             /\ st'[t].first <=> st[t].first
             /\ st'[t].obj = IF t = s THEN x ELSE st[t].obj
  <2>1. CASE t = s
    <3>1. st'[t] = r /\ st[t] = q
      BY <1>2, <1>5, <2>1
    <3> QED BY <1>3, <2>1, <3>1
  <2>2. CASE t # s
    BY <1>5, <2>2
  <2> QED BY <2>1, <2>2
<1> QED BY <1>5, <1>6

LEMMA Pointed ==
    ASSUME SurfaceTypeOK, NEW s \in Structs, NEW i \in Ids, st' = [st EXCEPT ![s].obj = i]
    PROVE  /\ st' \in [Structs -> StructRecords]
           /\ \A t \in Structs :
                /\ st'[t].win = st[t].win /\ st'[t].mon = st[t].mon /\ st'[t].lock = st[t].lock
                /\ st'[t].state = st[t].state /\ st'[t].size = st[t].size
                /\ st'[t].first <=> st[t].first
                /\ st'[t].obj = IF t = s THEN i ELSE st[t].obj
<1>1. i \in Ids \cup {NULL}
  OBVIOUS
<1> QED BY <1>1, Repointed, Zenon

LEMMA Unpointed ==
    ASSUME SurfaceTypeOK, NEW s \in Structs, st' = [st EXCEPT ![s].obj = NULL]
    PROVE  /\ st' \in [Structs -> StructRecords]
           /\ \A t \in Structs :
                /\ st'[t].win = st[t].win /\ st'[t].mon = st[t].mon /\ st'[t].lock = st[t].lock
                /\ st'[t].state = st[t].state /\ st'[t].size = st[t].size
                /\ st'[t].first <=> st[t].first
                /\ st'[t].obj = IF t = s THEN NULL ELSE st[t].obj
<1>1. NULL \in Ids \cup {NULL}
  OBVIOUS
<1> QED BY <1>1, Repointed, Zenon

LEMMA Freed ==
    ASSUME SurfaceTypeOK, NEW s \in Structs,
           NEW new, new = [st EXCEPT ![s].state = "freed", ![s].obj = NULL]
    PROVE  /\ new \in [Structs -> StructRecords]
           /\ \A t \in Structs :
                /\ new[t].win = st[t].win /\ new[t].mon = st[t].mon /\ new[t].lock = st[t].lock
                /\ new[t].state = IF t = s THEN "freed" ELSE st[t].state
                /\ new[t].obj = IF t = s THEN NULL ELSE st[t].obj
                /\ t # s => new[t] = st[t]
<1>1. st \in [Structs -> StructRecords] /\ st[s] \in StructRecords
  BY DEF SurfaceTypeOK
<1>3. PICK r \in StructRecords :
        /\ r = [st[s] EXCEPT !.state = "freed", !.obj = NULL]
        /\ r.obj = NULL /\ r.state = "freed" /\ r.win = st[s].win
        /\ r.mon = st[s].mon /\ r.lock = st[s].lock
  BY <1>1, FreedRecord
<1>4. new = [st EXCEPT ![s] = r]
  BY <1>1, <1>3
<1> QED BY <1>1, <1>3, <1>4

-----------------------------------------------------------------------------
(* The initial states, and the steps of the locks, which touch nothing of  *)
(* the surfaces.                                                           *)

LEMMA SurfaceInitial == SurfaceInit => SurfaceInv
<1> SUFFICES ASSUME SurfaceInit PROVE SurfaceInv
  OBVIOUS
<1> USE SerialTypes
<1>1. LockPointers
  BY DEF SurfaceInit, Init, LockPointers
<1>2. NoSlot \in SlotRecords /\ NoRole \in RoleRecords
  BY DEF NoSlot, NoRole, SlotRecords, RoleRecords
<1>5. SurfaceTypeOK
  BY <1>2, NoStructType DEF SurfaceInit, SurfaceTypeOK
<1>3. Attached /\ Placed /\ MarkedInTime /\ OnScreen
  BY DEF SurfaceInit, Attached, Placed, MarkedInTime, OnScreen, NoStruct
<1>4. Backed /\ Owned /\ SurfaceIsBlank
  BY DEF SurfaceInit, Backed, Owned, SurfaceIsBlank, NoStruct, NoSlot
<1> QED BY <1>1, <1>3, <1>4, <1>5 DEF SurfaceInv

LEMMA LockSideKeeps ==
    ASSUME LockPointers, AnyApp \/ Dispatch \/ Compositor
    PROVE  LockPointers'
<1>1. ASSUME NEW l \in Locks, PrepareLock(l) \/ Lock(l) \/ Unref(l) PROVE LockPointers'
  BY <1>1 DEF LockPointers, PrepareLock, Lock, Unref
<1>2. ASSUME NEW l \in Locks, Destroy(l) \/ UnlockAndDestroy(l) PROVE LockPointers'
  BY <1>2 DEF LockPointers, Destroy, UnlockAndDestroy, SendDestructor
<1>3. CASE Sync \/ Exit \/ Crash \/ Dispatch
  BY <1>3 DEF LockPointers, Sync, Exit, Crash, Dispatch, HandleDone, HandleLocked, HandleFinished, appVars
<1>4. CASE Compositor
  BY <1>4 DEF LockPointers, Compositor, Serve, HandleSync, Grant, Deny, HandleDestroy, HandleUnlock,
              Revoke, Hangup, OtherLocks, OtherUnlocks, PostError, appVars
<1> QED BY <1>1, <1>2, <1>3, <1>4 DEF AnyApp

LEMMA SurfacesKept ==
    ASSUME SurfaceInv, LockPointers', UNCHANGED surfaceVars PROVE SurfaceInv'
<1>1. UNCHANGED <<win, data, freeze, cur, painted, marked, st, slot, role>>
  BY DEF surfaceVars, windowVars
<1>2. SurfaceTypeOK' /\ Attached' /\ Placed' /\ MarkedInTime' /\ OnScreen'
  BY <1>1 DEF SurfaceInv, SurfaceTypeOK, Attached, Placed, MarkedInTime, OnScreen
<1>3. Backed' /\ Owned' /\ SurfaceIsBlank'
  BY <1>1 DEF SurfaceInv, Backed, Owned, SurfaceIsBlank, Blank
<1> QED BY <1>2, <1>3 DEF SurfaceInv

-----------------------------------------------------------------------------
(* The steps of the application.                                           *)

LEMMA NewSurfaceStep ==
    ASSUME SurfaceInv, NEW l \in Locks, NEW w \in Windows, NEW m \in Outputs, NewSurface(l, w, m)
    PROVE  SurfaceInv'
<1> DEFINE old == data[w]
           replaced == win[w] # "mapped" /\ old # NULL
<1>1. /\ LockPointers' /\ UNCHANGED <<win, freeze, cur, painted, role, lockObj>>
      /\ win[w] # "destroyed" /\ lockObj[l] \in Objs
  BY DEF NewSurface, SurfaceInv, LockPointers, appVars
<1>2. PICK new \in StructRecords :
        /\ new = NewStruct(w, m, lockObj[l])
        /\ new.state = "live" /\ new.win = w /\ new.obj = NULL
  BY <1>1, NewStructFields
<1>3. PICK s \in Structs :
        /\ st[s].state = "none"
        /\ IF win[w] = "mapped"
           THEN st' = [st EXCEPT ![s] = new] /\ UNCHANGED <<data, marked, slot>>
           ELSE /\ data' = [data EXCEPT ![w] = s]
                /\ Mark(w)
                /\ IF old = NULL
                   THEN st' = [st EXCEPT ![s] = new] /\ UNCHANGED slot
                   ELSE /\ st' = [st EXCEPT ![s] = new, ![old].state = "freed", ![old].obj = NULL]
                        /\ slot' = Unmapped(old)
  BY <1>2, Zenon DEF NewSurface, Allocatable
<1>4. old # NULL => old \in Structs /\ old # s /\ st[old].state = "live" /\ st[old].win = w
  BY <1>3 DEF SurfaceInv, SurfaceTypeOK, Attached
<1>5. /\ slot' \in [Ids -> SlotRecords]
      /\ \A i \in Ids :
            /\ slot'[i].data = slot[i].data /\ (Blank(i)' <=> Blank(i))
            /\ slot'[i].state = IF replaced /\ st[old].obj = i THEN "destroyed" ELSE slot[i].state
  BY <1>3, <1>4, Unmapping DEF SurfaceInv, SurfaceTypeOK, Blank
<1>6. st \in [Structs -> StructRecords]
  BY DEF SurfaceInv, SurfaceTypeOK
<1>7. /\ st' \in [Structs -> StructRecords] /\ st'[s] = new
      /\ \A t \in Structs \ {s} :
            /\ st'[t].win = st[t].win
            /\ st'[t].state = IF replaced /\ old = t THEN "freed" ELSE st[t].state
            /\ st'[t].obj = IF replaced /\ old = t THEN NULL ELSE st[t].obj
  <2>1. CASE ~replaced
    BY <1>2, <1>3, <1>6, <2>1
  <2>2. CASE replaced
    <3>f. PICK f : f = [st EXCEPT ![old].state = "freed", ![old].obj = NULL]
      OBVIOUS
    <3>1. /\ f \in [Structs -> StructRecords]
          /\ \A t \in Structs :
                /\ f[t].win = st[t].win
                /\ f[t].state = IF t = old THEN "freed" ELSE st[t].state
                /\ f[t].obj = IF t = old THEN NULL ELSE st[t].obj
      BY <1>4, <2>2, <3>f, Freed DEF SurfaceInv
    <3>2. st' = [f EXCEPT ![s] = new]
      BY <1>3, <1>4, <1>6, <2>2, <3>f
    <3> QED BY <1>2, <2>2, <3>1, <3>2
  <2> QED BY <2>1, <2>2
<1> DEFINE attached == win[w] # "mapped"
<1>8. /\ data' \in [Windows -> Structs \cup {NULL}] /\ marked' \in [Windows -> BOOLEAN]
      /\ \A v \in Windows : data'[v] = IF attached /\ v = w THEN s ELSE data[v]
      /\ attached /\ win[w] = "realized" => marked'[w]
      /\ \A v \in Windows : marked[v] => marked'[v]
  <2>1. data \in [Windows -> Structs \cup {NULL}] /\ marked \in [Windows -> BOOLEAN]
    BY DEF SurfaceInv, SurfaceTypeOK
  <2>2. CASE attached
    <3>1. data' = [data EXCEPT ![w] = s] /\ Mark(w)
      BY <1>3, <2>2
    <3>2. marked' \in [Windows -> BOOLEAN] /\ \A v \in Windows : marked'[v] <=> marked[v] \/ (v = w /\ win[w] = "realized")
      BY <2>1, <3>1 DEF Mark
    <3> QED BY <2>1, <2>2, <3>1, <3>2
  <2>3. CASE ~attached
    BY <1>3, <2>1, <2>3
  <2> QED BY <2>2, <2>3
<1>9. SurfaceTypeOK'
  BY <1>1, <1>5, <1>7, <1>8 DEF SurfaceInv, SurfaceTypeOK
<1> HIDE DEF attached, replaced
<1>15. st[s].state = "none" /\ new.state = "live" /\ new.win = w /\ new.obj = NULL
  BY <1>2, <1>3
<1> USE <1>15, <1>4, <1>5, <1>7
<1>10. Attached' /\ Placed'
  <2>1. ASSUME NEW v \in Windows, data'[v] # NULL PROVE st'[data'[v]].state = "live" /\ st'[data'[v]].win = v
    <3>1. CASE attached /\ v = w
      BY <1>8, <3>1
    <3>2. CASE ~(attached /\ v = w)
      <4>1. data'[v] = data[v] /\ data[v] \in Structs
        BY <1>8, <2>1, <3>2 DEF SurfaceInv, SurfaceTypeOK
      <4>2. st[data[v]].state = "live" /\ st[data[v]].win = v
        BY <2>1, <4>1 DEF SurfaceInv, Attached
      <4> QED BY <3>2, <4>1, <4>2 DEF attached, replaced
    <3> QED BY <3>1, <3>2
  <2>2. ASSUME NEW t \in Structs, st'[t].state = "live" PROVE st'[t].win \in Windows
    BY <2>2 DEF SurfaceInv, Placed
  <2> QED BY <2>1, <2>2 DEF Attached, Placed
<1>11. Backed'
  <2> SUFFICES ASSUME NEW i \in Ids, slot'[i].state = "live"
               PROVE  /\ slot'[i].data \in Structs
                      /\ st'[slot'[i].data].state = "live" /\ st'[slot'[i].data].obj = i
    BY DEF Backed
  <2> QED BY DEF SurfaceInv, Backed
<1>12. Owned'
  <2> SUFFICES ASSUME NEW t \in Structs, st'[t].obj # NULL
               PROVE  slot'[st'[t].obj].state = "live" /\ slot'[st'[t].obj].data = t
    BY DEF Owned
  <2>0. t # s /\ st'[t].obj = st[t].obj /\ ~(replaced /\ old = t)
    OBVIOUS
  <2>1. st[t].obj \in Ids
    BY <2>0, Fields DEF SurfaceInv
  <2>2. slot[st[t].obj].state = "live" /\ slot[st[t].obj].data = t
    BY <2>0, <2>1 DEF SurfaceInv, Owned
  <2>3. replaced => st[old].obj # st[t].obj
    BY <2>0, <2>1, <2>2 DEF SurfaceInv, Owned, replaced
  <2> QED BY <2>0, <2>1, <2>2, <2>3
<1>13. MarkedInTime' /\ OnScreen'
  BY <1>1, <1>8 DEF SurfaceInv, SurfaceTypeOK, MarkedInTime, OnScreen, attached
<1>14. SurfaceIsBlank'
  <2>1. ASSUME NEW i \in Ids, slot'[i].state \in {"live", "destroyed"} PROVE Blank(i)'
    <3>1. CASE slot[i].state \in {"live", "destroyed"}
      BY <2>1, <3>1 DEF SurfaceInv, SurfaceIsBlank
    <3>2. CASE replaced /\ st[old].obj = i
      <4>1. st[old].obj # NULL
        BY <3>2, Fields DEF SurfaceInv
      <4> QED BY <3>2, <4>1 DEF SurfaceInv, Owned, SurfaceIsBlank, replaced
    <3> QED BY <2>1, <3>1, <3>2
  <2>2. ASSUME NEW v \in Windows, win'[v] = "mapped", data'[v] # NULL PROVE Blank(cur[v])'
    BY <1>1, <1>8, <2>2 DEF SurfaceInv, OnScreen, SurfaceIsBlank, Blank, attached
  <2> QED BY <2>1, <2>2 DEF SurfaceIsBlank
<1> QED BY <1>1, <1>9, <1>10, <1>11, <1>12, <1>13, <1>14 DEF SurfaceInv

(* A showing makes a surface that gets no role from GDK and keeps no buffer*)
(* of its if the window has a LockSurface.                                 *)
LEMMA SurfaceRecord ==
    ASSUME NEW w \in Windows, NEW x \in {"plain", "live"}, NEW s \in Structs \cup {NULL}, NEW b \in BOOLEAN
    PROVE  LET r == Surface(w, x, s, b)
           IN  /\ r \in SlotRecords
               /\ r.state = x /\ r.win = w /\ r.data = s
               /\ r.xdg = ~MarkedOnceRealized(w) /\ r.buf = b
  BY DEF Surface, SlotRecords, MarkedOnceRealized

LEMMA RealizeStep ==
    ASSUME SurfaceInv, NEW w \in Windows, Realize(w) PROVE SurfaceInv'
<1>1. /\ UNCHANGED <<data, freeze, cur, painted, st, slot, role, lockObj>>
      /\ win' = [win EXCEPT ![w] = "realized"]
      /\ marked' = [marked EXCEPT ![w] = MarkedOnceRealized(w)] /\ win[w] = "new"
  BY DEF Realize, vars, appVars
<1>2. LockPointers' /\ SurfaceTypeOK'
  BY <1>1 DEF SurfaceInv, LockPointers, SurfaceTypeOK, MarkedOnceRealized
<1>3. MarkedInTime' /\ OnScreen' /\ SurfaceIsBlank'
  BY <1>1 DEF SurfaceInv, SurfaceTypeOK, MarkedInTime, OnScreen, SurfaceIsBlank, Blank, MarkedOnceRealized
<1>4. Attached' /\ Placed' /\ Backed' /\ Owned'
  BY <1>1 DEF SurfaceInv, Attached, Placed, Backed, Owned
<1> QED BY <1>2, <1>3, <1>4 DEF SurfaceInv

LEMMA ShowStep ==
    ASSUME SurfaceInv, NEW w \in Windows, Show(w) PROVE SurfaceInv'
<1> DEFINE mapping == data[w] # NULL /\ st[data[w]].obj = NULL
<1>1. /\ UNCHANGED <<lockObj, data, role>> /\ win[w] \in {"new", "realized"}
      /\ win' = [win EXCEPT ![w] = "mapped"] /\ painted' = [painted EXCEPT ![w] = 0]
      /\ marked' = [marked EXCEPT ![w] = MarkedOnceRealized(w)]
  BY DEF Show, appVars
<1>2. PICK i \in Ids, b \in BOOLEAN :
        /\ slot[i].state = "none" /\ cur' = [cur EXCEPT ![w] = i]
        /\ IF mapping
           THEN /\ freeze' = [freeze EXCEPT ![w] = @ + 1]
                /\ slot' = [slot EXCEPT ![i] = Surface(w, "live", data[w], b)]
                /\ st' = [st EXCEPT ![data[w]].obj = i]
           ELSE slot' = [slot EXCEPT ![i] = Surface(w, "plain", NULL, b)] /\ UNCHANGED <<freeze, st>>
        /\ data[w] # NULL => ~b
  BY DEF Show, Map, Fresh, Detached
<1>3. mapping => data[w] \in Structs /\ st[data[w]].state = "live"
  BY DEF SurfaceInv, SurfaceTypeOK, Attached
<1>4. data[w] # NULL => MarkedOnceRealized(w)
  BY <1>1 DEF SurfaceInv, MarkedInTime, MarkedOnceRealized
<1>5. /\ slot' \in [Ids -> SlotRecords] /\ \A j \in Ids \ {i} : slot'[j] = slot[j]
      /\ slot'[i].state = IF mapping THEN "live" ELSE "plain"
      /\ mapping => slot'[i].data = data[w]
      /\ data[w] # NULL => Blank(i)'
  <2>1. PICK r \in SlotRecords :
          /\ slot' = [slot EXCEPT ![i] = r]
          /\ r.state = IF mapping THEN "live" ELSE "plain"
          /\ mapping => r.data = data[w]
          /\ r.xdg = ~MarkedOnceRealized(w) /\ r.buf = b
    BY <1>2, <1>3, SurfaceRecord
  <2> QED BY <1>2, <1>4, <2>1 DEF SurfaceInv, SurfaceTypeOK, Blank
<1>6. /\ st' \in [Structs -> StructRecords]
      /\ \A t \in Structs :
            /\ st'[t].state = st[t].state /\ st'[t].win = st[t].win
            /\ st'[t].obj = IF mapping /\ t = data[w] THEN i ELSE st[t].obj
  <2>1. CASE mapping
    <3>1. PICK s \in Structs : s = data[w]
      BY <1>3, <2>1
    <3>2. st' = [st EXCEPT ![s].obj = i]
      BY <1>2, <2>1, <3>1
    <3>3. SurfaceTypeOK
      BY DEF SurfaceInv
    <3> HIDE DEF mapping
    <3>4. /\ st' \in [Structs -> StructRecords]
          /\ \A t \in Structs : /\ st'[t].state = st[t].state /\ st'[t].win = st[t].win
                                /\ st'[t].obj = IF t = s THEN i ELSE st[t].obj
      BY <3>2, <3>3, Pointed
    <3> QED BY <2>1, <3>1, <3>4
  <2>2. CASE ~mapping
    BY <1>2, <2>2 DEF SurfaceInv, SurfaceTypeOK
  <2> QED BY <2>1, <2>2
<1>7. /\ freeze' \in [Windows -> Nat] /\ cur' \in [Windows -> Ids \cup {NULL}]
      /\ cur'[w] = i /\ \A v \in Windows \ {w} : cur'[v] = cur[v]
  BY <1>2 DEF SurfaceInv, SurfaceTypeOK
<1>8. SurfaceTypeOK'
  BY <1>1, <1>5, <1>6, <1>7, SerialTypes DEF SurfaceInv, SurfaceTypeOK, MarkedOnceRealized
<1>9. LockPointers' /\ Attached' /\ Placed'
  BY <1>1, <1>6 DEF SurfaceInv, SurfaceTypeOK, LockPointers, Attached, Placed
<1>10. slot[i].state = "none" /\ NULL \notin Ids
  BY <1>2, SurfaceConstants
<1> HIDE DEF mapping
<1>11. Backed'
  <2> SUFFICES ASSUME NEW j \in Ids, slot'[j].state = "live"
               PROVE  /\ slot'[j].data \in Structs
                      /\ st'[slot'[j].data].state = "live" /\ st'[slot'[j].data].obj = j
    BY DEF Backed
  <2>1. CASE j = i
    BY <1>3, <1>5, <1>6, <2>1
  <2>2. CASE j # i
    <3>1. slot[j].data \in Structs /\ st[slot[j].data].state = "live" /\ st[slot[j].data].obj = j
      BY <1>5, <2>2 DEF SurfaceInv, Backed
    <3>2. ~(mapping /\ slot[j].data = data[w])
      BY <1>10, <3>1 DEF mapping
    <3> QED BY <1>5, <1>6, <2>2, <3>1, <3>2
  <2> QED BY <2>1, <2>2
<1>12. Owned'
  <2> SUFFICES ASSUME NEW t \in Structs, st'[t].obj # NULL
               PROVE  slot'[st'[t].obj].state = "live" /\ slot'[st'[t].obj].data = t
    BY DEF Owned
  <2>1. CASE mapping /\ t = data[w]
    BY <1>5, <1>6, <2>1
  <2>2. CASE ~(mapping /\ t = data[w])
    <3>1. st'[t].obj = st[t].obj
      BY <1>6, <2>2
    <3>2. st[t].obj \in Ids
      BY <3>1, Fields DEF SurfaceInv
    <3>3. slot[st[t].obj].state = "live" /\ slot[st[t].obj].data = t
      BY <3>1 DEF SurfaceInv, Owned
    <3> QED BY <1>5, <1>10, <3>1, <3>2, <3>3
  <2> QED BY <2>1, <2>2
<1>13. MarkedInTime'
  BY <1>1, <1>4 DEF SurfaceInv, SurfaceTypeOK, MarkedInTime
<1>14. OnScreen' /\ SurfaceIsBlank'
  <2>1. ASSUME NEW v \in Windows, win'[v] = "mapped"
        PROVE  /\ cur'[v] \in Ids /\ slot'[cur'[v]].state # "none"
               /\ data'[v] # NULL => Blank(cur[v])'
    <3>1. CASE v = w
      BY <1>1, <1>5, <1>7, <3>1
    <3>2. CASE v # w
      <4>1. /\ win[v] = "mapped" /\ cur'[v] = cur[v] /\ cur[v] \in Ids
            /\ slot[cur[v]].state # "none"
            /\ data'[v] # NULL => Blank(cur[v])
        BY <1>1, <1>7, <2>1, <3>2 DEF SurfaceInv, SurfaceTypeOK, OnScreen, SurfaceIsBlank
      <4> QED BY <1>5, <1>10, <4>1 DEF Blank
    <3> QED BY <3>1, <3>2
  <2>2. ASSUME NEW j \in Ids, slot'[j].state \in {"live", "destroyed"} PROVE Blank(j)'
    BY <1>5, <2>2 DEF SurfaceInv, SurfaceIsBlank, Blank, mapping
  <2> QED BY <2>1, <2>2 DEF OnScreen, SurfaceIsBlank
<1> QED BY <1>8, <1>9, <1>11, <1>12, <1>13, <1>14 DEF SurfaceInv

LEMMA ShowCrashesStep ==
    ASSUME SurfaceInv, NEW w \in Windows, ShowCrashes(w) PROVE SurfaceInv'
<1>1. LockPointers' /\ UNCHANGED surfaceVars
  BY DEF ShowCrashes, SurfaceInv, LockPointers, appVars
<1> QED BY <1>1, SurfacesKept

(* Unmapping, or freeing, a struct leaves no pointer between the dead.     *)
LEMMA UnmappingKeeps ==
    ASSUME SurfaceTypeOK, Backed, Owned, NEW s \in Structs,
           \A t \in Structs : /\ t # s => st'[t].state = st[t].state
                              /\ st'[t].obj = IF t = s THEN NULL ELSE st[t].obj,
           \A i \in Ids :
                /\ slot'[i].data = slot[i].data
                /\ slot'[i].state = IF st[s].obj = i THEN "destroyed" ELSE slot[i].state
    PROVE  Backed' /\ Owned'
<1>1. ASSUME NEW i \in Ids, slot'[i].state = "live"
      PROVE  /\ slot'[i].data \in Structs
             /\ st'[slot'[i].data].state = "live" /\ st'[slot'[i].data].obj = i
  <2>1. slot[i].state = "live" /\ st[s].obj # i
    BY <1>1
  <2>2. slot[i].data \in Structs /\ st[slot[i].data].state = "live" /\ st[slot[i].data].obj = i
    BY <2>1 DEF Backed
  <2> QED BY <2>1, <2>2
<1>2. ASSUME NEW t \in Structs, st'[t].obj # NULL
      PROVE  slot'[st'[t].obj].state = "live" /\ slot'[st'[t].obj].data = t
  <2>1. t # s /\ st'[t].obj = st[t].obj /\ st[t].obj \in Ids
    BY <1>2, Fields
  <2>2. slot[st[t].obj].state = "live" /\ slot[st[t].obj].data = t
    BY <1>2, <2>1 DEF Owned
  <2>3. st[s].obj # st[t].obj
    BY <1>2, <2>1, <2>2 DEF Owned
  <2> QED BY <2>1, <2>2, <2>3
<1> QED BY <1>1, <1>2 DEF Backed, Owned

LEMMA ForeignRoles ==
    ASSUME OnScreen, Owned, SurfaceIsBlank, NEW s \in Structs,
           \A v \in Windows : win'[v] = "mapped" /\ data'[v] # NULL
                => win[v] = "mapped" /\ data[v] # NULL /\ cur'[v] = cur[v],
           \A i \in Ids :
                /\ Blank(i)' <=> Blank(i)
                /\ slot'[i].state = IF st[s].obj = i THEN "destroyed" ELSE slot[i].state
    PROVE  SurfaceIsBlank'
<1>1. ASSUME NEW i \in Ids, slot'[i].state \in {"live", "destroyed"} PROVE Blank(i)'
  <2>1. slot[i].state \in {"live", "destroyed"}
    BY <1>1, SurfaceConstants DEF Owned
  <2> QED BY <2>1 DEF SurfaceIsBlank
<1>2. ASSUME NEW v \in Windows, win'[v] = "mapped", data'[v] # NULL PROVE Blank(cur[v])'
  BY <1>2 DEF OnScreen, SurfaceIsBlank, Blank
<1> QED BY <1>1, <1>2 DEF SurfaceIsBlank

(* Unmapping the struct of a window leaves no lock surface behind.         *)
LEMMA UnmapStep ==
    ASSUME SurfaceInv, NEW w \in Windows, Unmap(w) PROVE SurfaceInv'
<1>1. PICK s \in Structs :
        /\ s = data[w] /\ slot' = Unmapped(s) /\ st' = [st EXCEPT ![s].obj = NULL]
        /\ UNCHANGED <<lockObj, win, data, freeze, cur, painted, marked, role>>
  BY DEF Unmap, SurfaceInv, SurfaceTypeOK, windowVars, appVars
<1>2. /\ st' \in [Structs -> StructRecords]
      /\ \A t \in Structs : /\ st'[t].win = st[t].win /\ st'[t].state = st[t].state
                            /\ st'[t].obj = IF t = s THEN NULL ELSE st[t].obj
  BY <1>1, Unpointed DEF SurfaceInv
<1>3. /\ slot' \in [Ids -> SlotRecords]
      /\ \A i \in Ids : /\ slot'[i].data = slot[i].data /\ (Blank(i)' <=> Blank(i))
                        /\ slot'[i].state = IF st[s].obj = i THEN "destroyed" ELSE slot[i].state
  BY <1>1, Unmapping DEF SurfaceInv, Blank
<1>4. LockPointers' /\ SurfaceTypeOK' /\ Attached' /\ Placed' /\ MarkedInTime'
  BY <1>1, <1>2, <1>3 DEF SurfaceInv, SurfaceTypeOK, LockPointers, Attached, Placed, MarkedInTime
<1>5. Backed' /\ Owned'
  BY <1>2, <1>3, UnmappingKeeps DEF SurfaceInv
<1>6. OnScreen'
  BY <1>1, <1>3 DEF SurfaceInv, SurfaceTypeOK, OnScreen
<1>7. SurfaceIsBlank'
  BY <1>1, <1>3, ForeignRoles DEF SurfaceInv
<1> QED BY <1>4, <1>5, <1>6, <1>7 DEF SurfaceInv

LEMMA HideStep ==
    ASSUME SurfaceInv, NEW w \in Windows, Hide(w) PROVE SurfaceInv'
<1>1. /\ UNCHANGED <<lockObj, data, freeze, painted, marked, st, slot, role>>
      /\ win' = [win EXCEPT ![w] = "realized"] /\ cur' = [cur EXCEPT ![w] = NULL]
      /\ win[w] = "mapped"
  BY DEF Hide, vars, appVars
<1>2. LockPointers' /\ SurfaceTypeOK'
  BY <1>1 DEF SurfaceInv, LockPointers, SurfaceTypeOK
<1>3. MarkedInTime' /\ OnScreen' /\ SurfaceIsBlank'
  BY <1>1 DEF SurfaceInv, SurfaceTypeOK, MarkedInTime, OnScreen, SurfaceIsBlank, Blank
<1>4. Attached' /\ Placed' /\ Backed' /\ Owned'
  BY <1>1 DEF SurfaceInv, Attached, Placed, Backed, Owned
<1> QED BY <1>2, <1>3, <1>4 DEF SurfaceInv

LEMMA DestroyWindowStep ==
    ASSUME SurfaceInv, NEW w \in Windows, DestroyWindow(w) PROVE SurfaceInv'
<1>1. /\ UNCHANGED <<lockObj, freeze, painted, marked, role>>
      /\ win' = [win EXCEPT ![w] = "destroyed"] /\ cur' = [cur EXCEPT ![w] = NULL]
      /\ data' = [data EXCEPT ![w] = NULL]
      /\ IF data[w] = NULL THEN UNCHANGED <<slot, st>>
         ELSE /\ slot' = Unmapped(data[w])
              /\ st' = [st EXCEPT ![data[w]].state = "freed", ![data[w]].obj = NULL]
  BY DEF DestroyWindow, appVars
<1>2. LockPointers'
  BY <1>1 DEF SurfaceInv, LockPointers
<1>3. /\ \A v \in Windows : /\ win'[v] = IF v = w THEN "destroyed" ELSE win[v]
                            /\ v # w => cur'[v] = cur[v]
                            /\ data'[v] = IF v = w THEN NULL ELSE data[v]
      /\ win' \in [Windows -> {"new", "realized", "mapped", "destroyed"}]
      /\ cur' \in [Windows -> Ids \cup {NULL}] /\ data' \in [Windows -> Structs \cup {NULL}]
  BY <1>1 DEF SurfaceInv, SurfaceTypeOK
<1>4. CASE data[w] = NULL
  <2>1. SurfaceTypeOK' /\ Attached' /\ MarkedInTime' /\ OnScreen'
    BY <1>1, <1>3, <1>4 DEF SurfaceInv, SurfaceTypeOK, Attached, MarkedInTime, OnScreen
  <2>2. Placed' /\ Backed' /\ Owned' /\ SurfaceIsBlank'
    BY <1>1, <1>3, <1>4 DEF SurfaceInv, SurfaceTypeOK, Placed, Backed, Owned, SurfaceIsBlank, Blank
  <2> QED BY <1>2, <2>1, <2>2 DEF SurfaceInv
<1>5. CASE data[w] # NULL
  <2>1. PICK s \in Structs :
          /\ s = data[w] /\ slot' = Unmapped(s)
          /\ st' = [st EXCEPT ![s].state = "freed", ![s].obj = NULL]
    BY <1>1, <1>5 DEF SurfaceInv, SurfaceTypeOK
  <2>2. /\ st' \in [Structs -> StructRecords]
        /\ \A t \in Structs : /\ st'[t].win = st[t].win
                              /\ st'[t].state = IF t = s THEN "freed" ELSE st[t].state
                              /\ st'[t].obj = IF t = s THEN NULL ELSE st[t].obj
    <3>1. SurfaceTypeOK
      BY DEF SurfaceInv
    <3>2. st' = [st EXCEPT ![s].state = "freed", ![s].obj = NULL]
      BY <2>1
    <3> QED BY <3>1, <3>2, Freed
  <2>3. /\ slot' \in [Ids -> SlotRecords]
        /\ \A i \in Ids : /\ slot'[i].data = slot[i].data /\ (Blank(i)' <=> Blank(i))
                          /\ slot'[i].state = IF st[s].obj = i THEN "destroyed" ELSE slot[i].state
    BY <2>1, Unmapping DEF SurfaceInv, Blank
  <2>4. st[s].win = w
    BY <1>5, <2>1 DEF SurfaceInv, Attached
  <2>5. SurfaceTypeOK'
    BY <1>1, <1>3, <2>2, <2>3 DEF SurfaceInv, SurfaceTypeOK
  <2>6. Attached' /\ Placed' /\ MarkedInTime'
    BY <1>1, <1>3, <2>2, <2>4 DEF SurfaceInv, SurfaceTypeOK, Attached, Placed, MarkedInTime
  <2>7. Backed' /\ Owned'
    BY <2>2, <2>3, UnmappingKeeps DEF SurfaceInv
  <2>8. OnScreen' /\ SurfaceIsBlank'
    <3>1. OnScreen'
      BY <1>3, <2>3 DEF SurfaceInv, OnScreen
    <3>2. \A v \in Windows : win'[v] = "mapped" /\ data'[v] # NULL
            => win[v] = "mapped" /\ data[v] # NULL /\ cur'[v] = cur[v]
      BY <1>3
    <3> QED BY <2>3, <3>1, <3>2, ForeignRoles DEF SurfaceInv
  <2> QED BY <1>2, <2>5, <2>6, <2>7, <2>8 DEF SurfaceInv
<1> QED BY <1>4, <1>5

-----------------------------------------------------------------------------
(* The events of the compositor and the frames of the windows.             *)

LEMMA SizedRecord ==
    ASSUME NEW q \in StructRecords, NEW n \in Serial
    PROVE  \E r \in StructRecords :
            /\ r = [q EXCEPT !.size = n, !.first = TRUE] /\ r.first
            /\ r.obj = q.obj /\ r.state = q.state /\ r.win = q.win
            /\ r.mon = q.mon /\ r.lock = q.lock /\ r.size = n
<1> DEFINE f == [q EXCEPT !.size = n]
           r == [f EXCEPT !.first = TRUE]
<1>1. /\ f \in StructRecords /\ f.obj = q.obj /\ f.state = q.state /\ f.win = q.win
      /\ f.mon = q.mon /\ f.lock = q.lock /\ f.size = n
  BY StructUpdates DEF StructRecords
<1>2. r = [q EXCEPT !.size = n, !.first = TRUE]
  OBVIOUS
<1> HIDE DEF f
<1>3. r \in StructRecords
  BY <1>1, StructUpdates
<1>4. /\ r.first /\ r.obj = q.obj /\ r.state = q.state /\ r.win = q.win
      /\ r.mon = q.mon /\ r.lock = q.lock /\ r.size = n
  BY <1>1 DEF StructRecords
<1> QED BY <1>2, <1>3, <1>4, Zenon

(* A configure gives a struct its size.                                    *)
LEMMA Sized ==
    ASSUME SurfaceTypeOK, NEW s \in Structs, NEW n \in Serial,
           st' = [st EXCEPT ![s].size = n, ![s].first = TRUE]
    PROVE  /\ st' \in [Structs -> StructRecords]
           /\ \A t \in Structs :
                /\ st'[t].win = st[t].win /\ st'[t].mon = st[t].mon /\ st'[t].lock = st[t].lock
                /\ st'[t].state = st[t].state /\ st'[t].obj = st[t].obj
                /\ st'[t].size = IF t = s THEN n ELSE st[t].size
                /\ st'[t].first <=> (t = s \/ st[t].first)
<1>1. st \in [Structs -> StructRecords] /\ st[s] \in StructRecords
  BY DEF SurfaceTypeOK
<1>2. PICK q \in StructRecords : q = st[s]
  BY <1>1
<1>3. PICK r \in StructRecords :
        /\ r = [q EXCEPT !.size = n, !.first = TRUE] /\ r.first
        /\ r.obj = q.obj /\ r.state = q.state /\ r.win = q.win
        /\ r.mon = q.mon /\ r.lock = q.lock /\ r.size = n
  BY SizedRecord
<1>4. st' = [st EXCEPT ![s] = r]
  BY <1>1, <1>2, <1>3
<1>5. st' \in [Structs -> StructRecords] /\ st'[s] = r /\ \A t \in Structs \ {s} : st'[t] = st[t]
  BY <1>1, <1>4, Zenon
<1>6. ASSUME NEW t \in Structs
      PROVE  /\ st'[t].win = st[t].win /\ st'[t].mon = st[t].mon /\ st'[t].lock = st[t].lock
             /\ st'[t].state = st[t].state /\ st'[t].obj = st[t].obj
             /\ st'[t].size = IF t = s THEN n ELSE st[t].size
             /\ st'[t].first <=> (t = s \/ st[t].first)
  <2>1. CASE t = s
    <3>1. st'[t] = r /\ st[t] = q
      BY <1>2, <1>5, <2>1
    <3> QED BY <1>3, <2>1, <3>1
  <2>2. CASE t # s
    BY <1>5, <2>2
  <2> QED BY <2>1, <2>2
<1> QED BY <1>5, <1>6

LEMMA HandleConfigureStep ==
    ASSUME SurfaceInv, NEW i \in Ids, NEW n \in Serial, HandleConfigure(i, n) PROVE SurfaceInv'
<1>1. /\ UNCHANGED <<lockObj, win, data, cur, painted, marked, slot, role>>
      /\ \/ UNCHANGED <<st, freeze>>
         \/ /\ slot[i].state = "live"
            /\ st' = [st EXCEPT ![slot[i].data].size = n, ![slot[i].data].first = TRUE]
            /\ \/ freeze' = freeze
               \/ /\ freeze[st[slot[i].data].win] # 0
                  /\ freeze' = [freeze EXCEPT ![st[slot[i].data].win] = @ - 1]
  BY Zenon DEF HandleConfigure, appVars
<1>2. CASE UNCHANGED <<st, freeze>>
  <2>1. LockPointers' /\ UNCHANGED surfaceVars
    BY <1>1, <1>2 DEF SurfaceInv, LockPointers, surfaceVars, windowVars
  <2> QED BY <2>1, SurfacesKept
<1>3. CASE ~UNCHANGED <<st, freeze>>
  <2>1. slot[i].data \in Structs /\ st[slot[i].data].state = "live"
    BY <1>1, <1>3 DEF SurfaceInv, Backed
  <2>2. PICK s \in Structs :
          /\ s = slot[i].data /\ st[s].win \in Windows
          /\ st' = [st EXCEPT ![s].size = n, ![s].first = TRUE]
          /\ \/ freeze' = freeze
             \/ freeze[st[s].win] # 0 /\ freeze' = [freeze EXCEPT ![st[s].win] = @ - 1]
    BY <1>1, <1>3, <2>1 DEF SurfaceInv, Placed
  <2>6. /\ st' \in [Structs -> StructRecords]
        /\ \A t \in Structs : /\ st'[t].obj = st[t].obj /\ st'[t].state = st[t].state
                              /\ st'[t].win = st[t].win
    BY <2>2, Sized DEF SurfaceInv
  <2>7. freeze' \in [Windows -> Nat]
    BY <2>2 DEF SurfaceInv, SurfaceTypeOK
  <2>8. LockPointers' /\ SurfaceTypeOK' /\ MarkedInTime' /\ OnScreen' /\ SurfaceIsBlank'
    BY <1>1, <2>6, <2>7
    DEF SurfaceInv, LockPointers, SurfaceTypeOK, MarkedInTime, OnScreen, SurfaceIsBlank, Blank
  <2>9. Attached' /\ Placed' /\ Backed' /\ Owned'
    BY <1>1, <2>6 DEF SurfaceInv, SurfaceTypeOK, Attached, Placed, Backed, Owned
  <2> QED BY <2>8, <2>9 DEF SurfaceInv
<1> QED BY <1>2, <1>3

LEMMA PaintStep ==
    ASSUME SurfaceInv, NEW w \in Windows, Paint(w) PROVE SurfaceInv'
<1>1. /\ UNCHANGED <<lockObj, win, data, freeze, cur, marked, st, slot, role>>
      /\ data[w] # NULL /\ painted' = [painted EXCEPT ![w] = st[data[w]].size]
  BY DEF Paint, appVars
<1>2. st[data[w]].size \in Serial
  BY <1>1, Fields DEF SurfaceInv, SurfaceTypeOK
<1>3. LockPointers' /\ SurfaceTypeOK'
  BY <1>1, <1>2 DEF SurfaceInv, LockPointers, SurfaceTypeOK
<1>4. Attached' /\ Placed' /\ Backed' /\ Owned' /\ MarkedInTime' /\ OnScreen' /\ SurfaceIsBlank'
  BY <1>1 DEF SurfaceInv, Attached, Placed, Backed, Owned, MarkedInTime, OnScreen, SurfaceIsBlank, Blank
<1> QED BY <1>3, <1>4 DEF SurfaceInv

(* The compositor changes no more than its view of a surface.              *)
LEMMA RolesChange ==
    ASSUME SurfaceInv, UNCHANGED <<lockObj, windowVars, st, slot>>, role' \in [Ids -> RoleRecords]
    PROVE  SurfaceInv'
<1>1. UNCHANGED <<lockObj, win, data, freeze, cur, painted, marked, st, slot>>
  BY DEF windowVars
<1>2. LockPointers' /\ SurfaceTypeOK'
  BY <1>1 DEF SurfaceInv, LockPointers, SurfaceTypeOK
<1>3. Attached' /\ Placed' /\ Backed' /\ Owned' /\ MarkedInTime' /\ OnScreen' /\ SurfaceIsBlank'
  BY <1>1 DEF SurfaceInv, Attached, Placed, Backed, Owned, MarkedInTime, OnScreen, SurfaceIsBlank, Blank
<1> QED BY <1>2, <1>3 DEF SurfaceInv

LEMMA Answered ==
    ASSUME SurfaceInv, NEW i \in Ids, NEW r \in RoleRecords, NEW events, Answer(i, r, events)
    PROVE  SurfaceInv'
<1>1. UNCHANGED <<lockObj, windowVars, st, slot>> /\ role' = [role EXCEPT ![i] = r]
  BY DEF Answer, appVars
<1>2. role' \in [Ids -> RoleRecords]
  BY <1>1 DEF SurfaceInv, SurfaceTypeOK
<1> QED BY <1>1, <1>2, RolesChange

LEMMA Rejected ==
    ASSUME SurfaceInv, NEW err, Reject(err) PROVE SurfaceInv'
<1>1. LockPointers' /\ UNCHANGED surfaceVars
  BY DEF Reject, PostError, SurfaceInv, LockPointers, appVars
<1> QED BY <1>1, SurfacesKept

LEMMA RoleUpdates ==
    ASSUME NEW r \in RoleRecords
    PROVE  /\ [r EXCEPT !.state = "gone"] \in RoleRecords
           /\ \A x \in {"bound", "inert"} : [r EXCEPT !.state = x] \in RoleRecords
           /\ \A x \in Objs : [r EXCEPT !.lock = x] \in RoleRecords
           /\ \A x \in Outputs : [r EXCEPT !.out = x] \in RoleRecords
           /\ \A n \in Serial : /\ [r EXCEPT !.sent = n] \in RoleRecords
                                /\ [r EXCEPT !.acked = n] \in RoleRecords
                                /\ [r EXCEPT !.shown = n] \in RoleRecords
  BY DEF RoleRecords

LEMMA NewRoleFields ==
    ASSUME NEW x \in {"bound", "inert"}, NEW o \in Objs, NEW m \in Outputs, NEW n \in Serial
    PROVE  LET r == NewRole(x, o, m, n)
           IN  /\ r \in RoleRecords
               /\ r.state = x /\ r.lock = o /\ r.out = m /\ r.sent = n /\ r.acked = 0 /\ r.shown = 0
<1> DEFINE r == NewRole(x, o, m, n)
           a == [NoRole EXCEPT !.state = x]
           b == [a EXCEPT !.lock = o]
           c == [b EXCEPT !.out = m]
           d == [c EXCEPT !.sent = n]
<1>1. r = d
  BY DEF NewRole
<1>2. r.state = x /\ r.lock = o /\ r.out = m /\ r.sent = n /\ r.acked = 0 /\ r.shown = 0
  BY DEF NewRole, NoRole
<1>3. a \in RoleRecords
  <2>1. NoRole \in RoleRecords
    BY SerialTypes DEF NoRole, RoleRecords
  <2> QED BY <2>1, RoleUpdates
<1> HIDE DEF a
<1>4. b \in RoleRecords
  BY <1>3, RoleUpdates
<1> HIDE DEF b
<1>5. c \in RoleRecords
  BY <1>4, RoleUpdates
<1> HIDE DEF c
<1>6. d \in RoleRecords
  BY <1>5, RoleUpdates
<1> QED BY <1>1, <1>2, <1>6

LEMMA ServeSurfaceStep ==
    ASSUME SurfaceInv, NEW i \in Ids,
           \/ \E o \in Objs, m \in Outputs : HandleGetLockSurface(i, o, m)
           \/ HandleDestroySurface(i)
           \/ \E n \in Serial : HandleAck(i, n) \/ HandleCommit(i, n)
    PROVE  SurfaceInv'
<1>0. role[i] \in RoleRecords
  BY DEF SurfaceInv, SurfaceTypeOK
<1>1. ASSUME NEW o \in Objs, NEW m \in Outputs, HandleGetLockSurface(i, o, m) PROVE SurfaceInv'
  <2>1. \/ \E err : Reject(err)
        \/ Answer(i, NewRole("bound", o, m, 1), <<Configure(i, 1)>>)
        \/ Answer(i, NewRole("inert", o, m, 0), <<>>)
    BY <1>1, Zenon DEF HandleGetLockSurface
  <2>2. NewRole("bound", o, m, 1) \in RoleRecords /\ NewRole("inert", o, m, 0) \in RoleRecords
    BY NewRoleFields, SerialTypes
  <2> QED BY <2>1, <2>2, Answered, Rejected, Zenon
<1>2. CASE HandleDestroySurface(i)
  <2>1. Answer(i, [role[i] EXCEPT !.state = "gone"], <<>>)
    BY <1>2 DEF HandleDestroySurface
  <2> QED BY <1>0, <2>1, RoleUpdates, Answered, Zenon
<1>3. ASSUME NEW n \in Serial, HandleAck(i, n) PROVE SurfaceInv'
  <2>1. (\E err : Reject(err)) \/ Answer(i, [role[i] EXCEPT !.acked = n], <<>>)
    BY <1>3, Zenon DEF HandleAck
  <2> QED BY <1>0, <2>1, RoleUpdates, Answered, Rejected, Zenon
<1>4. ASSUME NEW n \in Serial, HandleCommit(i, n) PROVE SurfaceInv'
  <2>1. \/ \E err : Reject(err)
        \/ Answer(i, role[i], <<>>)
        \/ Answer(i, [role[i] EXCEPT !.shown = n], <<>>)
    BY <1>4, Zenon DEF HandleCommit
  <2> QED BY <1>0, <2>1, RoleUpdates, Answered, Rejected, Zenon
<1> QED BY <1>1, <1>2, <1>3, <1>4

LEMMA ReconfigureStep ==
    ASSUME SurfaceInv, NEW i \in Ids, Reconfigure(i) PROVE SurfaceInv'
<1>1. /\ UNCHANGED <<lockObj, windowVars, st, slot>> /\ role[i].sent < MaxConfigures
      /\ role' = [role EXCEPT ![i].sent = @ + 1]
  BY DEF Reconfigure, appVars
<1>2. role[i] \in RoleRecords /\ role[i].sent \in Serial
  BY DEF SurfaceInv, SurfaceTypeOK, RoleRecords
<1>3. role[i].sent + 1 \in Serial
  BY <1>1, <1>2, SurfaceConstants DEF Serial
<1>4. [role[i] EXCEPT !.sent = @ + 1] \in RoleRecords
  BY <1>2, <1>3, RoleUpdates
<1>5. role' \in [Ids -> RoleRecords]
  BY <1>1, <1>4 DEF SurfaceInv, SurfaceTypeOK
<1> QED BY <1>1, <1>5, RolesChange

-----------------------------------------------------------------------------
LEMMA SurfaceStep == SurfaceInv /\ [AnySurfaceNext]_allVars => SurfaceInv'
<1> SUFFICES ASSUME SurfaceInv, [AnySurfaceNext]_allVars PROVE SurfaceInv'
  OBVIOUS
<1>1. CASE LockSide(AnyApp)
  <2>1. LockPointers' /\ UNCHANGED surfaceVars
    BY <1>1, LockSideKeeps DEF LockSide, SurfaceInv
  <2> QED BY <2>1, SurfacesKept
<1>2. CASE AnySurfaceApp
  BY <1>2, NewSurfaceStep, RealizeStep, ShowStep, ShowCrashesStep, UnmapStep, HideStep, DestroyWindowStep
  DEF AnySurfaceApp
<1>3. CASE SurfaceEnv
  BY <1>3, HandleConfigureStep, ServeSurfaceStep, PaintStep, ReconfigureStep
  DEF SurfaceEnv, DispatchSurface, ServeSurface
<1>4. CASE UNCHANGED allVars
  <2>1. LockPointers' /\ UNCHANGED surfaceVars
    BY <1>4 DEF allVars, vars, appVars, SurfaceInv, LockPointers
  <2> QED BY <2>1, SurfacesKept
<1> QED BY <1>1, <1>2, <1>3, <1>4 DEF AnySurfaceNext

LEMMA SurfaceInvariant == AnySurfaceSpec => []SurfaceInv
<1> QED BY SurfaceInitial, SurfaceStep, PTL DEF AnySurfaceSpec

(* Whatever the application does, every record the library, GDK and the    *)
(* compositor keep of the lock surfaces stays within its type.             *)
THEOREM SurfaceTypes == AnySurfaceSpec => []SurfaceTypeOK
<1>1. SurfaceInv => SurfaceTypeOK
  BY DEF SurfaceInv
<1> QED BY <1>1, SurfaceInvariant, PTL

(* Whatever order the application prepares, shows, unmaps, hides and       *)
(* destroys its windows in, lock_surface_handle_configure() runs on a      *)
(* LockSurface that is alive and has this lock surface: finalize and       *)
(* unmap destroy the proxy of every struct that goes.                      *)
THEOREM SurfaceListenersAreAlive == AnySurfaceSpec => []SurfaceListenerIsAlive
<1>1. SurfaceInv => SurfaceListenerIsAlive
  BY DEF SurfaceInv, Backed, SurfaceListenerIsAlive
<1> QED BY <1>1, SurfaceInvariant, PTL

(* In the same orders, no wl_surface that custom-shell-surface.c turns     *)
(* into a lock surface has a role or a buffer already: the window is marked*)
(* when it is realized, or by init when it is realized before, and a null  *)
(* buffer is attached before the role is asked for.                        *)
THEOREM SurfacesAreBlank == AnySurfaceSpec => []SurfaceIsBlank
<1>1. SurfaceInv => SurfaceIsBlank
  BY DEF SurfaceInv
<1> QED BY <1>1, SurfaceInvariant, PTL

-----------------------------------------------------------------------------
(* The showings of a window by a documented application.                   *)
(*                                                                         *)
(* That a window is frozen exactly until its first configure depends on    *)
(* its freeze count, and on whether its struct has seen a configure, when  *)
(* it is shown: ShowingInv follows both while it is not on screen.         *)

(* A window that is not mapped has no lock surface.                        *)
UnmappedBefore == \A w \in Windows : data[w] # NULL /\ st[data[w]].obj # NULL => win[w] = "mapped"

MappedWithStruct == \A w \in Windows : win[w] = "mapped" => data[w] # NULL

OneStruct == \A s \in Structs : st[s].state = "live" => data[st[s].win] = s

(* A lock surface is a showing of its struct's window.                     *)
OwnWindow == \A i \in Ids : slot[i].state = "live" => slot[i].win = st[slot[i].data].win

FreshSlots == \A i \in Ids : slot[i].state = "none" => slot[i].win = NULL

(* The freeze count of a window that is gone counts no more.               *)
Balanced == \A w \in Windows : win[w] # "destroyed" =>
    freeze[w] = Shows(w) - (IF data[w] # NULL /\ st[data[w]].first THEN 1 ELSE 0)

ShowingInv ==
    /\ Balanced /\ UnmappedBefore /\ MappedWithStruct /\ OneStruct /\ OwnWindow /\ FreshSlots
    /\ ShownSurfaceIsCurrent

LEMMA ShowingInitial == SurfaceInit => ShowingInv
<1> SUFFICES ASSUME SurfaceInit PROVE ShowingInv
  OBVIOUS
<1>1. UnmappedBefore /\ MappedWithStruct /\ ShownSurfaceIsCurrent
  BY DEF SurfaceInit, UnmappedBefore, MappedWithStruct, ShownSurfaceIsCurrent
<1>2. OneStruct /\ OwnWindow /\ FreshSlots
  BY DEF SurfaceInit, OneStruct, OwnWindow, FreshSlots, NoStruct, NoSlot
<1>3. ASSUME NEW w \in Windows PROVE Shows(w) = 0
  <2>1. {i \in Ids : slot[i].win = w} = {}
    BY SurfaceConstants DEF SurfaceInit, NoSlot
  <2> QED BY <2>1, FS_EmptySet DEF Shows
<1>4. Balanced
  BY <1>3 DEF SurfaceInit, Balanced
<1> QED BY <1>1, <1>2, <1>4 DEF ShowingInv

LEMMA ShowsKept ==
    ASSUME NEW w \in Windows, \A i \in Ids : slot'[i].win = slot[i].win PROVE Shows(w)' = Shows(w)
<1>1. {i \in Ids : slot'[i].win = w} = {i \in Ids : slot[i].win = w}
  OBVIOUS
<1> QED BY <1>1 DEF Shows

LEMMA ShowsOneMore ==
    ASSUME NEW w \in Windows, NEW i \in Ids, slot[i].win = NULL, slot'[i].win = w,
           \A j \in Ids \ {i} : slot'[j].win = slot[j].win
    PROVE  /\ Shows(w)' = Shows(w) + 1 /\ \A v \in Windows : Shows(v) \in Nat
           /\ \A v \in Windows \ {w} : Shows(v)' = Shows(v)
<1> DEFINE Shown(v) == {j \in Ids : slot[j].win = v}
<1>1. \A v \in Windows : IsFiniteSet(Shown(v))
  BY SurfaceConstants, FS_Subset
<1>2. \A v \in Windows : Shows(v) \in Nat
  BY <1>1, FS_CardinalityType DEF Shows
<1>3. i \notin Shown(w) /\ {j \in Ids : slot'[j].win = w} = Shown(w) \cup {i}
  BY SurfaceConstants
<1>4. Shows(w)' = Shows(w) + 1
  BY <1>1, <1>3, FS_AddElement DEF Shows
<1>5. \A v \in Windows \ {w} : {j \in Ids : slot'[j].win = v} = Shown(v)
  BY SurfaceConstants
<1>6. \A v \in Windows \ {w} : Shows(v)' = Shows(v)
  BY <1>5 DEF Shows
<1> QED BY <1>2, <1>4, <1>6

LEMMA BalancedKept ==
    ASSUME Balanced, \A i \in Ids : slot'[i].win = slot[i].win,
           \A v \in Windows : win'[v] # "destroyed" =>
               /\ win[v] # "destroyed" /\ freeze'[v] = freeze[v]
               /\ data'[v] # NULL /\ st'[data'[v]].first <=> data[v] # NULL /\ st[data[v]].first
    PROVE  Balanced'
<1> SUFFICES ASSUME NEW v \in Windows, win'[v] # "destroyed"
             PROVE  freeze'[v] = Shows(v)' - (IF data'[v] # NULL /\ st'[data'[v]].first THEN 1 ELSE 0)
  BY DEF Balanced
<1>1. Shows(v)' = Shows(v)
  BY ShowsKept
<1> QED BY <1>1 DEF Balanced

LEMMA ShowingKept ==
    ASSUME ShowingInv, UNCHANGED <<win, data, freeze, cur, st, slot>> PROVE ShowingInv'
<1>1. (UnmappedBefore /\ MappedWithStruct /\ OneStruct /\ OwnWindow /\ FreshSlots /\ ShownSurfaceIsCurrent)'
  BY Zenon DEF ShowingInv, UnmappedBefore, MappedWithStruct, OneStruct, OwnWindow, FreshSlots, ShownSurfaceIsCurrent
<1>2. Balanced'
  BY BalancedKept DEF ShowingInv
<1> QED BY <1>1, <1>2 DEF ShowingInv

LEMMA PreparedShowing ==
    ASSUME SurfaceInv, ShowingInv, NEW l \in Locks, NEW w \in Windows, NEW m \in Outputs,
           data[w] = NULL, win[w] = "new", NewSurface(l, w, m)
    PROVE  ShowingInv'
<1>1. lockObj[l] \in Objs
  BY DEF NewSurface, SurfaceInv, LockPointers
<1>2. PICK new \in StructRecords :
        /\ new = NewStruct(w, m, lockObj[l])
        /\ new.state = "live" /\ new.win = w /\ new.obj = NULL /\ ~new.first
  BY <1>1, NewStructFields
<1>3. PICK s \in Structs :
        /\ st[s].state = "none"
        /\ data' = [data EXCEPT ![w] = s] /\ st' = [st EXCEPT ![s] = new]
        /\ UNCHANGED <<slot, win, freeze, cur>>
  BY <1>2, SMTT(30) DEF NewSurface, Allocatable
<1>4. /\ \A v \in Windows : data'[v] = IF v = w THEN s ELSE data[v]
      /\ \A t \in Structs : st'[t] = IF t = s THEN new ELSE st[t]
  BY <1>3 DEF SurfaceInv, SurfaceTypeOK
<1>5. \A v \in Windows : data[v] # NULL => data[v] \in Structs \ {s}
  BY <1>3 DEF SurfaceInv, SurfaceTypeOK, Attached
<1>6. \A i \in Ids : slot[i].state = "live" => slot[i].data \in Structs \ {s}
  BY <1>3 DEF SurfaceInv, Backed
<1> USE <1>2, <1>3, <1>4
<1>7. Balanced' /\ UnmappedBefore'
  <2>1. Balanced'
    BY <1>5, BalancedKept DEF ShowingInv
  <2>2. UnmappedBefore'
    BY <1>5 DEF ShowingInv, UnmappedBefore
  <2> QED BY <2>1, <2>2
<1>8. MappedWithStruct' /\ OneStruct'
  BY <1>5, SurfaceConstants DEF SurfaceInv, Placed, ShowingInv, MappedWithStruct, OneStruct
<1>9. OwnWindow'
  BY <1>6 DEF ShowingInv, OwnWindow
<1>10. FreshSlots' /\ ShownSurfaceIsCurrent'
  BY <1>5 DEF ShowingInv, FreshSlots, ShownSurfaceIsCurrent
<1> QED BY <1>7, <1>8, <1>9, <1>10 DEF ShowingInv

LEMMA ShowShowing ==
    ASSUME SurfaceInv, ShowingInv, NEW w \in Windows, data[w] # NULL, Show(w)
    PROVE  ShowingInv'
<1>2. PICK s \in Structs : s = data[w]
  BY DEF SurfaceInv, SurfaceTypeOK
<1>3. st[s].obj = NULL /\ st[s].state = "live" /\ st[s].win = w /\ win[w] \in {"new", "realized"}
  BY <1>2 DEF ShowingInv, UnmappedBefore, SurfaceInv, Attached, Show
<1>9. st[data[w]].obj = NULL
  BY <1>2, <1>3
<1>15. PICK i \in Ids :
        /\ slot[i].state = "none" /\ cur' = [cur EXCEPT ![w] = i]
        /\ freeze' = [freeze EXCEPT ![w] = @ + 1]
        /\ slot' = [slot EXCEPT ![i] = Surface(w, "live", data[w], FALSE)]
        /\ st' = [st EXCEPT ![data[w]].obj = i]
        /\ win' = [win EXCEPT ![w] = "mapped"] /\ UNCHANGED data
  BY <1>9, Zenon DEF Show, Map, Fresh, Detached
<1>4. /\ slot[i].state = "none" /\ cur' = [cur EXCEPT ![w] = i]
      /\ freeze' = [freeze EXCEPT ![w] = @ + 1]
      /\ slot' = [slot EXCEPT ![i] = Surface(w, "live", s, FALSE)]
      /\ st' = [st EXCEPT ![s].obj = i]
      /\ win' = [win EXCEPT ![w] = "mapped"] /\ UNCHANGED data
  BY <1>2, <1>15, Zenon
<1>5. \A t \in Structs :
        /\ st'[t].state = st[t].state /\ st'[t].win = st[t].win /\ (st'[t].first <=> st[t].first)
        /\ st'[t].obj = IF t = s THEN i ELSE st[t].obj
  <2>1. st' = [st EXCEPT ![s].obj = i]
    BY <1>4
  <2>2. st \in [Structs -> StructRecords] /\ st[s] \in StructRecords /\ i \in Ids \cup {NULL}
    BY DEF SurfaceInv, SurfaceTypeOK
  <2>3. PICK r \in StructRecords :
          /\ r = [st[s] EXCEPT !.obj = i]
          /\ r.obj = i /\ r.state = st[s].state /\ r.win = st[s].win /\ r.first = st[s].first
    BY <2>2, ObjRecord
  <2>4. st' = [st EXCEPT ![s] = r]
    BY <2>1, <2>3
  <2> QED BY <2>2, <2>3, <2>4
<1>6. /\ slot'[i].win = w /\ slot'[i].data = s /\ slot'[i].state = "live"
      /\ \A j \in Ids \ {i} : slot'[j] = slot[j]
  <2>1. PICK r \in SlotRecords : slot' = [slot EXCEPT ![i] = r] /\ r.win = w /\ r.data = s /\ r.state = "live"
    <3>1. slot' = [slot EXCEPT ![i] = Surface(w, "live", s, FALSE)]
      BY <1>4
    <3>2. /\ Surface(w, "live", s, FALSE) \in SlotRecords /\ Surface(w, "live", s, FALSE).win = w
          /\ Surface(w, "live", s, FALSE).data = s /\ Surface(w, "live", s, FALSE).state = "live"
      BY DEF Surface, SlotRecords
    <3> QED BY <3>1, <3>2
  <2> QED BY <2>1 DEF SurfaceInv, SurfaceTypeOK
<1>7. /\ freeze'[w] = freeze[w] + 1 /\ \A v \in Windows \ {w} : freeze'[v] = freeze[v]
      /\ \A v \in Windows \ {w} : win'[v] = win[v]
      /\ \A v \in Windows : freeze[v] \in Nat
  BY <1>4 DEF SurfaceInv, SurfaceTypeOK
<1>8. \A v \in Windows \ {w} : data[v] # NULL => data[v] \in Structs \ {s}
  BY <1>3 DEF SurfaceInv, SurfaceTypeOK, Attached
<1>14. /\ Shows(w)' = Shows(w) + 1 /\ \A v \in Windows : Shows(v) \in Nat
       /\ \A v \in Windows \ {w} : Shows(v)' = Shows(v)
  <2>1. slot[i].win = NULL
    BY <1>4 DEF ShowingInv, FreshSlots
  <2>2. \A j \in Ids \ {i} : slot'[j].win = slot[j].win
    BY <1>6
  <2> QED BY <1>6, <2>1, <2>2, ShowsOneMore
<1>10. Balanced'
  <2> SUFFICES ASSUME NEW v \in Windows, win'[v] # "destroyed"
               PROVE  freeze'[v] = Shows(v)' - (IF data'[v] # NULL /\ st'[data'[v]].first THEN 1 ELSE 0)
    BY DEF Balanced
  <2>1. CASE v = w
    <3>1. freeze[w] = Shows(w) - (IF st[s].first THEN 1 ELSE 0)
      BY <1>2, <1>3 DEF ShowingInv, Balanced
    <3>2. data'[w] = s /\ data'[w] # NULL /\ (st'[s].first <=> st[s].first)
      BY <1>2, <1>4, <1>5
    <3>3. Shows(w) \in Nat /\ Shows(w)' = Shows(w) + 1
      BY <1>14
    <3> QED BY <1>7, <2>1, <3>1, <3>2, <3>3
  <2>2. CASE v # w
    <3>1. freeze[v] = Shows(v) - (IF data[v] # NULL /\ st[data[v]].first THEN 1 ELSE 0)
      BY <1>7, <2>2 DEF ShowingInv, Balanced
    <3>2. data'[v] = data[v] /\ (data[v] # NULL => (st'[data[v]].first <=> st[data[v]].first))
      BY <1>4, <1>5, <1>8, <2>2
    <3> QED BY <1>7, <1>14, <2>2, <3>1, <3>2
  <2> QED BY <2>1, <2>2
<1>11. MappedWithStruct' /\ OneStruct'
  BY <1>2, <1>4, <1>5, <1>7 DEF ShowingInv, MappedWithStruct, OneStruct
<1>12. OwnWindow'
  <2> SUFFICES ASSUME NEW j \in Ids, slot'[j].state = "live"
               PROVE  slot'[j].win = st'[slot'[j].data].win
    BY DEF OwnWindow
  <2>1. CASE j = i
    BY <1>3, <1>5, <1>6, <2>1
  <2>2. CASE j # i
    BY <1>5, <1>6, <2>2 DEF SurfaceInv, Backed, ShowingInv, OwnWindow
  <2> QED BY <2>1, <2>2
<1>13. UnmappedBefore' /\ FreshSlots'
  <2>1. win'[w] = "mapped"
    BY <1>4 DEF SurfaceInv, SurfaceTypeOK
  <2>2. UnmappedBefore'
    BY <1>4, <1>5, <1>7, <1>8, <2>1 DEF ShowingInv, UnmappedBefore
  <2>3. FreshSlots'
    BY <1>6 DEF ShowingInv, FreshSlots
  <2> QED BY <2>2, <2>3
<1>16. ShownSurfaceIsCurrent'
  <2>1. cur'[w] = i /\ \A v \in Windows \ {w} : cur'[v] = cur[v]
    BY <1>4 DEF SurfaceInv, SurfaceTypeOK
  <2>2. st'[data'[w]].obj = i
    BY <1>2, <1>4, <1>5
  <2>3. \A v \in Windows \ {w} : data[v] # NULL => st'[data'[v]].obj = st[data[v]].obj
    BY <1>4, <1>5, <1>8
  <2> QED BY <1>4, <1>7, <2>1, <2>2, <2>3 DEF ShowingInv, ShownSurfaceIsCurrent
<1> QED BY <1>10, <1>11, <1>12, <1>13, <1>16 DEF ShowingInv

LEMMA UnmapShowing ==
    ASSUME SurfaceInv, ShowingInv, NEW w \in Windows, Unmap(w) PROVE ShowingInv'
<1>1. PICK s \in Structs :
        /\ s = data[w] /\ slot' = Unmapped(s) /\ st' = [st EXCEPT ![s].obj = NULL]
        /\ UNCHANGED <<win, data, freeze, cur>>
  BY DEF Unmap, SurfaceInv, SurfaceTypeOK, windowVars
<1>2. \A t \in Structs :
        /\ st'[t].win = st[t].win /\ st'[t].state = st[t].state /\ (st'[t].first <=> st[t].first)
        /\ st'[t].obj = IF t = s THEN NULL ELSE st[t].obj
  BY <1>1, Unpointed DEF SurfaceInv
<1>3. \A i \in Ids : /\ slot'[i].data = slot[i].data /\ slot'[i].win = slot[i].win
                     /\ slot'[i].state = IF st[s].obj = i THEN "destroyed" ELSE slot[i].state
  BY <1>1, Unmapping DEF SurfaceInv
<1>4. \A v \in Windows : data[v] # NULL => data[v] \in Structs
  BY DEF SurfaceInv, SurfaceTypeOK
<1>5. Balanced' /\ UnmappedBefore'
  <2>1. Balanced'
    BY <1>1, <1>2, <1>3, <1>4, BalancedKept DEF ShowingInv
  <2>2. UnmappedBefore'
    BY <1>1, <1>2, <1>4 DEF ShowingInv, UnmappedBefore
  <2> QED BY <2>1, <2>2
<1>6. OwnWindow'
  BY <1>2, <1>3 DEF SurfaceInv, Backed, ShowingInv, OwnWindow
<1>7. MappedWithStruct' /\ OneStruct' /\ ShownSurfaceIsCurrent'
  BY <1>1, <1>2, <1>4 DEF ShowingInv, MappedWithStruct, OneStruct, ShownSurfaceIsCurrent
<1>8. FreshSlots'
  BY <1>3, SurfaceConstants DEF SurfaceInv, Owned, ShowingInv, FreshSlots
<1> QED BY <1>5, <1>6, <1>7, <1>8 DEF ShowingInv

LEMMA WindowShowing ==
    ASSUME ShowingInv, UNCHANGED <<data, freeze, st, slot>>,
           \A v \in Windows :
              /\ win'[v] = "mapped" => win[v] = "mapped" /\ cur'[v] = cur[v]
              /\ win'[v] # "destroyed" => win[v] # "destroyed"
              /\ data[v] # NULL /\ st[data[v]].obj # NULL => win'[v] = win[v]
    PROVE  ShowingInv'
<1>1. OneStruct' /\ OwnWindow' /\ FreshSlots'
  BY DEF ShowingInv, OneStruct, OwnWindow, FreshSlots
<1>2. MappedWithStruct' /\ ShownSurfaceIsCurrent'
  BY DEF ShowingInv, MappedWithStruct, ShownSurfaceIsCurrent
<1>3. UnmappedBefore'
  <2> SUFFICES ASSUME NEW v \in Windows, data[v] # NULL, st[data[v]].obj # NULL
               PROVE  win'[v] = "mapped"
    BY DEF UnmappedBefore
  <2>1. win[v] = "mapped"
    BY DEF ShowingInv, UnmappedBefore
  <2> QED BY <2>1
<1>4. Balanced'
  <2>1. \A v \in Windows : win'[v] # "destroyed" => win[v] # "destroyed" /\ freeze'[v] = freeze[v]
    OBVIOUS
  <2>2. \A v \in Windows :
          data'[v] # NULL /\ st'[data'[v]].first <=> data[v] # NULL /\ st[data[v]].first
    OBVIOUS
  <2>3. Balanced /\ \A i \in Ids : slot'[i].win = slot[i].win
    BY DEF ShowingInv
  <2> QED BY <2>1, <2>2, <2>3, BalancedKept
<1> QED BY <1>1, <1>2, <1>3, <1>4 DEF ShowingInv

LEMMA DestroyWindowShowing ==
    ASSUME SurfaceInv, ShowingInv, NEW w \in Windows, data[w] # NULL, DestroyWindow(w)
    PROVE  ShowingInv'
<1>1. PICK s \in Structs :
        /\ s = data[w] /\ slot' = Unmapped(s)
        /\ st' = [st EXCEPT ![s].state = "freed", ![s].obj = NULL]
        /\ win' = [win EXCEPT ![w] = "destroyed"] /\ data' = [data EXCEPT ![w] = NULL]
        /\ cur' = [cur EXCEPT ![w] = NULL] /\ UNCHANGED freeze
  BY DEF DestroyWindow, SurfaceInv, SurfaceTypeOK
<1>2. \A t \in Structs :
        /\ st'[t].win = st[t].win /\ st'[t].state = IF t = s THEN "freed" ELSE st[t].state
        /\ st'[t].obj = IF t = s THEN NULL ELSE st[t].obj
        /\ t # s => st'[t] = st[t]
  <2>1. st' = [st EXCEPT ![s].state = "freed", ![s].obj = NULL]
    BY <1>1
  <2>2. SurfaceTypeOK
    BY DEF SurfaceInv
  <2> QED BY <2>1, <2>2, Freed
<1>10. UNCHANGED freeze /\ s = data[w]
  BY <1>1
<1>3. \A i \in Ids : /\ slot'[i].data = slot[i].data /\ slot'[i].win = slot[i].win
                     /\ slot'[i].state = IF st[s].obj = i THEN "destroyed" ELSE slot[i].state
  BY <1>1, Unmapping DEF SurfaceInv
<1>4. \A v \in Windows \ {w} : data[v] # NULL => data[v] \in Structs \ {s}
  BY <1>1 DEF SurfaceInv, SurfaceTypeOK, Attached
<1>5. \A v \in Windows : /\ win'[v] = IF v = w THEN "destroyed" ELSE win[v]
                         /\ data'[v] = IF v = w THEN NULL ELSE data[v]
                         /\ v # w => cur'[v] = cur[v]
  BY <1>1 DEF SurfaceInv, SurfaceTypeOK
<1>6. Balanced' /\ UnmappedBefore' /\ MappedWithStruct' /\ ShownSurfaceIsCurrent'
  <2>1. Balanced'
    BY <1>10, <1>2, <1>3, <1>4, <1>5, BalancedKept DEF ShowingInv
  <2>2. UnmappedBefore' /\ MappedWithStruct' /\ ShownSurfaceIsCurrent'
    BY <1>2, <1>4, <1>5 DEF ShowingInv, UnmappedBefore, MappedWithStruct, ShownSurfaceIsCurrent
  <2> QED BY <2>1, <2>2
<1>7. OneStruct'
  <2> SUFFICES ASSUME NEW t \in Structs, st'[t].state = "live" PROVE data'[st'[t].win] = t
    BY DEF OneStruct
  <2>1. t # s /\ st[t].state = "live" /\ st'[t].win = st[t].win /\ st[t].win \in Windows
    BY <1>2 DEF SurfaceInv, Placed
  <2>2. data[st[t].win] = t
    BY <2>1 DEF ShowingInv, OneStruct
  <2> QED BY <1>10, <1>5, <2>1, <2>2
<1>8. OwnWindow'
  BY <1>2, <1>3 DEF SurfaceInv, Backed, ShowingInv, OwnWindow
<1>9. FreshSlots'
  BY <1>3, SurfaceConstants DEF SurfaceInv, Owned, ShowingInv, FreshSlots
<1> QED BY <1>6, <1>7, <1>8, <1>9 DEF ShowingInv

LEMMA ConfigureShowing ==
    ASSUME SurfaceInv, ShowingInv, NEW i \in Ids, NEW n \in Serial, HandleConfigure(i, n)
    PROVE  ShowingInv'
<1>1. /\ UNCHANGED <<win, data, cur, slot>>
      /\ \/ UNCHANGED <<st, freeze>>
         \/ LET s == slot[i].data
            IN  /\ slot[i].state = "live" /\ st[s].state = "live"
                /\ st' = [st EXCEPT ![s].size = n, ![s].first = TRUE]
                /\ freeze' = IF st[s].first \/ freeze[st[s].win] = 0 THEN freeze
                             ELSE [freeze EXCEPT ![st[s].win] = @ - 1]
  BY Zenon DEF HandleConfigure
<1>2. CASE UNCHANGED <<st, freeze>>
  BY <1>1, <1>2, ShowingKept
<1>3. CASE ~UNCHANGED <<st, freeze>>
  <2>1. slot[i].data \in Structs /\ st[slot[i].data].win \in Windows /\ slot[i].state = "live"
    BY <1>1, <1>3 DEF SurfaceInv, Backed, Placed
  <2>2. PICK s \in Structs, w \in Windows : s = slot[i].data /\ w = st[s].win
    BY <2>1
  <2>3. st[s].state = "live" /\ st[s].obj = i /\ slot[i].win = w /\ data[w] = s
    BY <2>1, <2>2 DEF SurfaceInv, Backed, ShowingInv, OwnWindow, OneStruct
  <2>4. /\ st' = [st EXCEPT ![s].size = n, ![s].first = TRUE]
        /\ freeze' = IF st[s].first \/ freeze[w] = 0 THEN freeze ELSE [freeze EXCEPT ![w] = @ - 1]
    BY <1>1, <1>3, <2>2
  <2>5. \A t \in Structs :
          /\ st'[t].state = st[t].state /\ st'[t].win = st[t].win /\ st'[t].obj = st[t].obj
          /\ st'[t].first <=> (t = s \/ st[t].first)
    BY <2>4, Sized DEF SurfaceInv
  <2>6. /\ \A v \in Windows \ {w} : freeze'[v] = freeze[v]
        /\ freeze'[w] = IF st[s].first \/ freeze[w] = 0 THEN freeze[w] ELSE freeze[w] - 1
    BY <2>4 DEF SurfaceInv, SurfaceTypeOK
  <2>7. \A v \in Windows : v # w /\ data[v] # NULL => data[v] \in Structs \ {s}
    BY <2>2 DEF SurfaceInv, SurfaceTypeOK, Attached
  <2>8. Balanced'
    <3> SUFFICES ASSUME NEW v \in Windows, win'[v] # "destroyed"
                 PROVE  freeze'[v] = Shows(v)' - (IF data'[v] # NULL /\ st'[data'[v]].first THEN 1 ELSE 0)
      BY DEF Balanced
    <3>1. Shows(v)' = Shows(v) /\ data'[v] = data[v] /\ win'[v] = win[v]
      BY <1>1, ShowsKept
    <3>2. freeze[v] = Shows(v) - (IF data[v] # NULL /\ st[data[v]].first THEN 1 ELSE 0)
      BY <3>1 DEF ShowingInv, Balanced
    <3>3. CASE v = w
      <4>1. Shows(w) \in Nat /\ Shows(w) # 0
        <5> DEFINE Shown == {j \in Ids : slot[j].win = w}
        <5>1. IsFiniteSet(Shown) /\ i \in Shown
          BY <2>3, SurfaceConstants, FS_Subset
        <5>2. Cardinality(Shown) \in Nat /\ Cardinality(Shown) # 0
          BY <5>1, FS_CardinalityType, FS_EmptySet
        <5> QED BY <5>2 DEF Shows
      <4>2. data[w] = s /\ s # NULL /\ st'[s].first
        BY <2>3, <2>5, SurfaceConstants
      <4>3. freeze[w] = Shows(w) - (IF st[s].first THEN 1 ELSE 0)
        BY <3>2, <3>3, <4>2
      <4> QED BY <2>6, <3>1, <3>3, <4>1, <4>2, <4>3
    <3>4. CASE v # w
      <4>1. data[v] # NULL => (st'[data[v]].first <=> st[data[v]].first)
        BY <2>5, <2>7, <3>4
      <4> QED BY <2>6, <3>1, <3>2, <3>4, <4>1
    <3> QED BY <3>3, <3>4
  <2>9. MappedWithStruct' /\ OneStruct' /\ OwnWindow' /\ FreshSlots'
    BY <1>1, <2>5 DEF SurfaceInv, Backed, ShowingInv, MappedWithStruct, OneStruct, OwnWindow, FreshSlots
  <2>10. UnmappedBefore' /\ ShownSurfaceIsCurrent'
    <3>1. \A v \in Windows : data[v] # NULL => data[v] \in Structs
      BY DEF SurfaceInv, SurfaceTypeOK
    <3> QED BY <1>1, <2>5, <3>1 DEF ShowingInv, UnmappedBefore, ShownSurfaceIsCurrent
  <2> QED BY <2>8, <2>9, <2>10 DEF ShowingInv
<1> QED BY <1>2, <1>3

LEMMA SurfaceDocumentedIsAny == SurfaceNext => AnySurfaceNext
<1>1. LeavingApp => AnyApp
  BY DEF LeavingApp, DocumentedApp, AnyApp
<1>2. LockSide(LeavingApp) => LockSide(AnyApp)
  BY <1>1 DEF LockSide
<1>3. DocumentedSurfaceApp => AnySurfaceApp
  BY Zenon DEF DocumentedSurfaceApp, AnySurfaceApp
<1> QED BY <1>2, <1>3 DEF SurfaceNext, AnySurfaceNext

(* A window whose wl_surface has lost its lock surface may be hidden: its  *)
(* struct has none either.                                                 *)
LEMMA HiddenUnmapped ==
    ASSUME SurfaceInv, ShowingInv, NEW w \in Windows, win[w] = "mapped", data[w] # NULL,
           slot[cur[w]].state # "live"
    PROVE  st[data[w]].obj = NULL
<1>1. data[w] \in Structs /\ st[data[w]].obj \in {NULL, cur[w]}
  BY DEF SurfaceInv, SurfaceTypeOK, ShowingInv, ShownSurfaceIsCurrent
<1> QED BY <1>1 DEF SurfaceInv, Owned

LEMMA ShowingStep ==
    ASSUME SurfaceInv, ShowingInv, [SurfaceNext]_allVars PROVE ShowingInv'
<1>1. CASE LockSide(LeavingApp) \/ UNCHANGED allVars
  <2>1. UNCHANGED <<win, data, freeze, cur, st, slot>>
    BY <1>1 DEF LockSide, allVars, surfaceVars, windowVars
  <2> QED BY <2>1, ShowingKept
<1>2. CASE DocumentedSurfaceApp
  <2>1. ASSUME NEW l \in Locks, NEW w \in Windows, NEW m \in Outputs,
               data[w] = NULL, win[w] = "new", NewSurface(l, w, m)
        PROVE  ShowingInv'
    BY <2>1, PreparedShowing
  <2>2. ASSUME NEW w \in Windows, Realize(w) PROVE ShowingInv'
    <3>1. /\ UNCHANGED <<data, freeze, st, slot>> /\ win' = [win EXCEPT ![w] = "realized"]
          /\ win[w] = "new"
      BY <2>2 DEF Realize
    <3>2. data[w] # NULL => st[data[w]].obj = NULL
      BY <3>1 DEF ShowingInv, UnmappedBefore
    <3>3. UNCHANGED cur
      BY <2>2 DEF Realize
    <3> QED BY <3>1, <3>2, <3>3, WindowShowing DEF SurfaceInv, SurfaceTypeOK
  <2>3. ASSUME NEW w \in Windows, data[w] # NULL, Show(w) PROVE ShowingInv'
    BY <2>3, ShowShowing
  <2>4. ASSUME NEW w \in Windows, win[w] = "mapped", data[w] # NULL, slot[cur[w]].state # "live", Hide(w)
        PROVE  ShowingInv'
    <3>1. /\ UNCHANGED <<data, freeze, st, slot>> /\ win' = [win EXCEPT ![w] = "realized"]
          /\ cur' = [cur EXCEPT ![w] = NULL] /\ st[data[w]].obj = NULL
      BY <2>4, HiddenUnmapped DEF Hide
    <3>2. \A v \in Windows \ {w} : win'[v] = win[v] /\ cur'[v] = cur[v]
      BY <3>1 DEF SurfaceInv, SurfaceTypeOK
    <3>3. win[w] = "mapped" /\ win'[w] = "realized"
      BY <2>4, <3>1 DEF SurfaceInv, SurfaceTypeOK
    <3>4. \A v \in Windows :
            /\ win'[v] = "mapped" => win[v] = "mapped" /\ cur'[v] = cur[v]
            /\ win'[v] # "destroyed" => win[v] # "destroyed"
            /\ data[v] # NULL /\ st[data[v]].obj # NULL => win'[v] = win[v]
      BY <3>1, <3>2, <3>3
    <3> QED BY <3>1, <3>4, WindowShowing
  <2>5. ASSUME NEW w \in Windows, Unmap(w) \/ (data[w] # NULL /\ DestroyWindow(w)) PROVE ShowingInv'
    BY <2>5, UnmapShowing, DestroyWindowShowing
  <2> QED BY <1>2, <2>1, <2>2, <2>3, <2>4, <2>5 DEF DocumentedSurfaceApp
<1>3. CASE SurfaceEnv
  <2>1. ASSUME NEW i \in Ids, NEW n \in Serial, HandleConfigure(i, n) PROVE ShowingInv'
    BY <2>1, ConfigureShowing
  <2>2. ASSUME NEW w \in Windows, Paint(w) PROVE ShowingInv'
    BY <2>2, ShowingKept DEF Paint
  <2>3. CASE ServeSurface
    <3>1. UNCHANGED <<windowVars, st, slot>>
      <4>1. ASSUME NEW i \in Ids, NEW o \in Objs, NEW m \in Outputs, HandleGetLockSurface(i, o, m)
            PROVE  UNCHANGED <<windowVars, st, slot>>
        BY <4>1 DEF HandleGetLockSurface, Answer, Reject, surfaceVars
      <4>2. ASSUME NEW i \in Ids, HandleDestroySurface(i) PROVE UNCHANGED <<windowVars, st, slot>>
        BY <4>2 DEF HandleDestroySurface, Answer
      <4>3. ASSUME NEW i \in Ids, NEW n \in Serial, HandleAck(i, n) PROVE UNCHANGED <<windowVars, st, slot>>
        BY <4>3 DEF HandleAck, Answer, Reject, surfaceVars
      <4>4. ASSUME NEW i \in Ids, NEW n \in Serial, HandleCommit(i, n)
            PROVE  UNCHANGED <<windowVars, st, slot>>
        BY <4>4 DEF HandleCommit, Answer, Reject, surfaceVars
      <4> QED BY <2>3, <4>1, <4>2, <4>3, <4>4 DEF ServeSurface
    <3> QED BY <3>1, ShowingKept DEF windowVars
  <2>4. ASSUME NEW i \in Ids, Reconfigure(i) PROVE ShowingInv'
    BY <2>4, ShowingKept DEF Reconfigure, windowVars
  <2> QED BY <1>3, <2>1, <2>2, <2>3, <2>4 DEF SurfaceEnv, DispatchSurface
<1> QED BY <1>1, <1>2, <1>3 DEF SurfaceNext

LEMMA ShowingsHold == SurfaceSpec => [](SurfaceInv /\ ShowingInv)
<1> DEFINE I == SurfaceInv /\ ShowingInv
<1>1. SurfaceInit => I
  BY SurfaceInitial, ShowingInitial
<1>2. I /\ [SurfaceNext]_allVars => I'
  BY SurfaceStep, SurfaceDocumentedIsAny, ShowingStep
<1> HIDE DEF I
<1>3. SurfaceSpec => []I
  BY <1>1, <1>2, PTL DEF SurfaceSpec
<1> QED BY <1>3 DEF I

(* lock_surface_map() freezes a window and the first configure thaws it,   *)
(* once each: a lock window of a documented application is frozen exactly  *)
(* until its first configure in its first showing, and for good in every   *)
(* later one, however many windows and monitors there are and whatever the *)
(* compositor does.                                                        *)
THEOREM FreezesAreBalanced == SurfaceSpec => []FrozenUntilConfigured
<1>1. SurfaceInv /\ ShowingInv => FrozenUntilConfigured
  BY Zenon DEF ShowingInv, Balanced, MappedWithStruct, FrozenUntilConfigured
<1> QED BY <1>1, ShowingsHold, PTL

(* A documented application that hides a window only when its lock surface *)
(* is gone gets one for every showing: lock_surface_map() never finds the  *)
(* pointer of an earlier showing in the struct, because lock_surface_unmap *)
(* clears it with the proxy.                                               *)
THEOREM SurfacesAreCurrent == SurfaceSpec => []ShownSurfaceIsCurrent
<1>1. SurfaceInv /\ ShowingInv => ShownSurfaceIsCurrent
  BY DEF ShowingInv
<1> QED BY <1>1, ShowingsHold, PTL
=============================================================================

---------------------- MODULE DocumentedSurfaceProofs ----------------------
(***************************************************************************)
(* A documented application with its lock surfaces (SurfaceSpec of         *)
(* LockSurface), for every set of locks, windows, monitors and surfaces    *)
(* and any number of showings and configures: neither protocol is ever     *)
(* violated, and the locks keep their guarantees although surfaces share   *)
(* their wire.  Nothing a window waits for is lost on the way to its       *)
(* display.                                                                *)
(*                                                                         *)
(* Whether a surface request is legal when it is read depends on every     *)
(* request before it: on the lock's own, on the end of the surface that    *)
(* had the monitor before, on the acks.  DocumentedInv therefore speaks of *)
(* positions on the wire and relates them to the client's proxies on one   *)
(* side and to the compositor's records on the other.                      *)
(***************************************************************************)
EXTENDS LockSurfaceProofs, SessionLockProofs

(* The message at a position of either direction.                          *)
At(k, m)  == k \in 1..Len(toServer) /\ toServer[k] = m
Due(k, m) == k \in 1..Len(toClient) /\ toClient[k] = m
Asked(m)  == \E k \in Nat : At(k, m)

Made(i)   == slot[i].state \in {"live", "destroyed"}
LockOf(i) == st[slot[i].data].lock
MonOf(i)  == st[slot[i].data].mon

-----------------------------------------------------------------------------
(* Windows, structs and surfaces of a documented application.              *)

LiveStructs == \A i \in Ids : Made(i) => slot[i].data \in Structs /\ st[slot[i].data].state # "none"
NoPlain == \A i \in Ids : slot[i].state # "plain"
InOrder == \A i, j \in Ids : slot[i].state # "none" /\ j < i => slot[j].state # "none"

(* A struct has its lock and monitor to itself.                            *)
OneEach ==
    \A s, t \in Structs :
        /\ st[s].state # "none" /\ st[t].state # "none"
        /\ st[s].lock = st[t].lock /\ st[s].mon = st[t].mon
        => s = t

(* Of the surfaces of a struct only the latest can be alive.               *)
LatestLives ==
    \A i, j \in Ids : Made(i) /\ slot[j].state = "live" /\ slot[i].data = slot[j].data => i <= j

StructLock ==
    \A s \in Structs : st[s].state # "none" =>
        st[s].lock \in Objs /\ st[s].mon \in Outputs /\ proxy[st[s].lock] # "none"

ShownBy ==
    \A s \in Structs : st[s].obj # NULL => win[st[s].win] = "mapped" /\ cur[st[s].win] = st[s].obj

Mapped ==
    \A w \in Windows : win[w] = "mapped" =>
        data[w] # NULL /\ cur[w] \in Ids /\ Made(cur[w]) /\ slot[cur[w]].data = data[w]

Shape ==
    /\ LiveStructs /\ NoPlain /\ InOrder /\ OneEach /\ LatestLives
    /\ StructLock /\ OneStruct /\ ShownBy /\ Mapped

-----------------------------------------------------------------------------
(* Requests for surfaces and their end.                                    *)

GetsDue ==
    \A k \in Nat, i \in Ids, o \in Objs, m \in Outputs : At(k, GetLockSurface(i, o, m)) =>
        Made(i) /\ role[i].state = "none" /\ o = LockOf(i) /\ m = MonOf(i)

GetsOnce ==
    \A k, l \in Nat, i \in Ids, o, p \in Objs, m, q \in Outputs :
        At(k, GetLockSurface(i, o, m)) /\ At(l, GetLockSurface(i, p, q)) => k = l

GetsFirst ==
    \A k, l \in Nat, i \in Ids, o \in Objs, m \in Outputs :
        At(k, GetLockSurface(i, o, m)) /\ At(l, DestroySurface(i)) => k < l

(* A monitor's surface is given up before the next one is asked for ...    *)
EndsFirst ==
    \A k, l \in Nat, i, j \in Ids, o \in Objs, m \in Outputs :
        /\ At(k, GetLockSurface(i, o, m)) /\ At(l, DestroySurface(j))
        /\ slot[i].data = slot[j].data /\ j < i
        => l < k

(* ... and the next one does not hold it until then.                       *)
NextWaits ==
    \A l \in Nat, i, j \in Ids :
        At(l, DestroySurface(j)) /\ Made(i) /\ slot[i].data = slot[j].data /\ j < i
        => role[i].state # "bound"

RolesMatch ==
    \A i \in Ids :
        /\ role[i].state # "none" => Made(i)
        /\ role[i].state = "bound" => role[i].lock = LockOf(i) /\ role[i].out = MonOf(i)

DestroyedAreGone ==
    connected => \A i \in Ids :
        slot[i].state = "destroyed" => role[i].state = "gone" \/ Asked(DestroySurface(i))

DestroysDue == \A k \in Nat, i \in Ids : At(k, DestroySurface(i)) => slot[i].state = "destroyed"

Turns ==
    /\ GetsDue /\ GetsOnce /\ GetsFirst /\ EndsFirst /\ NextWaits
    /\ RolesMatch /\ DestroyedAreGone /\ DestroysDue

(* A surface is asked for between its lock's own two requests.             *)
GetsInLock ==
    \A k \in Nat, i \in Ids, o \in Objs, m \in Outputs : At(k, GetLockSurface(i, o, m)) =>
        /\ res[o] # "gone"
        /\ \A j \in Nat, p \in Requests : At(j, Msg(p, o)) => (j < k <=> p = "lock")

-----------------------------------------------------------------------------
(* Configures, acks and frames.                                            *)

Sequenced ==
    \A i \in Ids :
        role[i].acked <= role[i].sent /\ (role[i].state = "none" => role[i].sent = 0)

(* What is on its way is new to the compositor, and in order.              *)
AcksNew ==
    \A k \in Nat, i \in Ids, n \in Serial :
        At(k, AckConfigure(i, n)) => role[i].acked < n /\ n <= role[i].sent

AcksInOrder ==
    \A k, l \in Nat, i \in Ids, n, p \in Serial :
        At(k, AckConfigure(i, n)) /\ At(l, AckConfigure(i, p)) /\ k < l => n < p

ConfiguresNew ==
    \A k \in Nat, i \in Ids, n \in Serial :
        Due(k, Configure(i, n)) => role[i].acked < n /\ n <= role[i].sent

ConfiguresInOrder ==
    \A k, l \in Nat, i \in Ids, n, p \in Serial :
        Due(k, Configure(i, n)) /\ Due(l, Configure(i, p)) /\ k < l => n < p

AcksFirst ==
    \A k, l \in Nat, i \in Ids, n, p \in Serial :
        At(k, AckConfigure(i, n)) /\ Due(l, Configure(i, p)) => n < p

Serials ==
    Sequenced /\ AcksNew /\ AcksInOrder /\ ConfiguresNew /\ ConfiguresInOrder /\ AcksFirst

(* The size n is the last one acked on surface i, on the wire or already   *)
(* known to the compositor.                                                *)
Current(i, n) ==
    /\ role[i].acked = n \/ Asked(AckConfigure(i, n))
    /\ \A k \in Nat, p \in Serial : At(k, AckConfigure(i, p)) => p <= n

(* A commit finds its surface gone, or follows the ack of its size.        *)
CommitsDue ==
    \A k \in Nat, i \in Ids, n \in Serial : At(k, Commit(i, n)) =>
        \/ role[i].state = "gone"
        \/ \E l \in Nat : l < k /\ At(l, DestroySurface(i))
        \/ /\ n # 0
           /\ role[i].acked = n \/ \E l \in Nat : l < k /\ At(l, AckConfigure(i, n))
           /\ \A l \in Nat, p \in Serial : l < k /\ At(l, AckConfigure(i, p)) => p <= n

(* Window w may draw on surface i in size n.                               *)
Drawable(w, i, n) ==
    /\ win[w] = "mapped" /\ data[w] # NULL /\ freeze[w] = 0
    /\ st[data[w]].obj = i /\ st[data[w]].size = n

Thawed ==
    connected => \A w \in Windows, i \in Ids, n \in Serial :
        Drawable(w, i, n) => n # 0 /\ Current(i, n)

Frames == CommitsDue /\ Thawed

DocumentedInv == LockInv /\ SurfaceInv /\ Shape /\ Turns /\ GetsInLock /\ Serials /\ Frames

-----------------------------------------------------------------------------
(* The messages of the two protocols are told apart by their op.           *)

LEMMA SurfaceMessages ==
    /\ \A i, o, m, j, p, q : GetLockSurface(i, o, m) = GetLockSurface(j, p, q) <=> i = j /\ o = p /\ m = q
    /\ \A i, j : DestroySurface(i) = DestroySurface(j) <=> i = j
    /\ \A i, n, j, p : AckConfigure(i, n) = AckConfigure(j, p) <=> i = j /\ n = p
    /\ \A i, n, j, p : Commit(i, n) = Commit(j, p) <=> i = j /\ n = p
    /\ \A i, n, j, p : Configure(i, n) = Configure(j, p) <=> i = j /\ n = p
<1>1. \A i, o, m, j, p, q : GetLockSurface(i, o, m) = GetLockSurface(j, p, q) <=> i = j /\ o = p /\ m = q
  BY DEF GetLockSurface
<1>2. \A i, j : DestroySurface(i) = DestroySurface(j) <=> i = j
  BY DEF DestroySurface
<1>3. \A i, n, j, p : AckConfigure(i, n) = AckConfigure(j, p) <=> i = j /\ n = p
  BY DEF AckConfigure
<1>4. \A i, n, j, p : Commit(i, n) = Commit(j, p) <=> i = j /\ n = p
  BY DEF Commit
<1>5. \A i, n, j, p : Configure(i, n) = Configure(j, p) <=> i = j /\ n = p
  BY DEF Configure
<1> QED BY <1>1, <1>2, <1>3, <1>4, <1>5

LEMMA SurfaceOps ==
    /\ \A i, o, m : GetLockSurface(i, o, m).op = "get_lock_surface"
    /\ \A i : DestroySurface(i).op = "destroy_surface"
    /\ \A i, n : AckConfigure(i, n).op = "ack_configure"
    /\ \A i, n : Commit(i, n).op = "commit"
    /\ \A i, n : Configure(i, n).op = "configure"
    /\ \A p, o : Msg(p, o).op = p
  BY DEF GetLockSurface, DestroySurface, AckConfigure, Commit, Configure, Msg

SurfaceRequests == {"get_lock_surface", "destroy_surface", "ack_configure", "commit"}

-----------------------------------------------------------------------------
(* What is added to a queue comes last, what is taken was first.           *)

LEMMA Added ==
    ASSUME LockTypes, NEW m, toServer' = Append(toServer, m)
    PROVE  \E n \in Nat :
            /\ \A x : \A k \in Nat : At(k, x) => 1 <= k /\ k <= n
            /\ \A x : \A k \in Nat : At(k, x)' <=> At(k, x) \/ (k = n + 1 /\ x = m)
<1>1. /\ Len(toServer') = Len(toServer) + 1 /\ Len(toServer) \in Nat
      /\ \A i \in 1..Len(toServer) : toServer'[i] = toServer[i]
      /\ toServer'[Len(toServer) + 1] = m
  BY Sending
<1>2. PICK n \in Nat : n = Len(toServer)
  BY <1>1
<1>3. \A x : \A k \in Nat : At(k, x) => 1 <= k /\ k <= n
  BY <1>2 DEF At
<1>4. \A x : \A k \in Nat : At(k, x)' <=> At(k, x) \/ (k = n + 1 /\ x = m)
  BY <1>1, <1>2 DEF At
<1> QED BY <1>3, <1>4

LEMMA Taken ==
    ASSUME LockTypes, NEW m, Arrived(m), toServer' = Tail(toServer)
    PROVE  /\ At(1, m)
           /\ \A x : At(1, x) => x = m
           /\ \A x : \A k \in Nat : At(k, x) => 1 <= k
           /\ \A x : \A k \in Nat : At(k, x)' => At(k + 1, x) /\ 1 <= k
           /\ \A x : \A k \in Nat : At(k + 1, x) /\ 1 <= k => At(k, x)'
<1>1. /\ Len(toServer) \in Nat /\ Len(toServer) > 0 /\ Len(toServer') = Len(toServer) - 1
      /\ toServer[1] = m
      /\ \A i \in 1..Len(toServer) - 1 : toServer'[i] = toServer[i + 1]
  BY TakingFirst DEF Arrived
<1>2. At(1, m) /\ \A x : At(1, x) => x = m
  BY <1>1 DEF At
<1>3. \A x : \A k \in Nat : At(k, x) => 1 <= k
  BY <1>1 DEF At
<1>4. \A x : \A k \in Nat : At(k, x)' => At(k + 1, x) /\ 1 <= k
  BY <1>1 DEF At
<1>5. \A x : \A k \in Nat : At(k + 1, x) /\ 1 <= k => At(k, x)'
  BY <1>1 DEF At
<1> QED BY <1>2, <1>3, <1>4, <1>5

LEMMA DueAdded ==
    ASSUME LockTypes, NEW m, toClient' = Append(toClient, m)
    PROVE  \E n \in Nat :
            /\ \A x : \A k \in Nat : Due(k, x) => 1 <= k /\ k <= n
            /\ \A x : \A k \in Nat : Due(k, x)' <=> Due(k, x) \/ (k = n + 1 /\ x = m)
<1>1. /\ Len(toClient') = Len(toClient) + 1 /\ Len(toClient) \in Nat
      /\ \A i \in 1..Len(toClient) : toClient'[i] = toClient[i]
      /\ toClient'[Len(toClient) + 1] = m
  BY Posting
<1>2. PICK n \in Nat : n = Len(toClient)
  BY <1>1
<1>3. \A x : \A k \in Nat : Due(k, x) => 1 <= k /\ k <= n
  BY <1>2 DEF Due
<1>4. \A x : \A k \in Nat : Due(k, x)' <=> Due(k, x) \/ (k = n + 1 /\ x = m)
  BY <1>1, <1>2 DEF Due
<1> QED BY <1>3, <1>4

LEMMA DueTaken ==
    ASSUME LockTypes, NEW m, toClient # <<>>, Head(toClient) = m, toClient' = Tail(toClient)
    PROVE  /\ Due(1, m)
           /\ \A x : Due(1, x) => x = m
           /\ \A x : \A k \in Nat : Due(k, x) => 1 <= k
           /\ \A x : \A k \in Nat : Due(k, x)' => Due(k + 1, x) /\ 1 <= k
           /\ \A x : \A k \in Nat : Due(k + 1, x) /\ 1 <= k => Due(k, x)'
<1>1. /\ Len(toClient) \in Nat /\ Len(toClient) > 0 /\ Len(toClient') = Len(toClient) - 1
      /\ toClient[1] = m
      /\ \A i \in 1..Len(toClient) - 1 : toClient'[i] = toClient[i + 1]
  BY DispatchingFirst
<1>2. Due(1, m) /\ \A x : Due(1, x) => x = m
  BY <1>1 DEF Due
<1>3. \A x : \A k \in Nat : Due(k, x) => 1 <= k
  BY <1>1 DEF Due
<1>4. \A x : \A k \in Nat : Due(k, x)' => Due(k + 1, x) /\ 1 <= k
  BY <1>1 DEF Due
<1>5. \A x : \A k \in Nat : Due(k + 1, x) /\ 1 <= k => Due(k, x)'
  BY <1>1 DEF Due
<1> QED BY <1>2, <1>3, <1>4, <1>5

(* Messages of the ops M keep their places; d is the number of others that *)
(* were taken before them.                                                 *)
ServerShift(d, M) ==
    \A x : x.op \in M => \A k \in Nat : /\ At(k, x)' => At(k + d, x)
                                        /\ At(k, x) => k - d \in Nat /\ At(k - d, x)'

ClientShift(d, M) ==
    \A x : x.op \in M => \A k \in Nat : /\ Due(k, x)' => Due(k + d, x)
                                        /\ Due(k, x) => k - d \in Nat /\ Due(k - d, x)'

(* The struct of a surface keeps its lock and its monitor.                 *)
StructsKept == \A i \in Ids : Made(i) => LockOf(i)' = LockOf(i) /\ MonOf(i)' = MonOf(i)

LEMMA AddedShift ==
    ASSUME LockTypes, NEW m, toServer' = Append(toServer, m), NEW M, m.op \notin M
    PROVE  ServerShift(0, M)
<1>1. PICK n \in Nat : \A x : \A k \in Nat : At(k, x)' <=> At(k, x) \/ (k = n + 1 /\ x = m)
  BY Added
<1> SUFFICES ASSUME NEW x, x.op \in M, NEW k \in Nat
             PROVE  (At(k, x)' => At(k + 0, x)) /\ (At(k, x) => k - 0 \in Nat /\ At(k - 0, x)')
  BY DEF ServerShift
<1>2. x # m /\ k + 0 = k /\ k - 0 = k
  OBVIOUS
<1> QED BY <1>1, <1>2

LEMMA TakenShift ==
    ASSUME LockTypes, NEW m, Arrived(m), toServer' = Tail(toServer), NEW M, m.op \notin M
    PROVE  ServerShift(1, M)
<1> SUFFICES ASSUME NEW x, x.op \in M, NEW k \in Nat
             PROVE  (At(k, x)' => At(k + 1, x)) /\ (At(k, x) => k - 1 \in Nat /\ At(k - 1, x)')
  BY DEF ServerShift
<1>1. x # m /\ (At(k, x) => 1 <= k)
  BY Taken
<1>2. At(k, x)' => At(k + 1, x)
  BY Taken
<1>3. ASSUME At(k, x) PROVE k - 1 \in Nat /\ At(k - 1, x)'
  <2>1. k # 1
    BY <1>1, <1>3, Taken
  <2>2. k - 1 \in Nat /\ 1 <= k - 1 /\ (k - 1) + 1 = k
    BY <1>1, <1>3, <2>1
  <2> QED BY <1>3, <2>2, Taken
<1> QED BY <1>2, <1>3

LEMMA SameShift == toServer' = toServer => \A M : ServerShift(0, M)
<1> SUFFICES ASSUME toServer' = toServer, NEW M, NEW x, x.op \in M, NEW k \in Nat
             PROVE  (At(k, x)' => At(k + 0, x)) /\ (At(k, x) => k - 0 \in Nat /\ At(k - 0, x)')
  BY DEF ServerShift
<1>1. k + 0 = k /\ k - 0 = k
  OBVIOUS
<1> QED BY <1>1 DEF At

LEMMA DueAddedShift ==
    ASSUME LockTypes, NEW m, toClient' = Append(toClient, m), NEW M, m.op \notin M
    PROVE  ClientShift(0, M)
<1>1. PICK n \in Nat : \A x : \A k \in Nat : Due(k, x)' <=> Due(k, x) \/ (k = n + 1 /\ x = m)
  BY DueAdded
<1> SUFFICES ASSUME NEW x, x.op \in M, NEW k \in Nat
             PROVE  (Due(k, x)' => Due(k + 0, x)) /\ (Due(k, x) => k - 0 \in Nat /\ Due(k - 0, x)')
  BY DEF ClientShift
<1>2. x # m /\ k + 0 = k /\ k - 0 = k
  OBVIOUS
<1> QED BY <1>1, <1>2

LEMMA DueTakenShift ==
    ASSUME LockTypes, NEW m, toClient # <<>>, Head(toClient) = m, toClient' = Tail(toClient), NEW M, m.op \notin M
    PROVE  ClientShift(1, M)
<1> SUFFICES ASSUME NEW x, x.op \in M, NEW k \in Nat
             PROVE  (Due(k, x)' => Due(k + 1, x)) /\ (Due(k, x) => k - 1 \in Nat /\ Due(k - 1, x)')
  BY DEF ClientShift
<1>1. x # m /\ (Due(k, x) => 1 <= k)
  BY DueTaken
<1>2. Due(k, x)' => Due(k + 1, x)
  BY DueTaken
<1>3. ASSUME Due(k, x) PROVE k - 1 \in Nat /\ Due(k - 1, x)'
  <2>1. k # 1
    BY <1>1, <1>3, DueTaken
  <2>2. k - 1 \in Nat /\ 1 <= k - 1 /\ (k - 1) + 1 = k
    BY <1>1, <1>3, <2>1
  <2> QED BY <1>3, <2>2, DueTaken
<1> QED BY <1>2, <1>3

LEMMA DueSameShift == toClient' = toClient => \A M : ClientShift(0, M)
<1> SUFFICES ASSUME toClient' = toClient, NEW M, NEW x, x.op \in M, NEW k \in Nat
             PROVE  (Due(k, x)' => Due(k + 0, x)) /\ (Due(k, x) => k - 0 \in Nat /\ Due(k - 0, x)')
  BY DEF ClientShift
<1>1. k + 0 = k /\ k - 0 = k
  OBVIOUS
<1> QED BY <1>1 DEF Due

-----------------------------------------------------------------------------
(* The order of the requests for surfaces and of their end.                *)

LEMMA TurnsShift ==
    ASSUME Turns, NEW d \in {0, 1}, ServerShift(d, {"get_lock_surface", "destroy_surface"}),
           slot' = slot, StructsKept, connected' => connected,
           \A i \in Ids : /\ role'[i].state = role[i].state
                          /\ role'[i].lock = role[i].lock /\ role'[i].out = role[i].out
    PROVE  Turns'
<1>1. \A i, o, m : \A k \in Nat : At(k, GetLockSurface(i, o, m))' => k + d \in Nat /\ At(k + d, GetLockSurface(i, o, m))
  BY SurfaceOps DEF ServerShift
<1>2. \A i : \A k \in Nat : At(k, DestroySurface(i))' => k + d \in Nat /\ At(k + d, DestroySurface(i))
  BY SurfaceOps DEF ServerShift
<1>3. \A i : Asked(DestroySurface(i)) => Asked(DestroySurface(i))'
  BY SurfaceOps DEF ServerShift, Asked
<1>4. \A i \in Ids : Made(i)' <=> Made(i)
  BY DEF Made
<1>5. GetsDue' /\ DestroysDue'
  BY <1>1, <1>2, <1>4 DEF Turns, GetsDue, DestroysDue, StructsKept
<1>6. GetsOnce' /\ GetsFirst'
  BY <1>1, <1>2 DEF Turns, GetsOnce, GetsFirst
<1>7. EndsFirst'
  BY <1>1, <1>2 DEF Turns, EndsFirst
<1>8. NextWaits' /\ RolesMatch'
  BY <1>2, <1>4 DEF Turns, NextWaits, RolesMatch, StructsKept
<1>9. DestroyedAreGone'
  BY <1>3 DEF Turns, DestroyedAreGone
<1> QED BY <1>5, <1>6, <1>7, <1>8, <1>9 DEF Turns

(* A surface is asked for: it is new, and those that had the monitor have  *)
(* been given up before.                                                   *)
LEMMA TurnsGet ==
    ASSUME Turns, LockTypes, NEW i \in Ids, NEW o \in Objs, NEW m \in Outputs,
           toServer' = Append(toServer, GetLockSurface(i, o, m)),
           slot[i].state = "none", slot'[i].state = "live", \A j \in Ids \ {i} : slot'[j] = slot[j],
           o = LockOf(i)', m = MonOf(i)', StructsKept, role' = role, connected' => connected
    PROVE  Turns'
<1>1. PICK n \in Nat :
        /\ \A x : \A k \in Nat : At(k, x) => 1 <= k /\ k <= n
        /\ \A x : \A k \in Nat : At(k, x)' <=> At(k, x) \/ (k = n + 1 /\ x = GetLockSurface(i, o, m))
  BY Added
<1>2. \A j, p, q : \A k \in Nat : At(k, GetLockSurface(j, p, q))' <=>
        At(k, GetLockSurface(j, p, q)) \/ (k = n + 1 /\ j = i /\ p = o /\ q = m)
  BY <1>1, SurfaceMessages
<1>3. \A j : \A k \in Nat : At(k, DestroySurface(j))' <=> At(k, DestroySurface(j))
  <2>1. \A j : DestroySurface(j) # GetLockSurface(i, o, m)
    BY SurfaceOps
  <2> QED BY <1>1, <2>1
<1>4. \A j \in Ids : Made(j)' <=> Made(j) \/ j = i
  BY DEF Made
<1>5. ~Made(i) /\ role[i].state = "none" /\ \A k \in Nat : ~At(k, DestroySurface(i))
  BY DEF Made, Turns, RolesMatch, DestroysDue
<1>6. \A k \in Nat, p \in Objs, q \in Outputs : ~At(k, GetLockSurface(i, p, q))
  BY <1>5 DEF Turns, GetsDue
<1>7. GetsDue' /\ DestroysDue'
  BY <1>2, <1>3, <1>4, <1>5 DEF Turns, GetsDue, DestroysDue, StructsKept
<1>8. GetsOnce' /\ GetsFirst'
  BY <1>2, <1>3, <1>5, <1>6 DEF Turns, GetsOnce, GetsFirst
<1>9. EndsFirst'
  <2> SUFFICES ASSUME NEW k \in Nat, NEW l \in Nat, NEW h \in Ids, NEW j \in Ids, NEW p \in Objs, NEW q \in Outputs,
                      At(k, GetLockSurface(h, p, q))', At(l, DestroySurface(j))',
                      slot'[h].data = slot'[j].data, j < h
               PROVE  l < k
    BY DEF EndsFirst
  <2>1. At(l, DestroySurface(j)) /\ j # i /\ slot'[j] = slot[j]
    BY <1>3, <1>5
  <2>2. CASE At(k, GetLockSurface(h, p, q))
    <3>1. h # i /\ slot'[h] = slot[h]
      BY <1>6, <2>2
    <3> QED BY <2>1, <2>2, <3>1 DEF Turns, EndsFirst
  <2>3. CASE k = n + 1
    BY <1>1, <2>1, <2>3
  <2> QED BY <1>2, <2>2, <2>3
<1>10. NextWaits' /\ RolesMatch'
  BY <1>3, <1>4, <1>5 DEF Turns, NextWaits, RolesMatch, StructsKept
<1>11. DestroyedAreGone'
  BY <1>3 DEF Turns, DestroyedAreGone, Asked
<1> QED BY <1>7, <1>8, <1>9, <1>10, <1>11 DEF Turns

(* A surface is given up: it was the latest of its struct.                 *)
LEMMA TurnsDestroy ==
    ASSUME Turns, LatestLives, LockTypes, NEW i \in Ids,
           toServer' = Append(toServer, DestroySurface(i)),
           slot[i].state = "live",
           \A j \in Ids : /\ slot'[j].data = slot[j].data
                          /\ slot'[j].state = IF j = i THEN "destroyed" ELSE slot[j].state,
           StructsKept, role' = role, connected' => connected, Ids \subseteq Nat
    PROVE  Turns'
<1>1. PICK n \in Nat :
        /\ \A x : \A k \in Nat : At(k, x) => 1 <= k /\ k <= n
        /\ \A x : \A k \in Nat : At(k, x)' <=> At(k, x) \/ (k = n + 1 /\ x = DestroySurface(i))
  BY Added
<1>2. \A j : \A k \in Nat : At(k, DestroySurface(j))' <=> At(k, DestroySurface(j)) \/ (k = n + 1 /\ j = i)
  BY <1>1, SurfaceMessages
<1>3. \A j, p, q : \A k \in Nat : At(k, GetLockSurface(j, p, q))' <=> At(k, GetLockSurface(j, p, q))
  <2>1. \A j, p, q : DestroySurface(i) # GetLockSurface(j, p, q)
    BY SurfaceOps
  <2> QED BY <1>1, <2>1
<1>4. \A j \in Ids : Made(j)' <=> Made(j)
  BY DEF Made
<1>5. \A j \in Ids : Made(j) /\ slot[j].data = slot[i].data => ~(i < j)
  BY DEF LatestLives
<1>6. GetsDue' /\ DestroysDue'
  BY <1>2, <1>3, <1>4 DEF Turns, GetsDue, DestroysDue, StructsKept
<1>7. GetsOnce' /\ GetsFirst'
  <2>1. GetsOnce'
    BY <1>3 DEF Turns, GetsOnce
  <2>2. \A j, p, q : \A k \in Nat : At(k, GetLockSurface(j, p, q)) => k < n + 1
    BY <1>1
  <2>3. GetsFirst'
    BY <1>2, <1>3, <2>2 DEF Turns, GetsFirst
  <2> QED BY <2>1, <2>3
<1>8. EndsFirst'
  <2> SUFFICES ASSUME NEW k \in Nat, NEW l \in Nat, NEW h \in Ids, NEW j \in Ids, NEW p \in Objs, NEW q \in Outputs,
                      At(k, GetLockSurface(h, p, q)), At(l, DestroySurface(j))',
                      slot[h].data = slot[j].data, j < h
               PROVE  l < k
    BY <1>3 DEF EndsFirst
  <2>1. CASE At(l, DestroySurface(j))
    BY <2>1 DEF Turns, EndsFirst
  <2>2. CASE j = i
    BY <1>5, <2>2 DEF Turns, GetsDue
  <2> QED BY <1>2, <2>1, <2>2
<1>9. NextWaits' /\ RolesMatch'
  <2>1. ASSUME NEW l \in Nat, NEW h \in Ids, NEW j \in Ids, At(l, DestroySurface(j))', Made(h),
               slot[h].data = slot[j].data, j < h
        PROVE  role[h].state # "bound"
    <3>1. CASE At(l, DestroySurface(j))
      BY <2>1, <3>1 DEF Turns, NextWaits
    <3>2. CASE j = i
      BY <1>5, <2>1, <3>2
    <3> QED BY <1>2, <2>1, <3>1, <3>2
  <2>2. NextWaits'
    BY <1>4, <2>1 DEF NextWaits
  <2> QED BY <1>4, <2>2 DEF Turns, RolesMatch, StructsKept
<1>10. DestroyedAreGone'
  <2>1. Asked(DestroySurface(i))' /\ \A j \in Ids : Asked(DestroySurface(j)) => Asked(DestroySurface(j))'
    BY <1>2 DEF Asked
  <2> QED BY <2>1 DEF Turns, DestroyedAreGone
<1> QED BY <1>6, <1>7, <1>8, <1>9, <1>10 DEF Turns

(* The compositor reads a request for a surface: whatever had the monitor  *)
(* before has been given up, and read.                                     *)
LEMMA TurnsTakeGet ==
    ASSUME Turns, LockTypes, NEW i \in Ids, NEW o \in Objs, NEW m \in Outputs,
           Arrived(GetLockSurface(i, o, m)), toServer' = Tail(toServer),
           role'[i].state \in {"bound", "inert"}, role'[i].lock = o, role'[i].out = m,
           \A j \in Ids \ {i} : role'[j] = role[j],
           UNCHANGED <<slot, st, connected>>
    PROVE  Turns'
<1>0. ServerShift(1, SurfaceRequests \ {"get_lock_surface"})
  BY TakenShift, SurfaceOps
<1>1. At(1, GetLockSurface(i, o, m))
  BY Taken
<1>2. \A j, p, q : \A k \in Nat : At(k, GetLockSurface(j, p, q))' =>
        k + 1 \in Nat /\ 1 <= k /\ At(k + 1, GetLockSurface(j, p, q))
  BY Taken
<1>3. \A j : \A k \in Nat : At(k, DestroySurface(j))' => k + 1 \in Nat /\ At(k + 1, DestroySurface(j))
  BY Taken
<1>4. \A j \in Ids : Asked(DestroySurface(j)) => Asked(DestroySurface(j))'
  BY <1>0, SurfaceOps DEF ServerShift, Asked, SurfaceRequests
<1>5. /\ \A j \in Ids : Made(j)' <=> Made(j)
      /\ \A j \in Ids : LockOf(j)' = LockOf(j) /\ MonOf(j)' = MonOf(j)
  BY DEF Made, LockOf, MonOf
<1>6. Made(i) /\ role[i].state = "none" /\ o = LockOf(i) /\ m = MonOf(i)
  BY <1>1 DEF Turns, GetsDue
<1>7. \A k \in Nat, p \in Objs, q \in Outputs : ~At(k, GetLockSurface(i, p, q))'
  BY <1>1, <1>2 DEF Turns, GetsOnce
<1>8. GetsDue' /\ DestroysDue'
  BY <1>2, <1>3, <1>5, <1>7 DEF Turns, GetsDue, DestroysDue
<1>9. GetsOnce' /\ GetsFirst' /\ EndsFirst'
  BY <1>2, <1>3 DEF Turns, GetsOnce, GetsFirst, EndsFirst
<1>10. NextWaits'
  <2> SUFFICES ASSUME NEW l \in Nat, NEW h \in Ids, NEW j \in Ids, At(l, DestroySurface(j))', Made(h)',
                      slot'[h].data = slot'[j].data, j < h
               PROVE  role'[h].state # "bound"
    BY DEF NextWaits
  <2>1. CASE h = i
    <3>1. l + 1 < 1
      BY <1>1, <1>3, <2>1 DEF Turns, EndsFirst
    <3> QED BY <3>1
  <2>2. CASE h # i
    BY <1>3, <1>5, <2>2 DEF Turns, NextWaits
  <2> QED BY <2>1, <2>2
<1>11. RolesMatch'
  BY <1>5, <1>6 DEF Turns, RolesMatch
<1>12. DestroyedAreGone'
  BY <1>4, <1>6 DEF Turns, DestroyedAreGone
<1> QED BY <1>8, <1>9, <1>10, <1>11, <1>12 DEF Turns

LEMMA TurnsTakeDestroy ==
    ASSUME Turns, LockTypes, NEW i \in Ids,
           Arrived(DestroySurface(i)), toServer' = Tail(toServer),
           role'[i].state = "gone", \A j \in Ids \ {i} : role'[j] = role[j],
           UNCHANGED <<slot, st, connected>>
    PROVE  Turns'
<1>1. At(1, DestroySurface(i)) /\ \A j : At(1, DestroySurface(j)) => j = i
  BY Taken, SurfaceMessages
<1>2. \A j, p, q : \A k \in Nat : At(k, GetLockSurface(j, p, q))' =>
        k + 1 \in Nat /\ 1 <= k /\ At(k + 1, GetLockSurface(j, p, q))
  BY Taken
<1>3. \A j : \A k \in Nat : At(k, DestroySurface(j))' => k + 1 \in Nat /\ At(k + 1, DestroySurface(j))
  BY Taken
<1>4. ASSUME NEW j \in Ids, j # i, Asked(DestroySurface(j)) PROVE Asked(DestroySurface(j))'
  <2>1. PICK k \in Nat : At(k, DestroySurface(j)) /\ 1 <= k /\ k # 1
    BY <1>1, <1>4, Taken DEF Asked
  <2>2. k - 1 \in Nat /\ (k - 1) + 1 = k /\ 1 <= k - 1
    BY <2>1
  <2>3. At(k - 1, DestroySurface(j))'
    BY <2>1, <2>2, Taken
  <2> QED BY <2>2, <2>3 DEF Asked
<1>5. /\ \A j \in Ids : Made(j)' <=> Made(j)
      /\ \A j \in Ids : LockOf(j)' = LockOf(j) /\ MonOf(j)' = MonOf(j)
  BY DEF Made, LockOf, MonOf
<1>6. Made(i)
  BY <1>1 DEF Turns, DestroysDue, Made
<1>7. \A k \in Nat, p \in Objs, q \in Outputs : ~At(k, GetLockSurface(i, p, q))'
  BY <1>1, <1>2 DEF Turns, GetsFirst
<1>8. GetsDue'
  <2> SUFFICES ASSUME NEW k \in Nat, NEW j \in Ids, NEW o \in Objs, NEW m \in Outputs,
                      At(k, GetLockSurface(j, o, m))'
               PROVE  Made(j)' /\ role'[j].state = "none" /\ o = LockOf(j)' /\ m = MonOf(j)'
    BY DEF GetsDue
  <2>1. j # i
    BY <1>7
  <2>2. k + 1 \in Nat /\ At(k + 1, GetLockSurface(j, o, m))
    BY <1>2
  <2>3. Made(j) /\ role[j].state = "none" /\ o = LockOf(j) /\ m = MonOf(j)
    BY <2>2 DEF Turns, GetsDue
  <2> QED BY <1>5, <2>1, <2>3
<1>9. DestroysDue'
  <2> SUFFICES ASSUME NEW k \in Nat, NEW j \in Ids, At(k, DestroySurface(j))'
               PROVE  slot'[j].state = "destroyed"
    BY DEF DestroysDue
  <2>1. k + 1 \in Nat /\ At(k + 1, DestroySurface(j))
    BY <1>3
  <2> QED BY <2>1 DEF Turns, DestroysDue
<1>10. GetsOnce' /\ GetsFirst'
  BY <1>2, <1>3 DEF Turns, GetsOnce, GetsFirst
<1>11. EndsFirst'
  BY <1>2, <1>3 DEF Turns, EndsFirst
<1>12. NextWaits'
  BY <1>3, <1>5, <1>6 DEF Turns, NextWaits
<1>13. RolesMatch'
  BY <1>5, <1>6 DEF Turns, RolesMatch
<1>14. DestroyedAreGone'
  BY <1>4 DEF Turns, DestroyedAreGone
<1> QED BY <1>8, <1>9, <1>10, <1>11, <1>12, <1>13, <1>14 DEF Turns

-----------------------------------------------------------------------------
(* The lock of a surface.                                                  *)

LEMMA GetsInLockShift ==
    ASSUME GetsInLock, NEW d \in {0, 1},
           \A i, o, m : \A k \in Nat : At(k, GetLockSurface(i, o, m))' => At(k + d, GetLockSurface(i, o, m)),
           \A p \in Requests : \A o : \A k \in Nat : At(k, Msg(p, o))' => At(k + d, Msg(p, o)),
           \A o \in Objs : res'[o] = "gone" => res[o] = "gone"
    PROVE  GetsInLock'
<1> SUFFICES ASSUME NEW k \in Nat, NEW i \in Ids, NEW o \in Objs, NEW m \in Outputs,
                    At(k, GetLockSurface(i, o, m))'
             PROVE  /\ res'[o] # "gone"
                    /\ \A j \in Nat, p \in Requests : At(j, Msg(p, o))' => (j < k <=> p = "lock")
  BY DEF GetsInLock
<1>1. k + d \in Nat /\ At(k + d, GetLockSurface(i, o, m))
  OBVIOUS
<1>2. ASSUME NEW j \in Nat, NEW p \in Requests, At(j, Msg(p, o))' PROVE j < k <=> p = "lock"
  <2>1. j + d \in Nat /\ At(j + d, Msg(p, o))
    BY <1>2
  <2> QED BY <1>1, <2>1 DEF GetsInLock
<1> QED BY <1>1, <1>2 DEF GetsInLock

LEMMA GetsInLockGet ==
    ASSUME GetsInLock, LockTypes, NEW i \in Ids, NEW o \in Objs, NEW m \in Outputs,
           toServer' = Append(toServer, GetLockSurface(i, o, m)),
           res[o] # "gone", \A k \in Nat, p \in Requests : At(k, Msg(p, o)) => p = "lock",
           res' = res
    PROVE  GetsInLock'
<1>1. PICK n \in Nat :
        /\ \A x : \A k \in Nat : At(k, x) => 1 <= k /\ k <= n
        /\ \A x : \A k \in Nat : At(k, x)' <=> At(k, x) \/ (k = n + 1 /\ x = GetLockSurface(i, o, m))
  BY Added
<1>2. \A j, p, q : \A k \in Nat : At(k, GetLockSurface(j, p, q))' <=>
        At(k, GetLockSurface(j, p, q)) \/ (k = n + 1 /\ j = i /\ p = o /\ q = m)
  BY <1>1, SurfaceMessages
<1>3. \A p \in Requests : \A q : \A k \in Nat : At(k, Msg(p, q))' <=> At(k, Msg(p, q))
  <2>1. \A p \in Requests : \A q : Msg(p, q) # GetLockSurface(i, o, m)
    BY SurfaceOps DEF Requests
  <2> QED BY <1>1, <2>1
<1> QED BY <1>1, <1>2, <1>3 DEF GetsInLock

(* The lock's own requests, written ...                                    *)
LEMMA GetsInLockSend ==
    ASSUME GetsInLock, GetsDue, LiveStructs, StructLock, LockTypes,
           NEW p \in Requests, NEW o \in Objs \cup {NULL},
           toServer' = Append(toServer, Msg(p, o)), p = "lock" => o \in Objs /\ proxy[o] = "none",
           res' = res
    PROVE  GetsInLock'
<1>1. PICK n \in Nat :
        /\ \A x : \A k \in Nat : At(k, x) => 1 <= k /\ k <= n
        /\ \A x : \A k \in Nat : At(k, x)' <=> At(k, x) \/ (k = n + 1 /\ x = Msg(p, o))
  BY Added
<1>2. \A j, r, q : \A k \in Nat : At(k, GetLockSurface(j, r, q))' <=> At(k, GetLockSurface(j, r, q))
  <2>1. \A j, r, q : Msg(p, o) # GetLockSurface(j, r, q)
    BY SurfaceOps DEF Requests
  <2> QED BY <1>1, <2>1
<1>3. \A r, q : \A k \in Nat : At(k, Msg(r, q))' <=> At(k, Msg(r, q)) \/ (k = n + 1 /\ r = p /\ q = o)
  BY <1>1, MsgFields
<1> SUFFICES ASSUME NEW k \in Nat, NEW i \in Ids, NEW q \in Objs, NEW m \in Outputs,
                    At(k, GetLockSurface(i, q, m))
             PROVE  \A j \in Nat, r \in Requests : At(j, Msg(r, q))' => (j < k <=> r = "lock")
  BY <1>2 DEF GetsInLock
<1>4. proxy[q] # "none"
  BY DEF GetsDue, LiveStructs, StructLock, LockOf
<1>5. 1 <= k /\ k <= n
  BY <1>1
<1> QED BY <1>3, <1>4, <1>5 DEF GetsInLock

(* ... and read.                                                           *)
LEMMA GetsInLockRead ==
    ASSUME GetsInLock, LockTypes, NEW p \in Requests, NEW o \in Objs \cup {NULL}, Reading(p, o),
           \A q \in Objs : res'[q] = "gone" => res[q] = "gone" \/ (q = o /\ p # "lock")
    PROVE  GetsInLock'
<1>1. Arrived(Msg(p, o)) /\ toServer' = Tail(toServer)
  BY DEF Reading
<1>2. At(1, Msg(p, o)) /\ \A x : \A k \in Nat : At(k, x)' => At(k + 1, x) /\ 1 <= k
  BY <1>1, Taken
<1> SUFFICES ASSUME NEW k \in Nat, NEW i \in Ids, NEW q \in Objs, NEW m \in Outputs,
                    At(k, GetLockSurface(i, q, m))'
             PROVE  /\ res'[q] # "gone"
                    /\ \A j \in Nat, r \in Requests : At(j, Msg(r, q))' => (j < k <=> r = "lock")
  BY DEF GetsInLock
<1>3. k + 1 \in Nat /\ At(k + 1, GetLockSurface(i, q, m)) /\ 1 <= k
  BY <1>2
<1>4. q = o => p = "lock"
  BY <1>2, <1>3 DEF GetsInLock
<1>5. ASSUME NEW j \in Nat, NEW r \in Requests, At(j, Msg(r, q))' PROVE j < k <=> r = "lock"
  <2>1. j + 1 \in Nat /\ At(j + 1, Msg(r, q))
    BY <1>2, <1>5
  <2> QED BY <1>3, <2>1 DEF GetsInLock
<1> QED BY <1>3, <1>4, <1>5 DEF GetsInLock
-----------------------------------------------------------------------------
(* Configures and their acks.                                              *)

LEMMA RoleNumbers == SurfaceTypeOK => \A i \in Ids : role[i].sent \in Nat /\ role[i].acked \in Nat
  BY SerialTypes DEF SurfaceTypeOK, RoleRecords

LEMMA SerialsShift ==
    ASSUME Serials, NEW d \in {0, 1}, NEW e \in {0, 1},
           \A i, n : \A k \in Nat : At(k, AckConfigure(i, n))' => At(k + d, AckConfigure(i, n)),
           \A i, n : \A k \in Nat : Due(k, Configure(i, n))' => Due(k + e, Configure(i, n)),
           \A i \in Ids : /\ role'[i].acked = role[i].acked /\ role'[i].sent = role[i].sent
                          /\ role'[i].state = "none" => role[i].state = "none"
    PROVE  Serials'
<1>1. Sequenced'
  BY DEF Serials, Sequenced
<1>2. \A k \in Nat : k + d \in Nat /\ k + e \in Nat
  OBVIOUS
<1>3. \A k, l \in Nat : k < l => k + d < l + d /\ k + e < l + e
  OBVIOUS
<1>4. AcksNew' /\ AcksInOrder'
  BY <1>2, <1>3 DEF Serials, AcksNew, AcksInOrder
<1>5. ConfiguresNew' /\ ConfiguresInOrder'
  BY <1>2, <1>3 DEF Serials, ConfiguresNew, ConfiguresInOrder
<1>6. AcksFirst'
  BY <1>2 DEF Serials, AcksFirst
<1> QED BY <1>1, <1>4, <1>5, <1>6 DEF Serials

(* A configure is dispatched and acked: its serial is newer than those     *)
(* acked so far, older than those to come.                                 *)
LEMMA SerialsAck ==
    ASSUME Serials, LockTypes, NEW i \in Ids, NEW n \in Serial,
           toClient # <<>>, Head(toClient) = Configure(i, n), toClient' = Tail(toClient),
           toServer' = Append(toServer, AckConfigure(i, n)), role' = role
    PROVE  Serials'
<1>1. PICK z \in Nat :
        /\ \A x : \A k \in Nat : At(k, x) => 1 <= k /\ k <= z
        /\ \A x : \A k \in Nat : At(k, x)' <=> At(k, x) \/ (k = z + 1 /\ x = AckConfigure(i, n))
  BY Added
<1>2. \A j, p : \A k \in Nat : At(k, AckConfigure(j, p))' <=>
        At(k, AckConfigure(j, p)) \/ (k = z + 1 /\ j = i /\ p = n)
  BY <1>1, SurfaceMessages
<1>3. Due(1, Configure(i, n))
  BY DueTaken
<1>4. \A j, p : \A k \in Nat : Due(k, Configure(j, p))' => k + 1 \in Nat /\ 1 < k + 1 /\ Due(k + 1, Configure(j, p))
  BY DueTaken
<1>5. /\ role[i].acked < n /\ n <= role[i].sent
      /\ \A k \in Nat, p \in Serial : At(k, AckConfigure(i, p)) => p < n
      /\ \A k \in Nat, p \in Serial : Due(k, Configure(i, p))' => n < p
  <2>1. role[i].acked < n /\ n <= role[i].sent
    BY <1>3 DEF Serials, ConfiguresNew
  <2>2. \A k \in Nat, p \in Serial : At(k, AckConfigure(i, p)) => p < n
    BY <1>3 DEF Serials, AcksFirst
  <2>3. \A k \in Nat, p \in Serial : Due(k, Configure(i, p))' => n < p
    BY <1>3, <1>4 DEF Serials, ConfiguresInOrder
  <2> QED BY <2>1, <2>2, <2>3
<1>6. Sequenced'
  BY DEF Serials, Sequenced
<1>7. AcksNew' /\ AcksInOrder'
  <2>1. \A j, p : \A k \in Nat : At(k, AckConfigure(j, p)) => k < z + 1
    BY <1>1
  <2>2. AcksNew'
    BY <1>2, <1>5 DEF Serials, AcksNew
  <2> SUFFICES ASSUME NEW k \in Nat, NEW l \in Nat, NEW j \in Ids, NEW p \in Serial, NEW q \in Serial,
                      At(k, AckConfigure(j, p))', At(l, AckConfigure(j, q))', k < l
               PROVE  p < q
    BY <2>2 DEF AcksInOrder
  <2>3. At(k, AckConfigure(j, p))
    BY <1>2, <2>1
  <2>4. CASE At(l, AckConfigure(j, q))
    BY <2>3, <2>4 DEF Serials, AcksInOrder
  <2>5. CASE j = i /\ q = n
    BY <1>5, <2>3, <2>5
  <2> QED BY <1>2, <2>4, <2>5
<1>8. ConfiguresNew' /\ ConfiguresInOrder'
  BY <1>4 DEF Serials, ConfiguresNew, ConfiguresInOrder
<1>9. AcksFirst'
  <2> SUFFICES ASSUME NEW k \in Nat, NEW l \in Nat, NEW j \in Ids, NEW p \in Serial, NEW q \in Serial,
                      At(k, AckConfigure(j, p))', Due(l, Configure(j, q))'
               PROVE  p < q
    BY DEF AcksFirst
  <2>1. CASE At(k, AckConfigure(j, p))
    BY <1>4, <2>1 DEF Serials, AcksFirst
  <2>2. CASE j = i /\ p = n
    BY <1>5, <2>2
  <2> QED BY <1>2, <2>1, <2>2
<1> QED BY <1>6, <1>7, <1>8, <1>9 DEF Serials

(* The compositor reads an ack.                                            *)
LEMMA SerialsTakeAck ==
    ASSUME Serials, LockTypes, NEW i \in Ids, NEW n \in Serial,
           Arrived(AckConfigure(i, n)), toServer' = Tail(toServer), toClient' = toClient,
           role'[i].acked = n, role'[i].sent = role[i].sent, role'[i].state = role[i].state,
           \A j \in Ids \ {i} : role'[j] = role[j]
    PROVE  Serials'
<1>1. At(1, AckConfigure(i, n))
  BY Taken
<1>2. \A j, p : \A k \in Nat : At(k, AckConfigure(j, p))' => k + 1 \in Nat /\ 1 < k + 1 /\ At(k + 1, AckConfigure(j, p))
  BY Taken
<1>3. role[i].acked < n /\ n <= role[i].sent
  BY <1>1 DEF Serials, AcksNew
<1>4. \A k \in Nat, p \in Serial : At(k, AckConfigure(i, p))' => n < p
  BY <1>1, <1>2 DEF Serials, AcksInOrder
<1>5. \A k \in Nat, p \in Serial : Due(k, Configure(i, p)) => n < p
  BY <1>1 DEF Serials, AcksFirst
<1>6. \A k, x : Due(k, x)' <=> Due(k, x)
  BY DEF Due
<1>7. Sequenced'
  BY <1>3 DEF Serials, Sequenced
<1>8. AcksNew'
  BY <1>2, <1>3, <1>4 DEF Serials, AcksNew
<1>9. AcksInOrder'
  <2>1. \A k, l \in Nat : k < l => k + 1 < l + 1
    OBVIOUS
  <2> QED BY <1>2, <2>1 DEF Serials, AcksInOrder
<1>10. ConfiguresNew' /\ ConfiguresInOrder'
  BY <1>3, <1>5, <1>6 DEF Serials, ConfiguresNew, ConfiguresInOrder
<1>11. AcksFirst'
  BY <1>2, <1>6 DEF Serials, AcksFirst
<1> QED BY <1>7, <1>8, <1>9, <1>10, <1>11 DEF Serials

(* The compositor sends a configure, with the next serial of its surface.  *)
LEMMA SerialsConfigure ==
    ASSUME Serials, LockTypes, SurfaceTypeOK, NEW d \in {0, 1}, NEW i \in Ids, NEW n \in Serial,
           \A j, p : \A k \in Nat : At(k, AckConfigure(j, p))' => At(k + d, AckConfigure(j, p)),
           toClient' = Append(toClient, Configure(i, n)),
           n = role[i].sent + 1,
           role'[i].acked = role[i].acked, role'[i].sent = n, role'[i].state # "none",
           \A j \in Ids \ {i} : role'[j] = role[j]
    PROVE  Serials'
<1>1. PICK z \in Nat :
        /\ \A x : \A k \in Nat : Due(k, x) => 1 <= k /\ k <= z
        /\ \A x : \A k \in Nat : Due(k, x)' <=> Due(k, x) \/ (k = z + 1 /\ x = Configure(i, n))
  BY DueAdded
<1>2. \A j, p : \A k \in Nat : Due(k, Configure(j, p))' <=>
        Due(k, Configure(j, p)) \/ (k = z + 1 /\ j = i /\ p = n)
  BY <1>1, SurfaceMessages
<1>3. \A j, p : \A k \in Nat : Due(k, Configure(j, p)) => k < z + 1
  BY <1>1
<1>4. \A k, l \in Nat : k + d \in Nat /\ (k < l => k + d < l + d)
  OBVIOUS
<1>5. /\ role[i].acked \in Nat /\ role[i].sent \in Nat /\ Serial \subseteq Nat
      /\ role[i].acked <= role[i].sent
  BY RoleNumbers, SerialTypes DEF Serials, Sequenced
<1>6. /\ \A k \in Nat, p \in Serial : Due(k, Configure(i, p)) => p < n
      /\ \A k \in Nat, p \in Serial : At(k, AckConfigure(i, p)) => p < n
  BY <1>5 DEF Serials, ConfiguresNew, AcksNew
<1>7. Sequenced'
  BY <1>5 DEF Serials, Sequenced
<1>8. AcksNew'
  <2> SUFFICES ASSUME NEW k \in Nat, NEW j \in Ids, NEW p \in Serial, At(k, AckConfigure(j, p))'
               PROVE  role'[j].acked < p /\ p <= role'[j].sent
    BY DEF AcksNew
  <2>1. role[j].acked < p /\ p <= role[j].sent
    BY <1>4 DEF Serials, AcksNew
  <2> QED BY <1>5, <2>1
<1>9. AcksInOrder'
  BY <1>4 DEF Serials, AcksInOrder
<1>10. ConfiguresNew'
  BY <1>2, <1>5 DEF Serials, ConfiguresNew
<1>11. ConfiguresInOrder'
  <2> SUFFICES ASSUME NEW k \in Nat, NEW l \in Nat, NEW j \in Ids, NEW p \in Serial, NEW q \in Serial,
                      Due(k, Configure(j, p))', Due(l, Configure(j, q))', k < l
               PROVE  p < q
    BY DEF ConfiguresInOrder
  <2>1. Due(k, Configure(j, p))
    BY <1>2, <1>3
  <2>2. CASE Due(l, Configure(j, q))
    BY <2>1, <2>2 DEF Serials, ConfiguresInOrder
  <2>3. CASE j = i /\ q = n
    BY <1>6, <2>1, <2>3
  <2> QED BY <1>2, <2>2, <2>3
<1>12. AcksFirst'
  <2> SUFFICES ASSUME NEW k \in Nat, NEW l \in Nat, NEW j \in Ids, NEW p \in Serial, NEW q \in Serial,
                      At(k, AckConfigure(j, p))', Due(l, Configure(j, q))'
               PROVE  p < q
    BY DEF AcksFirst
  <2>1. k + d \in Nat /\ At(k + d, AckConfigure(j, p))
    BY <1>4
  <2>2. CASE Due(l, Configure(j, q))
    BY <2>1, <2>2 DEF Serials, AcksFirst
  <2>3. CASE j = i /\ q = n
    BY <1>6, <2>1, <2>3
  <2> QED BY <1>2, <2>2, <2>3
<1> QED BY <1>7, <1>8, <1>9, <1>10, <1>11, <1>12 DEF Serials

-----------------------------------------------------------------------------
(* Frames.                                                                 *)

LEMMA FramesShift ==
    ASSUME Frames, NEW d \in {0, 1}, ServerShift(d, {"ack_configure"}),
           \A i, n : \A k \in Nat : At(k, Commit(i, n))' => At(k + d, Commit(i, n)),
           \A i : \A k \in Nat : At(k, DestroySurface(i)) => k - d \in Nat /\ At(k - d, DestroySurface(i))',
           \A i \in Ids : /\ role'[i].acked = role[i].acked
                          /\ role[i].state = "gone" => role'[i].state = "gone",
           connected' => connected,
           \A w \in Windows, i \in Ids, n \in Serial : Drawable(w, i, n)' => Drawable(w, i, n)
    PROVE  Frames'
<1>1. \A i, n : \A k \in Nat : At(k, AckConfigure(i, n))' => k + d \in Nat /\ At(k + d, AckConfigure(i, n))
  BY SurfaceOps DEF ServerShift
<1>2. \A i, n : \A k \in Nat : At(k, AckConfigure(i, n)) => k - d \in Nat /\ At(k - d, AckConfigure(i, n))'
  BY SurfaceOps DEF ServerShift
<1>3. CommitsDue'
  <2> SUFFICES ASSUME NEW k \in Nat, NEW i \in Ids, NEW n \in Serial, At(k, Commit(i, n))',
                      role'[i].state # "gone",
                      ~ \E l \in Nat : l < k /\ At(l, DestroySurface(i))'
               PROVE  /\ n # 0
                      /\ role'[i].acked = n \/ \E l \in Nat : l < k /\ At(l, AckConfigure(i, n))'
                      /\ \A l \in Nat, p \in Serial : l < k /\ At(l, AckConfigure(i, p))' => p <= n
    BY DEF CommitsDue
  <2>1. k + d \in Nat /\ At(k + d, Commit(i, n)) /\ role[i].state # "gone"
    OBVIOUS
  <2>2. ASSUME NEW l \in Nat, l < k + d, At(l, DestroySurface(i)) PROVE FALSE
    <3>1. l - d \in Nat /\ At(l - d, DestroySurface(i))' /\ l - d < k
      BY <2>2
    <3> QED BY <3>1
  <2>3. /\ n # 0
        /\ role[i].acked = n \/ \E l \in Nat : l < k + d /\ At(l, AckConfigure(i, n))
        /\ \A l \in Nat, p \in Serial : l < k + d /\ At(l, AckConfigure(i, p)) => p <= n
    BY <2>1, <2>2 DEF Frames, CommitsDue
  <2>4. ASSUME NEW l \in Nat, l < k + d, At(l, AckConfigure(i, n))
        PROVE  \E j \in Nat : j < k /\ At(j, AckConfigure(i, n))'
    <3>1. l - d \in Nat /\ At(l - d, AckConfigure(i, n))' /\ l - d < k
      BY <1>2, <2>4
    <3> QED BY <3>1
  <2>5. ASSUME NEW l \in Nat, NEW p \in Serial, l < k, At(l, AckConfigure(i, p))' PROVE p <= n
    <3>1. l + d \in Nat /\ At(l + d, AckConfigure(i, p)) /\ l + d < k + d
      BY <1>1, <2>5
    <3> QED BY <2>3, <3>1
  <2> QED BY <2>3, <2>4, <2>5
<1>4. \A i \in Ids, n \in Serial : Current(i, n) => Current(i, n)'
  <2>1. \A i, n : Asked(AckConfigure(i, n)) => Asked(AckConfigure(i, n))'
    BY <1>2 DEF Asked
  <2> QED BY <1>1, <2>1 DEF Current
<1>5. Thawed'
  BY <1>4 DEF Frames, Thawed
<1> QED BY <1>3, <1>5 DEF Frames

(* A configure is acked: the window it belongs to draws in its size from   *)
(* now on.                                                                 *)
LEMMA FramesAck ==
    ASSUME Frames, LockTypes, NEW i \in Ids, NEW n \in Serial,
           toServer' = Append(toServer, AckConfigure(i, n)), role' = role, connected' = connected,
           n # 0, \A k \in Nat, p \in Serial : At(k, AckConfigure(i, p)) => p <= n,
           \A w \in Windows, j \in Ids, p \in Serial : Drawable(w, j, p)' =>
                IF j = i THEN p = n ELSE Drawable(w, j, p)
    PROVE  Frames'
<1>1. PICK z \in Nat :
        /\ \A x : \A k \in Nat : At(k, x) => 1 <= k /\ k <= z
        /\ \A x : \A k \in Nat : At(k, x)' <=> At(k, x) \/ (k = z + 1 /\ x = AckConfigure(i, n))
  BY Added
<1>2. \A j, p : \A k \in Nat : At(k, AckConfigure(j, p))' <=>
        At(k, AckConfigure(j, p)) \/ (k = z + 1 /\ j = i /\ p = n)
  BY <1>1, SurfaceMessages
<1>3. /\ \A j, p : \A k \in Nat : At(k, Commit(j, p))' <=> At(k, Commit(j, p))
      /\ \A j : \A k \in Nat : At(k, DestroySurface(j))' <=> At(k, DestroySurface(j))
  <2>1. \A j, p : Commit(j, p) # AckConfigure(i, n) /\ DestroySurface(j) # AckConfigure(i, n)
    BY SurfaceOps
  <2> QED BY <1>1, <2>1
<1>4. \A j, p : \A k, l \in Nat : At(k, Commit(j, p)) /\ l < k => l # z + 1
  BY <1>1
<1>5. CommitsDue'
  BY <1>2, <1>3, <1>4 DEF Frames, CommitsDue
<1>6. Current(i, n)'
  <2>1. Asked(AckConfigure(i, n))'
    BY <1>2 DEF Asked
  <2> QED BY <1>2, <2>1, SerialTypes DEF Current
<1>7. ASSUME NEW j \in Ids, NEW p \in Serial, j # i, Current(j, p) PROVE Current(j, p)'
  <2>1. Asked(AckConfigure(j, p)) => Asked(AckConfigure(j, p))'
    BY <1>2 DEF Asked
  <2> QED BY <1>2, <1>7, <2>1 DEF Current
<1>8. Thawed'
  BY <1>6, <1>7 DEF Frames, Thawed
<1> QED BY <1>5, <1>8 DEF Frames

(* A frame is committed.                                                   *)
LEMMA FramesCommit ==
    ASSUME Frames, LockTypes, NEW i \in Ids, NEW n \in Serial,
           toServer' = Append(toServer, Commit(i, n)), role' = role, connected' = connected,
           (n # 0 /\ Current(i, n)) \/ role[i].state = "gone" \/ Asked(DestroySurface(i)),
           \A w \in Windows, j \in Ids, p \in Serial : Drawable(w, j, p)' => Drawable(w, j, p)
    PROVE  Frames'
<1>1. PICK z \in Nat :
        /\ \A x : \A k \in Nat : At(k, x) => 1 <= k /\ k <= z
        /\ \A x : \A k \in Nat : At(k, x)' <=> At(k, x) \/ (k = z + 1 /\ x = Commit(i, n))
  BY Added
<1>2. \A j, p : \A k \in Nat : At(k, Commit(j, p))' <=>
        At(k, Commit(j, p)) \/ (k = z + 1 /\ j = i /\ p = n)
  BY <1>1, SurfaceMessages
<1>3. /\ \A j, p : \A k \in Nat : At(k, AckConfigure(j, p))' <=> At(k, AckConfigure(j, p))
      /\ \A j : \A k \in Nat : At(k, DestroySurface(j))' <=> At(k, DestroySurface(j))
  <2>1. \A j, p : AckConfigure(j, p) # Commit(i, n) /\ DestroySurface(j) # Commit(i, n)
    BY SurfaceOps
  <2> QED BY <1>1, <2>1
<1>4. /\ \A j, p : \A k \in Nat : At(k, AckConfigure(j, p)) => k < z + 1
      /\ \A j : \A k \in Nat : At(k, DestroySurface(j)) => k < z + 1
  BY <1>1
<1>5. CommitsDue'
  <2> SUFFICES ASSUME NEW k \in Nat, NEW j \in Ids, NEW p \in Serial, At(k, Commit(j, p))'
               PROVE  \/ role[j].state = "gone"
                      \/ \E l \in Nat : l < k /\ At(l, DestroySurface(j))
                      \/ /\ p # 0
                         /\ role[j].acked = p \/ \E l \in Nat : l < k /\ At(l, AckConfigure(j, p))
                         /\ \A l \in Nat, q \in Serial : l < k /\ At(l, AckConfigure(j, q)) => q <= p
    BY <1>3 DEF CommitsDue
  <2>1. CASE At(k, Commit(j, p))
    BY <2>1 DEF Frames, CommitsDue
  <2>2. CASE k = z + 1 /\ j = i /\ p = n
    BY <1>4, <2>2 DEF Asked, Current
  <2> QED BY <1>2, <2>1, <2>2
<1>6. ASSUME NEW j \in Ids, NEW p \in Serial, Current(j, p) PROVE Current(j, p)'
  <2>1. Asked(AckConfigure(j, p)) => Asked(AckConfigure(j, p))'
    BY <1>3 DEF Asked
  <2> QED BY <1>3, <1>6, <2>1 DEF Current
<1>7. Thawed'
  BY <1>6 DEF Frames, Thawed
<1> QED BY <1>5, <1>7 DEF Frames

(* The compositor reads an ack: commits in an older size are behind it, in *)
(* none.                                                                   *)
LEMMA FramesTakeAck ==
    ASSUME Frames, Serials, LockTypes, NEW i \in Ids, NEW n \in Serial,
           Arrived(AckConfigure(i, n)), toServer' = Tail(toServer),
           role'[i].acked = n, role'[i].state = role[i].state,
           \A j \in Ids \ {i} : role'[j] = role[j], connected' = connected,
           \A w \in Windows, j \in Ids, p \in Serial : Drawable(w, j, p)' => Drawable(w, j, p)
    PROVE  Frames'
<1>0. ServerShift(1, SurfaceRequests \ {"ack_configure"})
  BY TakenShift, SurfaceOps
<1>1. At(1, AckConfigure(i, n)) /\ \A j, p : At(1, AckConfigure(j, p)) => j = i /\ p = n
  BY Taken, SurfaceMessages
<1>2. \A j, p : \A k \in Nat : At(k, AckConfigure(j, p))' => k + 1 \in Nat /\ 1 < k + 1 /\ At(k + 1, AckConfigure(j, p))
  BY Taken
<1>3. \A j, p : \A k \in Nat : At(k, AckConfigure(j, p)) /\ k # 1 =>
        k - 1 \in Nat /\ k - 1 < k /\ At(k - 1, AckConfigure(j, p))'
  <2> SUFFICES ASSUME NEW j, NEW p, NEW k \in Nat, At(k, AckConfigure(j, p)), k # 1
               PROVE  k - 1 \in Nat /\ k - 1 < k /\ At(k - 1, AckConfigure(j, p))'
    OBVIOUS
  <2>1. 1 <= k
    BY Taken
  <2>2. k - 1 \in Nat /\ (k - 1) + 1 = k /\ 1 <= k - 1
    BY <2>1
  <2>3. At(k - 1, AckConfigure(j, p))'
    BY <2>2, Taken
  <2> QED BY <2>2, <2>3
<1>4. role[i].acked < n
  BY <1>1 DEF Serials, AcksNew
<1>5. /\ \A j, p : \A k \in Nat : At(k, Commit(j, p))' => k + 1 \in Nat /\ At(k + 1, Commit(j, p))
      /\ \A j : \A k \in Nat : At(k, DestroySurface(j)) => k - 1 \in Nat /\ At(k - 1, DestroySurface(j))'
  BY <1>0, SurfaceOps DEF ServerShift, SurfaceRequests
<1>7. CommitsDue'
  <2> SUFFICES ASSUME NEW k \in Nat, NEW j \in Ids, NEW p \in Serial, At(k, Commit(j, p))',
                      role'[j].state # "gone",
                      ~ \E l \in Nat : l < k /\ At(l, DestroySurface(j))'
               PROVE  /\ p # 0
                      /\ role'[j].acked = p \/ \E l \in Nat : l < k /\ At(l, AckConfigure(j, p))'
                      /\ \A l \in Nat, q \in Serial : l < k /\ At(l, AckConfigure(j, q))' => q <= p
    BY DEF CommitsDue
  <2>1. k + 1 \in Nat /\ At(k + 1, Commit(j, p)) /\ role[j].state # "gone"
    BY <1>5
  <2>2. ASSUME NEW l \in Nat, l < k + 1, At(l, DestroySurface(j)) PROVE FALSE
    <3>1. l - 1 \in Nat /\ At(l - 1, DestroySurface(j))' /\ l - 1 < k
      BY <1>5, <2>2
    <3> QED BY <3>1
  <2>3. /\ p # 0
        /\ role[j].acked = p \/ \E l \in Nat : l < k + 1 /\ At(l, AckConfigure(j, p))
        /\ \A l \in Nat, q \in Serial : l < k + 1 /\ At(l, AckConfigure(j, q)) => q <= p
    BY <2>1, <2>2 DEF Frames, CommitsDue
  <2>4. ASSUME NEW l \in Nat, NEW q \in Serial, l < k, At(l, AckConfigure(j, q))' PROVE q <= p
    <3>1. l + 1 \in Nat /\ At(l + 1, AckConfigure(j, q)) /\ l + 1 < k + 1
      BY <1>2, <2>4
    <3> QED BY <2>3, <3>1
  <2>5. CASE role[j].acked = p
    <3>1. CASE j = i
      <4>1. 0 < k /\ 1 < k + 1
        BY <2>1, Taken
      <4>2. n <= p
        BY <1>1, <2>3, <3>1, <4>1
      <4>3. p \in Nat /\ n \in Nat /\ p < n
        BY <1>4, <2>5, <3>1, SerialTypes
      <4> QED BY <4>2, <4>3
    <3> QED BY <2>3, <2>4, <2>5, <3>1
  <2>6. ASSUME NEW l \in Nat, l < k + 1, At(l, AckConfigure(j, p))
        PROVE  role'[j].acked = p \/ \E h \in Nat : h < k /\ At(h, AckConfigure(j, p))'
    <3>1. CASE l = 1
      BY <1>1, <2>6, <3>1
    <3>2. CASE l # 1
      <4>1. l - 1 \in Nat /\ l - 1 < k /\ At(l - 1, AckConfigure(j, p))'
        BY <1>3, <2>6, <3>2
      <4> QED BY <4>1
    <3> QED BY <3>1, <3>2
  <2> QED BY <2>3, <2>4, <2>5, <2>6
<1>8. ASSUME NEW j \in Ids, NEW p \in Serial, Current(j, p) PROVE Current(j, p)'
  <2>1. \A k \in Nat, q \in Serial : At(k, AckConfigure(j, q))' => q <= p
    BY <1>2, <1>8 DEF Current
  <2>2. CASE role[j].acked = p
    <3>1. CASE j = i
      BY <1>1, <1>4, <1>8, <2>2, <3>1, SerialTypes DEF Current
    <3> QED BY <2>1, <2>2, <3>1 DEF Current
  <2>3. CASE Asked(AckConfigure(j, p))
    <3>1. PICK k \in Nat : At(k, AckConfigure(j, p))
      BY <2>3 DEF Asked
    <3>2. CASE k = 1
      BY <1>1, <2>1, <3>1, <3>2 DEF Current
    <3>3. CASE k # 1
      <4>1. Asked(AckConfigure(j, p))'
        BY <1>3, <3>1, <3>3 DEF Asked
      <4> QED BY <2>1, <4>1 DEF Current
    <3> QED BY <3>2, <3>3
  <2> QED BY <1>8, <2>2, <2>3 DEF Current
<1>9. Thawed'
  BY <1>8 DEF Frames, Thawed
<1> QED BY <1>7, <1>9 DEF Frames

LEMMA FramesTakeDestroy ==
    ASSUME Frames, LockTypes, NEW i \in Ids,
           Arrived(DestroySurface(i)), toServer' = Tail(toServer),
           role'[i].acked = role[i].acked, role'[i].state = "gone",
           \A j \in Ids \ {i} : role'[j] = role[j], connected' = connected,
           \A w \in Windows, j \in Ids, p \in Serial : Drawable(w, j, p)' => Drawable(w, j, p)
    PROVE  Frames'
<1>0. ServerShift(1, SurfaceRequests \ {"destroy_surface"})
  BY TakenShift, SurfaceOps
<1>1. \A j : At(1, DestroySurface(j)) => j = i
  BY Taken, SurfaceMessages
<1>2. /\ \A j, p : \A k \in Nat : At(k, Commit(j, p))' => k + 1 \in Nat /\ At(k + 1, Commit(j, p))
      /\ \A j, p : \A k \in Nat : At(k, AckConfigure(j, p))' => k + 1 \in Nat /\ At(k + 1, AckConfigure(j, p))
      /\ \A j, p : \A k \in Nat : At(k, AckConfigure(j, p)) => k - 1 \in Nat /\ At(k - 1, AckConfigure(j, p))'
  <2>1. \A j, p : \A k \in Nat : At(k, Commit(j, p))' => k + 1 \in Nat /\ At(k + 1, Commit(j, p))
    BY <1>0, SurfaceOps DEF ServerShift, SurfaceRequests
  <2>2. \A j, p : \A k \in Nat : At(k, AckConfigure(j, p))' => k + 1 \in Nat /\ At(k + 1, AckConfigure(j, p))
    BY <1>0, SurfaceOps DEF ServerShift, SurfaceRequests
  <2>3. \A j, p : \A k \in Nat : At(k, AckConfigure(j, p)) => k - 1 \in Nat /\ At(k - 1, AckConfigure(j, p))'
    BY <1>0, SurfaceOps DEF ServerShift, SurfaceRequests
  <2> QED BY <2>1, <2>2, <2>3
<1>3. \A j : \A k \in Nat : At(k, DestroySurface(j)) /\ j # i =>
        k - 1 \in Nat /\ k - 1 < k /\ At(k - 1, DestroySurface(j))'
  <2> SUFFICES ASSUME NEW j, NEW k \in Nat, At(k, DestroySurface(j)), j # i
               PROVE  k - 1 \in Nat /\ k - 1 < k /\ At(k - 1, DestroySurface(j))'
    OBVIOUS
  <2>1. 1 <= k /\ k # 1
    BY <1>1, Taken
  <2>2. k - 1 \in Nat /\ (k - 1) + 1 = k /\ 1 <= k - 1
    BY <2>1
  <2>3. At(k - 1, DestroySurface(j))'
    BY <2>2, Taken
  <2> QED BY <2>2, <2>3
<1>4. CommitsDue'
  <2> SUFFICES ASSUME NEW k \in Nat, NEW j \in Ids, NEW p \in Serial, At(k, Commit(j, p))',
                      role'[j].state # "gone",
                      ~ \E l \in Nat : l < k /\ At(l, DestroySurface(j))'
               PROVE  /\ p # 0
                      /\ role'[j].acked = p \/ \E l \in Nat : l < k /\ At(l, AckConfigure(j, p))'
                      /\ \A l \in Nat, q \in Serial : l < k /\ At(l, AckConfigure(j, q))' => q <= p
    BY DEF CommitsDue
  <2>1. k + 1 \in Nat /\ At(k + 1, Commit(j, p)) /\ role[j].state # "gone" /\ j # i
    BY <1>2
  <2>2. ASSUME NEW l \in Nat, l < k + 1, At(l, DestroySurface(j)) PROVE FALSE
    <3>1. l - 1 \in Nat /\ At(l - 1, DestroySurface(j))' /\ l - 1 < k
      BY <1>3, <2>1, <2>2
    <3> QED BY <3>1
  <2>3. /\ p # 0
        /\ role[j].acked = p \/ \E l \in Nat : l < k + 1 /\ At(l, AckConfigure(j, p))
        /\ \A l \in Nat, q \in Serial : l < k + 1 /\ At(l, AckConfigure(j, q)) => q <= p
    BY <2>1, <2>2 DEF Frames, CommitsDue
  <2>4. ASSUME NEW l \in Nat, NEW q \in Serial, l < k, At(l, AckConfigure(j, q))' PROVE q <= p
    <3>1. l + 1 \in Nat /\ At(l + 1, AckConfigure(j, q)) /\ l + 1 < k + 1
      BY <1>2, <2>4
    <3> QED BY <2>3, <3>1
  <2>5. ASSUME NEW l \in Nat, l < k + 1, At(l, AckConfigure(j, p))
        PROVE  \E h \in Nat : h < k /\ At(h, AckConfigure(j, p))'
    <3>1. l - 1 \in Nat /\ l - 1 < k /\ At(l - 1, AckConfigure(j, p))'
      BY <1>2, <2>5
    <3> QED BY <3>1
  <2> QED BY <2>1, <2>3, <2>4, <2>5
<1>5. ASSUME NEW j \in Ids, NEW p \in Serial, Current(j, p) PROVE Current(j, p)'
  <2>1. Asked(AckConfigure(j, p)) => Asked(AckConfigure(j, p))'
    BY <1>2 DEF Asked
  <2> QED BY <1>2, <1>5, <2>1 DEF Current
<1>6. Thawed'
  BY <1>5 DEF Frames, Thawed
<1> QED BY <1>4, <1>6 DEF Frames
-----------------------------------------------------------------------------
(* The locks do not notice what the surfaces send.                         *)

LEMMA ForeignKeepsLocks ==
    ASSUME LockInv, NEW d \in {0, 1}, NEW e \in {0, 1},
           ServerShift(d, Requests), ClientShift(e, Events),
           \E S : toServer' \in Seq(S), \E S : toClient' \in Seq(S),
           UNCHANGED <<appVars, proxyVars, serverVars>>,
           client' = client \/ (client = "synced" /\ client' = "running")
    PROVE  LockInv'
<1> USE ConstantsAssumption
<1>1. LockTypes /\ UNCHANGED <<gobj, lockObj, signals, emitted, proxy, listener, connected, res, session, holder, perr>>
  BY DEF LockInv, WireInv, HandleInv, appVars, proxyVars, serverVars
<1>2. LockTypes'
  BY <1>1 DEF LockTypes
<1>3. \A p \in Requests : \A o : \A k \in Nat :
        /\ At(k, Msg(p, o))' => k + d \in Nat /\ At(k + d, Msg(p, o))
        /\ At(k, Msg(p, o)) => k - d \in Nat /\ At(k - d, Msg(p, o))'
  BY SurfaceOps DEF ServerShift
<1>4. \A p \in Events : \A o : \A k \in Nat :
        /\ Due(k, Msg(p, o))' => k + e \in Nat /\ Due(k + e, Msg(p, o))
        /\ Due(k, Msg(p, o)) => k - e \in Nat /\ Due(k - e, Msg(p, o))'
  BY SurfaceOps DEF ClientShift
<1>5. \A p \in Requests : \A o : Sent(p, o)' <=> Sent(p, o)
  <2>1. \A p, o : Sent(p, o) <=> Asked(Msg(p, o))
    BY <1>1 DEF Sent, Asked, At, LockTypes
  <2>2. \A p, o : Sent(p, o)' <=> Asked(Msg(p, o))'
    BY <1>2 DEF Sent, Asked, At, LockTypes
  <2>3. ASSUME NEW p \in Requests, NEW o PROVE Asked(Msg(p, o))' <=> Asked(Msg(p, o))
    <3>1. ASSUME NEW k \in Nat, At(k, Msg(p, o))' PROVE Asked(Msg(p, o))
      BY <1>3, <3>1 DEF Asked
    <3>2. ASSUME NEW k \in Nat, At(k, Msg(p, o)) PROVE Asked(Msg(p, o))'
      BY <1>3, <3>2 DEF Asked
    <3> QED BY <3>1, <3>2 DEF Asked
  <2> QED BY <2>1, <2>2, <2>3
<1>6. \A p \in Events : \A o : Posted(p, o)' <=> Posted(p, o)
  <2>1. \A p, o : Posted(p, o) <=> \E k \in Nat : Due(k, Msg(p, o))
    BY <1>1 DEF Posted, Due, LockTypes
  <2>2. \A p, o : Posted(p, o)' <=> \E k \in Nat : Due(k, Msg(p, o))'
    BY <1>2 DEF Posted, Due, LockTypes
  <2> SUFFICES ASSUME NEW p \in Events, NEW o PROVE Posted(p, o)' <=> Posted(p, o)
    OBVIOUS
  <2>3. ASSUME NEW k \in Nat, Due(k, Msg(p, o))' PROVE Posted(p, o)
    BY <1>4, <2>1, <2>3
  <2>4. ASSUME NEW k \in Nat, Due(k, Msg(p, o)) PROVE Posted(p, o)'
    BY <1>4, <2>2, <2>4
  <2> QED BY <2>1, <2>2, <2>3, <2>4
<1>7. Ordered'
  <2> SUFFICES ASSUME NEW i \in 1..Len(toServer'), NEW j \in 1..Len(toServer'), i < j,
                      NEW p \in Requests, NEW q \in Requests, NEW o \in Objs,
                      toServer'[i] = Msg(p, o), toServer'[j] = Msg(q, o)
               PROVE  p = "lock" /\ q # "lock"
    BY DEF Ordered
  <2>1. i \in Nat /\ j \in Nat /\ At(i, Msg(p, o))' /\ At(j, Msg(q, o))'
    BY DEF At
  <2>2. At(i + d, Msg(p, o))
    BY <1>3, <2>1
  <2>3. At(j + d, Msg(q, o))
    BY <1>3, <2>1
  <2>4. i + d < j + d
    BY <2>1
  <2> QED BY <2>2, <2>3, <2>4 DEF LockInv, WireInv, HandleInv, Ordered, At
<1>8. EventsOrdered'
  <2> SUFFICES ASSUME NEW i \in 1..Len(toClient'), NEW j \in 1..Len(toClient'), i < j,
                      NEW p \in Events, NEW q \in Events, NEW o \in Objs \cup {NULL},
                      toClient'[i] = Msg(p, o), toClient'[j] = Msg(q, o)
               PROVE  p = "locked" /\ q = "finished"
    BY DEF EventsOrdered
  <2>1. i \in Nat /\ j \in Nat /\ Due(i, Msg(p, o))' /\ Due(j, Msg(q, o))'
    BY DEF Due
  <2>2. Due(i + e, Msg(p, o))
    BY <1>4, <2>1
  <2>3. Due(j + e, Msg(q, o))
    BY <1>4, <2>1
  <2>4. i + e < j + e
    BY <2>1
  <2> QED BY <2>2, <2>3, <2>4 DEF LockInv, EventsOrdered, Due
<1>9. SyncLast'
  <2> SUFFICES ASSUME NEW i \in 1..Len(toServer'), NEW j \in 1..Len(toServer'),
                      NEW p \in Requests, NEW o \in Objs \cup {NULL},
                      toServer'[i] = Msg("sync", NULL), toServer'[j] = Msg(p, o)
               PROVE  j <= i
    BY DEF SyncLast
  <2>1. i \in Nat /\ j \in Nat /\ At(i, Msg("sync", NULL))' /\ At(j, Msg(p, o))'
    BY DEF At
  <2>2. "sync" \in Requests
    BY DEF Requests
  <2>3. At(i + d, Msg("sync", NULL))
    BY <1>3, <2>1, <2>2
  <2>4. At(j + d, Msg(p, o))
    BY <1>3, <2>1
  <2>5. j + d <= i + d
    BY <2>3, <2>4 DEF LockInv, SyncInv, SyncLast, At
  <2> QED BY <2>1, <2>5
<1>10. WireInv'
  <2>1. OwnsLive'
    BY <1>1 DEF LockInv, WireInv, HandleInv, OwnsLive
  <2>2. WireMatchesProxy'
    BY <1>1, <1>5 DEF LockInv, WireInv, HandleInv, WireMatchesProxy, Requests
  <2>3. EventsAddressed'
    BY <1>6 DEF LockInv, WireInv, EventsAddressed, Events
  <2> QED BY <1>2, <1>7, <2>1, <2>2, <2>3 DEF WireInv, HandleInv
<1>11. Ownership' /\ HolderMatchesRecord' /\ Ending'
  BY <1>1 DEF LockInv, Ownership, HolderMatchesRecord, Ending, Alive
<1>12. ObjectsAgree'
  <2> SUFFICES ASSUME connected, NEW q \in Objs
               PROVE  RecordMatchesWire(q)' /\ SignalsMatchRecord(q)'
    BY <1>1 DEF ObjectsAgree
  <2>1. RecordMatchesWire(q) /\ SignalsMatchRecord(q)
    BY DEF LockInv, ObjectsAgree
  <2> QED BY <1>1, <1>5, <1>6, <2>1, Frame
<1>13. SyncInv'
  <2>1. Silent => Silent'
    BY <1>5 DEF Silent
  <2> QED BY <1>5, <1>6, <1>9, <2>1 DEF LockInv, SyncInv, MayCall, Requests, Events
<1> QED BY <1>8, <1>10, <1>11, <1>12, <1>13 DEF LockInv

(* The requests and events of surfaces are none of the locks' concern.     *)
LEMMA SurfacesKeepLocks ==
    ASSUME LockInv,
           \/ toServer' = toServer
           \/ \E m : m.op \in SurfaceRequests /\ toServer' = Append(toServer, m)
           \/ \E m : m.op \in SurfaceRequests /\ Arrived(m) /\ toServer' = Tail(toServer),
           \/ toClient' = toClient
           \/ \E m : m.op = "configure" /\ toClient' = Append(toClient, m)
           \/ \E m : m.op = "configure" /\ toClient # <<>> /\ Head(toClient) = m /\ toClient' = Tail(toClient),
           UNCHANGED <<appVars, proxyVars, serverVars>>,
           client' = client \/ (client = "synced" /\ client' = "running")
    PROVE  LockInv'
<1>1. LockTypes
  BY DEF LockInv, WireInv, HandleInv
<1>2. \A m : m.op \in SurfaceRequests => m.op \notin Requests
  BY DEF SurfaceRequests, Requests
<1>3. \A m : m.op = "configure" => m.op \notin Events
  BY DEF Events
<1>4. (\E S : toServer' \in Seq(S)) /\ \E d \in {0, 1} : ServerShift(d, Requests)
  <2>1. CASE toServer' = toServer
    <3>1. ServerShift(0, Requests)
      BY <2>1, SameShift
    <3> QED BY <1>1, <2>1, <3>1 DEF LockTypes
  <2>2. CASE \E m : m.op \in SurfaceRequests /\ toServer' = Append(toServer, m)
    <3>1. PICK m : m.op \in SurfaceRequests /\ toServer' = Append(toServer, m)
      BY <2>2
    <3>2. ServerShift(0, Requests)
      BY <1>1, <1>2, <3>1, AddedShift
    <3> QED BY <1>1, <3>1, <3>2, Sending
  <2>3. CASE \E m : m.op \in SurfaceRequests /\ Arrived(m) /\ toServer' = Tail(toServer)
    <3>1. PICK m : m.op \in SurfaceRequests /\ Arrived(m) /\ toServer' = Tail(toServer)
      BY <2>3
    <3>2. ServerShift(1, Requests)
      BY <1>1, <1>2, <3>1, TakenShift
    <3> QED BY <1>1, <3>1, <3>2, TakingFirst DEF Arrived
  <2> QED BY <2>1, <2>2, <2>3
<1>5. (\E S : toClient' \in Seq(S)) /\ \E e \in {0, 1} : ClientShift(e, Events)
  <2>1. CASE toClient' = toClient
    <3>1. ClientShift(0, Events)
      BY <2>1, DueSameShift
    <3> QED BY <1>1, <2>1, <3>1 DEF LockTypes
  <2>2. CASE \E m : m.op = "configure" /\ toClient' = Append(toClient, m)
    <3>1. PICK m : m.op = "configure" /\ toClient' = Append(toClient, m)
      BY <2>2
    <3>2. ClientShift(0, Events)
      BY <1>1, <1>3, <3>1, DueAddedShift
    <3> QED BY <1>1, <3>1, <3>2, Posting
  <2>3. CASE \E m : m.op = "configure" /\ toClient # <<>> /\ Head(toClient) = m /\ toClient' = Tail(toClient)
    <3>1. PICK m : m.op = "configure" /\ toClient # <<>> /\ Head(toClient) = m /\ toClient' = Tail(toClient)
      BY <2>3
    <3>2. ClientShift(1, Events)
      BY <1>1, <1>3, <3>1, DueTakenShift
    <3> QED BY <1>1, <3>1, <3>2, DispatchingFirst
  <2> QED BY <2>1, <2>2, <2>3
<1>6. PICK d \in {0, 1} : ServerShift(d, Requests)
  BY <1>4
<1>7. PICK e \in {0, 1} : ClientShift(e, Events)
  BY <1>5
<1> QED BY <1>4, <1>5, <1>6, <1>7, ForeignKeepsLocks

LEMMA Shifted ==
    ASSUME NEW d \in {0, 1}, NEW M, ServerShift(d, M)
    PROVE  /\ "get_lock_surface" \in M =>
                \A i, o, m : \A k \in Nat : At(k, GetLockSurface(i, o, m))' => At(k + d, GetLockSurface(i, o, m))
           /\ "destroy_surface" \in M =>
                \A i : \A k \in Nat : At(k, DestroySurface(i)) => k - d \in Nat /\ At(k - d, DestroySurface(i))'
           /\ "ack_configure" \in M =>
                \A i, n : \A k \in Nat : At(k, AckConfigure(i, n))' => At(k + d, AckConfigure(i, n))
           /\ "commit" \in M =>
                \A i, n : \A k \in Nat : At(k, Commit(i, n))' => At(k + d, Commit(i, n))
           /\ Requests \subseteq M =>
                \A p \in Requests : \A o : \A k \in Nat : At(k, Msg(p, o))' => At(k + d, Msg(p, o))
<1>1. "get_lock_surface" \in M =>
        \A i, o, m : \A k \in Nat : At(k, GetLockSurface(i, o, m))' => At(k + d, GetLockSurface(i, o, m))
  BY SurfaceOps DEF ServerShift
<1>2. "destroy_surface" \in M =>
        \A i : \A k \in Nat : At(k, DestroySurface(i)) => k - d \in Nat /\ At(k - d, DestroySurface(i))'
  BY SurfaceOps DEF ServerShift
<1>3. "ack_configure" \in M =>
        \A i, n : \A k \in Nat : At(k, AckConfigure(i, n))' => At(k + d, AckConfigure(i, n))
  BY SurfaceOps DEF ServerShift
<1>4. "commit" \in M =>
        \A i, n : \A k \in Nat : At(k, Commit(i, n))' => At(k + d, Commit(i, n))
  BY SurfaceOps DEF ServerShift
<1>5. Requests \subseteq M =>
        \A p \in Requests : \A o : \A k \in Nat : At(k, Msg(p, o))' => At(k + d, Msg(p, o))
  BY SurfaceOps DEF ServerShift
<1> QED BY <1>1, <1>2, <1>3, <1>4, <1>5

LEMMA ConfiguresShifted ==
    ASSUME NEW e \in {0, 1}, NEW M, "configure" \in M, ClientShift(e, M)
    PROVE  \A i, n : \A k \in Nat : Due(k, Configure(i, n))' => Due(k + e, Configure(i, n))
  BY SurfaceOps DEF ClientShift

(* Nothing is sent and nothing is read.                                    *)
LEMMA QuietKeeps ==
    ASSUME Turns, GetsInLock, Serials, Frames, toServer' = toServer, NEW e \in {0, 1},
           \A i, n : \A k \in Nat : Due(k, Configure(i, n))' => Due(k + e, Configure(i, n)),
           UNCHANGED <<slot, role, res, connected>>, StructsKept,
           \A w \in Windows, i \in Ids, n \in Serial : Drawable(w, i, n)' => Drawable(w, i, n)
    PROVE  Turns' /\ GetsInLock' /\ Serials' /\ Frames'
<1> DEFINE M == SurfaceRequests \cup Requests
<1>1. ServerShift(0, M) /\ ServerShift(0, {"get_lock_surface", "destroy_surface"}) /\ ServerShift(0, {"ack_configure"})
  BY SameShift
<1>3. SurfaceRequests \subseteq M /\ Requests \subseteq M
  OBVIOUS
<1>4. Turns'
  BY <1>1, TurnsShift
<1> HIDE DEF M
<1>5. /\ \A i, o, m : \A k \in Nat : At(k, GetLockSurface(i, o, m))' => At(k + 0, GetLockSurface(i, o, m))
      /\ \A i, n : \A k \in Nat : At(k, AckConfigure(i, n))' => At(k + 0, AckConfigure(i, n))
      /\ \A i, n : \A k \in Nat : At(k, Commit(i, n))' => At(k + 0, Commit(i, n))
      /\ \A i : \A k \in Nat : At(k, DestroySurface(i)) => k - 0 \in Nat /\ At(k - 0, DestroySurface(i))'
      /\ \A p \in Requests : \A o : \A k \in Nat : At(k, Msg(p, o))' => At(k + 0, Msg(p, o))
  BY <1>1, <1>3, Shifted DEF SurfaceRequests
<1>7. GetsInLock'
  BY <1>5, GetsInLockShift
<1>8. Serials'
  BY <1>5, SerialsShift
<1>9. Frames'
  BY <1>1, <1>5, FramesShift
<1> QED BY <1>4, <1>7, <1>8, <1>9
-----------------------------------------------------------------------------
(* Windows, structs and surfaces, when no window is prepared or shown.     *)
LEMMA ShapeShrinks ==
    ASSUME Shape, SurfaceInv, SurfaceInv',
           \A i \in Ids :
                /\ slot'[i].data = slot[i].data
                /\ slot'[i].state = slot[i].state \/ (slot[i].state = "live" /\ slot'[i].state = "destroyed"),
           \A s \in Structs :
                /\ st'[s].lock = st[s].lock /\ st'[s].mon = st[s].mon /\ st'[s].win = st[s].win
                /\ st'[s].state = "none" <=> st[s].state = "none"
                /\ st'[s].state = "live" => st[s].state = "live"
                /\ st'[s].obj # NULL => st'[s].obj = st[s].obj,
           \A o \in Objs : proxy[o] # "none" => proxy'[o] # "none",
           \A w \in Windows :
                /\ data'[w] = data[w] \/ (data[w] # NULL => st'[data[w]].state # "live")
                /\ win'[w] = "mapped" => win[w] = "mapped" /\ cur'[w] = cur[w] /\ data'[w] = data[w]
                /\ \/ win'[w] = win[w] /\ cur'[w] = cur[w]
                   \/ win[w] # "mapped"
                   \/ \A s \in Structs : st[s].win = w => st'[s].obj = NULL
    PROVE  Shape' /\ StructsKept
<1>1. \A i \in Ids : Made(i)' <=> Made(i)
  BY DEF Made
<1>2. LiveStructs' /\ NoPlain' /\ InOrder'
  BY <1>1 DEF Shape, LiveStructs, NoPlain, InOrder
<1>3. OneEach'
  BY DEF Shape, OneEach
<1>4. LatestLives'
  BY <1>1 DEF Shape, LatestLives
<1>5. StructLock'
  BY DEF Shape, StructLock
<1>6. OneStruct'
  <2> SUFFICES ASSUME NEW s \in Structs, st'[s].state = "live" PROVE data'[st'[s].win] = s
    BY DEF OneStruct
  <2>1. st[s].state = "live" /\ st'[s].win = st[s].win /\ st[s].win \in Windows
    BY DEF SurfaceInv, Placed
  <2>2. data[st[s].win] = s /\ s # NULL
    BY <2>1, Fields DEF Shape, OneStruct, SurfaceInv
  <2> QED BY <2>1, <2>2
<1>7. ShownBy'
  <2> SUFFICES ASSUME NEW s \in Structs, st'[s].obj # NULL
               PROVE  win'[st'[s].win] = "mapped" /\ cur'[st'[s].win] = st'[s].obj
    BY DEF ShownBy
  <2>1. st'[s].obj = st[s].obj /\ st'[s].win = st[s].win /\ st[s].obj # NULL
    OBVIOUS
  <2>2. win[st[s].win] = "mapped" /\ cur[st[s].win] = st[s].obj
    BY <2>1 DEF Shape, ShownBy
  <2>3. st[s].obj \in Ids /\ slot[st[s].obj].state = "live" /\ slot[st[s].obj].data = s
    BY <2>1, Fields DEF SurfaceInv, Owned
  <2>4. st[s].win \in Windows
    BY <2>3 DEF SurfaceInv, Backed, Placed
  <2> QED BY <2>1, <2>2, <2>4
<1>8. Mapped'
  <2> SUFFICES ASSUME NEW w \in Windows, win'[w] = "mapped"
               PROVE  data'[w] # NULL /\ cur'[w] \in Ids /\ slot'[cur'[w]].data = data'[w]
                       /\ slot'[cur'[w]].state \in {"live", "destroyed"}
    BY DEF Mapped, Made
  <2>1. win[w] = "mapped" /\ cur'[w] = cur[w] /\ data'[w] = data[w]
    OBVIOUS
  <2>2. data[w] # NULL /\ cur[w] \in Ids /\ Made(cur[w]) /\ slot[cur[w]].data = data[w]
    BY <2>1 DEF Shape, Mapped
  <2> QED BY <2>1, <2>2 DEF Made
<1>9. StructsKept
  BY DEF Shape, LiveStructs, StructsKept, LockOf, MonOf
<1> QED BY <1>2, <1>3, <1>4, <1>5, <1>6, <1>7, <1>8, <1>9 DEF Shape

(* The application prepares, realizes or hides a window, or the mapping    *)
(* of one is given up that had no lock surface: nothing is sent.           *)
LEMMA QuietStepKeeps ==
    ASSUME DocumentedInv, SurfaceInv', Shape', StructsKept, Quiet, toClient' = toClient,
           UNCHANGED <<appVars, proxyVars, serverVars, slot, role>>,
           \A w \in Windows, i \in Ids, n \in Serial : Drawable(w, i, n)' => Drawable(w, i, n)
    PROVE  DocumentedInv'
<1>1. toServer' = toServer /\ client' = client /\ UNCHANGED <<slot, role, res, connected>>
  BY DEF Quiet, serverVars
<1>2. LockInv'
  BY <1>1, SurfacesKeepLocks DEF DocumentedInv
<1>3. \A i, n : \A k \in Nat : Due(k, Configure(i, n))' => Due(k + 0, Configure(i, n))
  <2>1. ClientShift(0, {"configure"})
    BY DueSameShift
  <2> QED BY <2>1, ConfiguresShifted
<1>4. Turns' /\ GetsInLock' /\ Serials' /\ Frames'
  BY <1>1, <1>3, QuietKeeps DEF DocumentedInv
<1> QED BY <1>2, <1>4 DEF DocumentedInv

LEMMA PreparedKeeps ==
    ASSUME DocumentedInv, NEW l \in Locks, NEW w \in Windows, NEW m \in Outputs,
           data[w] = NULL, win[w] = "new", OncePerMonitor(l, m), NewSurface(l, w, m)
    PROVE  DocumentedInv'
<1>1. SurfaceInv /\ Shape /\ SurfaceInv'
  BY NewSurfaceStep DEF DocumentedInv
<1>2. lockObj[l] \in Objs /\ proxy[lockObj[l]] = "live"
  BY DEF NewSurface, DocumentedInv, SurfaceInv, LockPointers, LockInv, WireInv, HandleInv, OwnsLive
<1>3. PICK o \in Objs : o = lockObj[l]
  BY <1>2
<1>4. PICK new \in StructRecords :
        /\ new = NewStruct(w, m, o)
        /\ new.state = "live" /\ new.win = w /\ new.obj = NULL /\ new.mon = m /\ new.lock = o
  BY NewStructFields
<1>5. PICK s \in Structs :
        /\ st[s].state = "none"
        /\ data' = [data EXCEPT ![w] = s] /\ st' = [st EXCEPT ![s] = new]
        /\ Quiet /\ slot' = slot
  BY <1>3, <1>4, SMTT(30) DEF NewSurface, Allocatable
<1>6. /\ UNCHANGED <<appVars, proxyVars, toClient, serverVars, win, freeze, cur, role>>
      /\ OncePerMonitor(l, m)
  BY DEF NewSurface
<1>7. /\ \A v \in Windows : data'[v] = IF v = w THEN s ELSE data[v]
      /\ \A t \in Structs : st'[t] = IF t = s THEN new ELSE st[t]
  BY <1>1, <1>5 DEF SurfaceInv, SurfaceTypeOK
<1>8. \A v \in Windows : data[v] # NULL => data[v] \in Structs \ {s}
  BY <1>1, <1>5 DEF SurfaceInv, SurfaceTypeOK, Attached
<1>9. \A i \in Ids : Made(i) => slot[i].data \in Structs \ {s}
  BY <1>1, <1>5 DEF Shape, LiveStructs
<1>10. \A i \in Ids : Made(i)' <=> Made(i)
  BY <1>5 DEF Made
<1>11. s # NULL /\ \A t \in Structs : t # NULL
  BY SurfaceConstants
<1>12. Shape' /\ StructsKept
  <2>1. LiveStructs' /\ NoPlain' /\ InOrder'
    BY <1>1, <1>5, <1>7, <1>9, <1>10 DEF Shape, LiveStructs, NoPlain, InOrder
  <2>2. OneEach'
    <3>1. \A t \in Structs : st[t].state # "none" => ~(st[t].lock = o /\ st[t].mon = m)
      BY <1>3, <1>6 DEF OncePerMonitor
    <3> QED BY <1>1, <1>4, <1>7, <3>1 DEF Shape, OneEach
  <2>3. LatestLives'
    BY <1>1, <1>5, <1>10 DEF Shape, LatestLives
  <2>4. StructLock'
    BY <1>1, <1>2, <1>3, <1>4, <1>6, <1>7 DEF Shape, StructLock, proxyVars
  <2>5. OneStruct'
    BY <1>1, <1>4, <1>7, <1>8, <1>11 DEF Shape, OneStruct, SurfaceInv, Placed
  <2>6. ShownBy'
    BY <1>1, <1>4, <1>6, <1>7 DEF Shape, ShownBy
  <2>7. Mapped'
    BY <1>1, <1>5, <1>6, <1>7, <1>10 DEF Shape, Mapped, Made
  <2>8. StructsKept
    BY <1>5, <1>7, <1>9 DEF StructsKept, LockOf, MonOf
  <2> QED BY <2>1, <2>2, <2>3, <2>4, <2>5, <2>6, <2>7, <2>8 DEF Shape
<1>13. \A v \in Windows, i \in Ids, n \in Serial : Drawable(v, i, n)' => Drawable(v, i, n)
  BY <1>6, <1>7, <1>8 DEF Drawable
<1> QED BY <1>1, <1>5, <1>6, <1>12, <1>13, QuietStepKeeps

(* A window that is not mapped after the step draws nothing.               *)
LEMMA RealizeKeeps ==
    ASSUME DocumentedInv, NEW w \in Windows, Realize(w) PROVE DocumentedInv'
<1>1. SurfaceInv /\ Shape /\ SurfaceInv'
  BY RealizeStep DEF DocumentedInv
<1>2. /\ win[w] = "new" /\ \A v \in Windows : win'[v] = IF v = w THEN "realized" ELSE win[v]
      /\ UNCHANGED <<vars, data, freeze, cur, st, slot, role>>
  BY <1>1 DEF Realize, SurfaceInv, SurfaceTypeOK
<1>3. Shape' /\ StructsKept
  BY <1>1, <1>2, ShapeShrinks DEF vars, proxyVars
<1>4. \A v \in Windows, i \in Ids, n \in Serial : Drawable(v, i, n)' => Drawable(v, i, n)
  BY <1>2 DEF Drawable
<1> QED BY <1>1, <1>2, <1>3, <1>4, QuietStepKeeps DEF vars, queueVars, Quiet

LEMMA HideKeeps ==
    ASSUME DocumentedInv, NEW w \in Windows, win[w] = "mapped", data[w] # NULL,
           slot[cur[w]].state # "live", Hide(w)
    PROVE  DocumentedInv'
<1>1. SurfaceInv /\ Shape /\ SurfaceInv' /\ st[data[w]].obj = NULL
  <2>1. SurfaceInv /\ Shape /\ SurfaceInv'
    BY HideStep DEF DocumentedInv
  <2>2. PICK s \in Structs : s = data[w] /\ st[s].win = w
    BY <2>1 DEF SurfaceInv, SurfaceTypeOK, Attached
  <2>3. st[s].obj # NULL => cur[w] = st[s].obj /\ slot[st[s].obj].state = "live"
    BY <2>1, <2>2 DEF Shape, ShownBy, SurfaceInv, Owned
  <2> QED BY <2>1, <2>2, <2>3
<1>2. /\ \A v \in Windows : win'[v] = IF v = w THEN "realized" ELSE win[v]
      /\ \A v \in Windows : cur'[v] = IF v = w THEN NULL ELSE cur[v]
      /\ UNCHANGED <<vars, data, freeze, st, slot, role>>
  BY <1>1 DEF Hide, SurfaceInv, SurfaceTypeOK
<1>3. \A s \in Structs : st[s].win = w => st[s].obj = NULL
  BY <1>1, Fields DEF Shape, OneStruct, SurfaceInv, Owned, Backed
<1>4. Shape' /\ StructsKept
  BY <1>1, <1>2, <1>3, ShapeShrinks DEF vars, proxyVars
<1>5. \A v \in Windows, i \in Ids, n \in Serial : Drawable(v, i, n)' => Drawable(v, i, n)
  BY <1>2 DEF Drawable
<1> QED BY <1>1, <1>2, <1>4, <1>5, QuietStepKeeps DEF vars, queueVars, Quiet

(* The struct s gives up its lock surface, if it has one.                  *)
LEMMA LettingGoKeeps ==
    ASSUME DocumentedInv, SurfaceInv', NEW s \in Structs, slot' = Unmapped(s), SendUnmap(s),
           \A t \in Structs :
                /\ st'[t].lock = st[t].lock /\ st'[t].mon = st[t].mon /\ st'[t].win = st[t].win
                /\ st'[t].state = "none" <=> st[t].state = "none"
                /\ st'[t].state = "live" => st[t].state = "live"
                /\ st'[t].obj = IF t = s THEN NULL ELSE st[t].obj,
           \A w \in Windows :
                /\ data'[w] = data[w] \/ (data[w] # NULL => st'[data[w]].state # "live")
                /\ win'[w] = "mapped" => win[w] = "mapped" /\ cur'[w] = cur[w] /\ data'[w] = data[w]
                /\ \/ win'[w] = win[w] /\ cur'[w] = cur[w]
                   \/ \A t \in Structs : st[t].win = w => st'[t].obj = NULL,
           UNCHANGED <<appVars, proxyVars, toClient, serverVars, role>>,
           \A w \in Windows, i \in Ids, n \in Serial : Drawable(w, i, n)' => Drawable(w, i, n)
    PROVE  DocumentedInv'
<1>1. SurfaceInv /\ Shape /\ SurfaceTypeOK /\ LockTypes
  BY DEF DocumentedInv, SurfaceInv, LockInv, WireInv, HandleInv
<1>2. \A i \in Ids : /\ slot'[i].data = slot[i].data
                     /\ slot'[i].state = IF st[s].obj = i THEN "destroyed" ELSE slot[i].state
  BY <1>1, Unmapping
<1>3. \A i \in Ids : st[s].obj = i => slot[i].state = "live"
  BY <1>1, Fields DEF SurfaceInv, Owned
<1>4. Shape' /\ StructsKept
  BY <1>1, <1>2, <1>3, ShapeShrinks DEF proxyVars
<1>5. CASE st[s].obj = NULL
  <2>1. slot' = slot /\ Quiet
    BY <1>5 DEF Unmapped, SendUnmap
  <2> QED BY <1>4, <2>1, QuietStepKeeps
<1>6. CASE st[s].obj # NULL
  <2>1. PICK i \in Ids : i = st[s].obj
    BY <1>1, <1>6, Fields
  <2>2. Queue(DestroySurface(i))
    BY <1>6, <2>1 DEF SendUnmap
  <2>3. /\ toServer' = Append(toServer, DestroySurface(i))
        /\ client' = client \/ (client = "synced" /\ client' = "running")
    BY <2>2 DEF Queue
  <2>4. DestroySurface(i).op = "destroy_surface"
    BY SurfaceOps
  <2>5. LockInv'
    <3>1. DestroySurface(i).op \in SurfaceRequests
      BY <2>4 DEF SurfaceRequests
    <3>2. LockInv
      BY DEF DocumentedInv
    <3> QED BY <2>3, <3>1, <3>2, SurfacesKeepLocks
  <2>6. Turns'
    <3>1. Turns /\ LatestLives /\ role' = role /\ (connected' => connected) /\ Ids \subseteq Nat
      BY SurfaceConstants DEF DocumentedInv, Shape, serverVars
    <3>2. slot[i].state = "live"
      BY <1>3, <2>1
    <3>3. \A j \in Ids : /\ slot'[j].data = slot[j].data
                         /\ slot'[j].state = IF j = i THEN "destroyed" ELSE slot[j].state
      BY <1>2, <2>1
    <3> QED BY <1>1, <1>4, <2>3, <3>1, <3>2, <3>3, TurnsDestroy
  <2> DEFINE M == Requests \cup {"get_lock_surface", "ack_configure", "commit"}
  <2>7. ServerShift(0, M) /\ ServerShift(0, {"ack_configure"})
    <3>1. DestroySurface(i).op \notin M /\ DestroySurface(i).op \notin {"ack_configure"}
      BY <2>4 DEF Requests
    <3> HIDE DEF M
    <3> QED BY <1>1, <2>3, <3>1, AddedShift
  <2>8. Requests \subseteq M /\ {"get_lock_surface", "ack_configure", "commit"} \subseteq M
    OBVIOUS
  <2> HIDE DEF M
  <2>9. /\ \A j, o, m : \A k \in Nat : At(k, GetLockSurface(j, o, m))' => At(k + 0, GetLockSurface(j, o, m))
        /\ \A j, n : \A k \in Nat : At(k, AckConfigure(j, n))' => At(k + 0, AckConfigure(j, n))
        /\ \A j, n : \A k \in Nat : At(k, Commit(j, n))' => At(k + 0, Commit(j, n))
        /\ \A p \in Requests : \A o : \A k \in Nat : At(k, Msg(p, o))' => At(k + 0, Msg(p, o))
    BY <2>7, <2>8, Shifted
  <2>10. GetsInLock'
    BY <2>9, GetsInLockShift DEF DocumentedInv, serverVars
  <2>11. Serials'
    <3>1. ClientShift(0, {"configure"})
      BY DueSameShift
    <3>2. \A j, n : \A k \in Nat : Due(k, Configure(j, n))' => Due(k + 0, Configure(j, n))
      BY <3>1, ConfiguresShifted
    <3> QED BY <2>9, <3>2, SerialsShift DEF DocumentedInv
  <2>12. Frames'
    <3>1. \A j : \A k \in Nat : At(k, DestroySurface(j)) => At(k, DestroySurface(j))'
      BY <1>1, <2>3, Added
    <3>2. \A j : \A k \in Nat : At(k, DestroySurface(j)) => k - 0 \in Nat /\ At(k - 0, DestroySurface(j))'
      <4>1. \A k \in Nat : k - 0 = k
        OBVIOUS
      <4> QED BY <3>1, <4>1
    <3>3. Frames /\ (connected' => connected) /\ role' = role
      BY DEF DocumentedInv, serverVars
    <3> QED BY <2>7, <2>9, <3>2, <3>3, FramesShift
  <2> QED BY <1>4, <2>5, <2>6, <2>10, <2>11, <2>12 DEF DocumentedInv
<1> QED BY <1>5, <1>6

LEMMA UnmapKeeps ==
    ASSUME DocumentedInv, NEW w \in Windows, Unmap(w) PROVE DocumentedInv'
<1>1. SurfaceInv /\ Shape /\ SurfaceInv' /\ SurfaceTypeOK
  BY UnmapStep DEF DocumentedInv, SurfaceInv
<1>2. PICK s \in Structs : s = data[w]
  BY <1>1 DEF Unmap, SurfaceTypeOK
<1>3. /\ slot' = Unmapped(s) /\ SendUnmap(s) /\ st' = [st EXCEPT ![s].obj = NULL]
      /\ UNCHANGED <<appVars, proxyVars, toClient, serverVars, windowVars, role>>
  BY <1>2 DEF Unmap
<1>4. \A t \in Structs :
        /\ st'[t].lock = st[t].lock /\ st'[t].mon = st[t].mon /\ st'[t].win = st[t].win
        /\ st'[t].state = st[t].state /\ st'[t].size = st[t].size
        /\ st'[t].obj = IF t = s THEN NULL ELSE st[t].obj
  BY <1>1, <1>3, Unpointed
<1>5. \A v \in Windows, i \in Ids, n \in Serial : Drawable(v, i, n)' => Drawable(v, i, n)
  BY <1>1, <1>3, <1>4, Fields DEF Drawable, windowVars, SurfaceTypeOK
<1> QED BY <1>1, <1>3, <1>4, <1>5, LettingGoKeeps DEF windowVars

LEMMA DestroyWindowKeeps ==
    ASSUME DocumentedInv, NEW w \in Windows, data[w] # NULL, DestroyWindow(w) PROVE DocumentedInv'
<1>1. SurfaceInv /\ Shape /\ SurfaceInv' /\ SurfaceTypeOK
  BY DestroyWindowStep DEF DocumentedInv, SurfaceInv
<1>2. PICK s \in Structs : s = data[w]
  BY <1>1 DEF SurfaceTypeOK
<1>3. /\ slot' = Unmapped(s) /\ SendUnmap(s) /\ st' = [st EXCEPT ![s].state = "freed", ![s].obj = NULL]
      /\ UNCHANGED <<appVars, proxyVars, toClient, serverVars, freeze, role>>
  BY <1>2, SMTT(30) DEF DestroyWindow
<1>4. \A t \in Structs :
        /\ st'[t].lock = st[t].lock /\ st'[t].mon = st[t].mon /\ st'[t].win = st[t].win
        /\ st'[t].state = IF t = s THEN "freed" ELSE st[t].state
        /\ st'[t].obj = IF t = s THEN NULL ELSE st[t].obj
        /\ t # s => st'[t] = st[t]
  BY <1>1, <1>3, Freed
<1>5. /\ \A v \in Windows : win'[v] = IF v = w THEN "destroyed" ELSE win[v]
      /\ \A v \in Windows : cur'[v] = IF v = w THEN NULL ELSE cur[v]
      /\ \A v \in Windows : data'[v] = IF v = w THEN NULL ELSE data[v]
  BY <1>1 DEF DestroyWindow, SurfaceTypeOK
<1>6. st[s].state = "live" /\ st[s].win = w
  BY <1>1, <1>2 DEF SurfaceInv, Attached
<1>7. \A v \in Windows : v # w /\ data[v] # NULL => data[v] \in Structs \ {s}
  BY <1>1, <1>6 DEF SurfaceInv, SurfaceTypeOK, Attached
<1>8. \A t \in Structs : st[t].win = w => st'[t].obj = NULL
  <2> SUFFICES ASSUME NEW t \in Structs, st[t].win = w, t # s, st[t].obj # NULL PROVE FALSE
    BY <1>4
  <2>1. st[t].state = "live"
    BY <1>1, Fields DEF SurfaceInv, Owned, Backed
  <2> QED BY <1>1, <1>2, <2>1 DEF Shape, OneStruct
<1>9. \A v \in Windows, i \in Ids, n \in Serial : Drawable(v, i, n)' => Drawable(v, i, n)
  BY <1>3, <1>4, <1>5, <1>7 DEF Drawable
<1>10. \A v \in Windows :
        /\ data'[v] = data[v] \/ (data[v] # NULL => st'[data[v]].state # "live")
        /\ win'[v] = "mapped" => win[v] = "mapped" /\ cur'[v] = cur[v] /\ data'[v] = data[v]
        /\ \/ win'[v] = win[v] /\ cur'[v] = cur[v]
           \/ \A t \in Structs : st[t].win = v => st'[t].obj = NULL
  BY <1>2, <1>4, <1>5, <1>8
<1>11. \A t \in Structs : /\ st'[t].state = "none" <=> st[t].state = "none"
                          /\ st'[t].state = "live" => st[t].state = "live"
  BY <1>4, <1>6
<1> QED BY <1>1, <1>3, <1>4, <1>9, <1>10, <1>11, LettingGoKeeps

(* A window is shown while its lock is owned: its struct has no lock       *)
(* surface yet and asks for one.                                           *)
LEMMA ShowKeeps ==
    ASSUME DocumentedInv, NEW w \in Windows, data[w] # NULL, proxy[st[data[w]].lock] = "live", Show(w)
    PROVE  DocumentedInv'
<1>1. SurfaceInv /\ Shape /\ SurfaceInv' /\ SurfaceTypeOK /\ LockInv /\ LockTypes
  BY ShowStep DEF DocumentedInv, SurfaceInv, LockInv, WireInv, HandleInv
<1>2. PICK s \in Structs : s = data[w]
  BY <1>1 DEF SurfaceTypeOK
<1>3. st[s].state = "live" /\ st[s].win = w /\ win[w] # "mapped" /\ MayCall
  BY <1>1, <1>2 DEF SurfaceInv, Attached, Show
<1>4. st[s].obj = NULL
  BY <1>1, <1>3 DEF Shape, ShownBy
<1>5. PICK o \in Objs : o = st[s].lock /\ proxy[o] = "live"
  BY <1>1, <1>2, <1>3 DEF Shape, StructLock
<1>6. PICK m \in Outputs : m = st[s].mon
  BY <1>1, <1>3 DEF Shape, StructLock
<1>7. PICK i \in Ids, b \in BOOLEAN :
        /\ Fresh(i) /\ cur' = [cur EXCEPT ![w] = i]
        /\ freeze' = [freeze EXCEPT ![w] = @ + 1]
        /\ slot' = [slot EXCEPT ![i] = Surface(w, "live", s, b)]
        /\ st' = [st EXCEPT ![s].obj = i]
        /\ Queue(GetLockSurface(i, o, m))
  <2>1. PICK i \in Ids, b \in BOOLEAN : Fresh(i) /\ cur' = [cur EXCEPT ![w] = i] /\ Map(w, s, i, b)
    BY <1>2 DEF Show, Detached
  <2> QED BY <1>4, <1>5, <1>6, <2>1 DEF Map
<1>8. /\ UNCHANGED <<appVars, proxyVars, toClient, serverVars, data, role>>
      /\ win' = [win EXCEPT ![w] = "mapped"]
  BY DEF Show
<1>9. /\ slot'[i].state = "live" /\ slot'[i].data = s
      /\ \A j \in Ids \ {i} : slot'[j] = slot[j]
  <2>1. PICK r \in SlotRecords : r = Surface(w, "live", s, b) /\ r.state = "live" /\ r.data = s
    BY SurfaceRecord
  <2> QED BY <1>1, <1>7, <2>1 DEF SurfaceTypeOK
<1>10. \A t \in Structs :
        /\ st'[t].win = st[t].win /\ st'[t].mon = st[t].mon /\ st'[t].lock = st[t].lock
        /\ st'[t].state = st[t].state /\ st'[t].size = st[t].size
        /\ st'[t].obj = IF t = s THEN i ELSE st[t].obj
  <2>1. st' = [st EXCEPT ![s].obj = i]
    BY <1>7
  <2>2. SurfaceTypeOK
    BY <1>1
  <2> QED BY <2>1, <2>2, Pointed
<1>11. /\ \A v \in Windows : win'[v] = IF v = w THEN "mapped" ELSE win[v]
       /\ \A v \in Windows : cur'[v] = IF v = w THEN i ELSE cur[v]
  BY <1>1, <1>7, <1>8 DEF SurfaceTypeOK
<1>12. freeze'[w] # 0 /\ \A v \in Windows \ {w} : freeze'[v] = freeze[v]
  <2>1. freeze \in [Windows -> Nat]
    BY <1>1 DEF SurfaceTypeOK
  <2>2. freeze'[w] = freeze[w] + 1 /\ freeze[w] \in Nat
    BY <1>7, <2>1
  <2> QED BY <1>7, <2>1, <2>2
<1>13. slot[i].state = "none" /\ ~Made(i) /\ \A j \in Ids : j < i => slot[j].state # "none"
  BY <1>7 DEF Fresh, Made
<1>14. \A j \in Ids : Made(j)' <=> Made(j) \/ j = i
  BY <1>9, <1>13 DEF Made
<1>15. s # NULL /\ i # NULL /\ Ids \subseteq Nat
  BY SurfaceConstants
<1> DEFINE q == GetLockSurface(i, o, m)
<1>16. /\ toServer' = Append(toServer, q) /\ q.op = "get_lock_surface"
       /\ client' = client \/ (client = "synced" /\ client' = "running")
  BY <1>7, SurfaceOps DEF Queue
<1>17. Shape' /\ StructsKept
  <2>1. LiveStructs' /\ NoPlain' /\ InOrder'
    <3>1. LiveStructs'
      BY <1>1, <1>3, <1>9, <1>10, <1>14 DEF Shape, LiveStructs, Made
    <3>2. NoPlain'
      BY <1>1, <1>9 DEF Shape, NoPlain
    <3>3. InOrder'
      BY <1>1, <1>9, <1>13 DEF Shape, InOrder
    <3> QED BY <3>1, <3>2, <3>3
  <2>2. OneEach' /\ StructLock'
    BY <1>1, <1>8, <1>10 DEF Shape, OneEach, StructLock, proxyVars
  <2>3. LatestLives'
    <3> SUFFICES ASSUME NEW j \in Ids, NEW k \in Ids, Made(j)', slot'[k].state = "live",
                        slot'[j].data = slot'[k].data
                 PROVE  j <= k
      BY DEF LatestLives
    <3>1. CASE k = i
      <4>1. j = i \/ slot[j].state # "none"
        BY <1>14 DEF Made
      <4>2. ~(i < j)
        BY <1>1, <1>13, <4>1 DEF Shape, InOrder
      <4> QED BY <1>15, <3>1, <4>2
    <3>2. CASE k # i
      <4>1. slot'[k] = slot[k] /\ slot[k].state = "live" /\ st[slot[k].data].obj = k /\ k # NULL
        BY <1>1, <1>9, <3>2, SurfaceConstants DEF SurfaceInv, Backed
      <4>2. j # i /\ Made(j) /\ slot'[j] = slot[j]
        BY <1>4, <1>9, <1>14, <4>1
      <4> QED BY <1>1, <4>1, <4>2 DEF Shape, LatestLives
    <3> QED BY <3>1, <3>2
  <2>4. OneStruct'
    BY <1>1, <1>8, <1>10 DEF Shape, OneStruct
  <2>5. ShownBy'
    <3> SUFFICES ASSUME NEW t \in Structs, st'[t].obj # NULL
                 PROVE  win'[st'[t].win] = "mapped" /\ cur'[st'[t].win] = st'[t].obj
      BY DEF ShownBy
    <3>1. CASE t = s
      BY <1>3, <1>10, <1>11, <3>1
    <3>2. CASE t # s
      <4>1. st'[t].obj = st[t].obj /\ st'[t].win = st[t].win /\ st[t].obj # NULL
        BY <1>10, <3>2
      <4>2. win[st[t].win] = "mapped" /\ cur[st[t].win] = st[t].obj
        BY <1>1, <4>1 DEF Shape, ShownBy
      <4>3. st[t].win \in Windows
        BY <1>1, <4>1, Fields DEF SurfaceInv, Owned, Backed, Placed
      <4> QED BY <1>3, <1>11, <4>1, <4>2, <4>3
    <3> QED BY <3>1, <3>2
  <2>6. Mapped'
    <3> SUFFICES ASSUME NEW v \in Windows, win'[v] = "mapped"
                 PROVE  data'[v] # NULL /\ cur'[v] \in Ids /\ slot'[cur'[v]].data = data'[v]
                         /\ slot'[cur'[v]].state \in {"live", "destroyed"}
      BY DEF Mapped, Made
    <3>1. CASE v = w
      BY <1>2, <1>8, <1>9, <1>11, <3>1
    <3>2. CASE v # w
      <4>1. data[v] # NULL /\ cur[v] \in Ids /\ Made(cur[v]) /\ slot[cur[v]].data = data[v]
        BY <1>1, <1>11, <3>2 DEF Shape, Mapped
      <4>2. slot'[cur[v]] = slot[cur[v]]
        BY <1>9, <1>13, <4>1
      <4> QED BY <1>8, <1>11, <3>2, <4>1, <4>2 DEF Made
    <3> QED BY <3>1, <3>2
  <2>7. StructsKept
    BY <1>1, <1>9, <1>10, <1>13 DEF Shape, LiveStructs, StructsKept, LockOf, MonOf
  <2> QED BY <2>1, <2>2, <2>3, <2>4, <2>5, <2>6, <2>7 DEF Shape
<1>18. LockInv'
  <2>1. q.op \in SurfaceRequests
    BY <1>16 DEF SurfaceRequests
  <2> HIDE DEF q
  <2> QED BY <1>1, <1>8, <1>16, <2>1, SurfacesKeepLocks
<1>19. Turns'
  <2>1. o = LockOf(i)' /\ m = MonOf(i)'
    BY <1>5, <1>6, <1>9, <1>10 DEF LockOf, MonOf
  <2>2. Turns /\ role' = role /\ (connected' => connected)
    BY <1>8 DEF DocumentedInv, serverVars
  <2> QED BY <1>1, <1>9, <1>13, <1>16, <1>17, <2>1, <2>2, TurnsGet
<1>20. GetsInLock'
  <2>1. res[o] # "gone"
    <3>1. connected /\ ObjectsAgree
      BY <1>1, <1>3, RunningIsConnected
    <3> QED BY <1>5, <3>1 DEF ObjectsAgree, RecordMatchesWire
  <2>2. \A k \in Nat, p \in Requests : At(k, Msg(p, o)) => p = "lock"
    <3>1. ~Sent("destroy", o) /\ ~Sent("unlock_and_destroy", o) /\ ~Sent("sync", o)
      BY <1>1, <1>5 DEF LockInv, WireInv, HandleInv, WireMatchesProxy
    <3> QED BY <3>1 DEF Sent, At, Requests
  <2>3. GetsInLock /\ res' = res
    BY <1>8 DEF DocumentedInv, serverVars
  <2> QED BY <1>1, <1>16, <2>1, <2>2, <2>3, GetsInLockGet
<1> DEFINE M == {"ack_configure", "commit"}
<1>21. ServerShift(0, M) /\ ServerShift(0, {"ack_configure"})
  <2>1. q.op \notin M /\ q.op \notin {"ack_configure"}
    BY <1>16
  <2> HIDE DEF M, q
  <2> QED BY <1>1, <1>16, <2>1, AddedShift
<1>22. {"ack_configure", "commit"} \subseteq M
  OBVIOUS
<1> HIDE DEF M
<1>23. /\ \A j, n : \A k \in Nat : At(k, AckConfigure(j, n))' => At(k + 0, AckConfigure(j, n))
       /\ \A j, n : \A k \in Nat : At(k, Commit(j, n))' => At(k + 0, Commit(j, n))
  BY <1>21, <1>22, Shifted
<1>24. Serials'
  <2>1. ClientShift(0, {"configure"})
    BY <1>8, DueSameShift
  <2>2. \A j, n : \A k \in Nat : Due(k, Configure(j, n))' => Due(k + 0, Configure(j, n))
    BY <2>1, ConfiguresShifted
  <2> QED BY <1>8, <1>23, <2>2, SerialsShift DEF DocumentedInv
<1>25. Frames'
  <2>1. \A j : \A k \in Nat : At(k, DestroySurface(j)) => At(k, DestroySurface(j))'
    BY <1>1, <1>16, Added
  <2>2. \A j : \A k \in Nat : At(k, DestroySurface(j)) => k - 0 \in Nat /\ At(k - 0, DestroySurface(j))'
    <3>1. \A k \in Nat : k - 0 = k
      OBVIOUS
    <3> QED BY <2>1, <3>1
  <2>3. Frames /\ (connected' => connected) /\ role' = role
    BY <1>8 DEF DocumentedInv, serverVars
  <2>4. \A v \in Windows : v # w /\ data[v] # NULL => data[v] \in Structs \ {s}
    BY <1>1, <1>3 DEF SurfaceInv, SurfaceTypeOK, Attached
  <2>5. \A v \in Windows, j \in Ids, n \in Serial : Drawable(v, j, n)' => Drawable(v, j, n)
    BY <1>8, <1>10, <1>11, <1>12, <2>4 DEF Drawable
  <2> QED BY <1>21, <1>23, <2>2, <2>3, <2>5, FramesShift
<1> QED BY <1>1, <1>17, <1>18, <1>19, <1>20, <1>24, <1>25 DEF DocumentedInv
-----------------------------------------------------------------------------
(* A configure is dispatched: a live surface acks it, a dead one drops it. *)
LEMMA HandleConfigureKeeps ==
    ASSUME DocumentedInv, NEW i \in Ids, NEW n \in Serial, HandleConfigure(i, n)
    PROVE  DocumentedInv'
<1>1. SurfaceInv /\ Shape /\ SurfaceInv' /\ SurfaceTypeOK /\ LockInv /\ LockTypes /\ Serials
  BY HandleConfigureStep DEF DocumentedInv, SurfaceInv, LockInv, WireInv, HandleInv
<1>2. /\ toClient # <<>> /\ Head(toClient) = Configure(i, n) /\ toClient' = Tail(toClient)
      /\ UNCHANGED <<appVars, proxyVars, serverVars, win, data, cur, slot, role>>
  BY DEF HandleConfigure
<1>3. Configure(i, n).op = "configure"
  BY SurfaceOps
<1>4. UNCHANGED <<slot, role, res, connected>>
  BY <1>2 DEF serverVars
<1>5. CASE ~(slot[i].state = "live" /\ st[slot[i].data].state = "live")
  <2>1. Quiet /\ UNCHANGED <<st, freeze>>
    BY <1>5 DEF HandleConfigure
  <2>2. toServer' = toServer /\ client' = client
    BY <2>1 DEF Quiet
  <2>3. LockInv'
    BY <1>1, <1>2, <1>3, <2>2, SurfacesKeepLocks
  <2>4. Shape' /\ StructsKept
    BY <1>1, <1>2, <2>1, ShapeShrinks DEF proxyVars
  <2>5. \A v \in Windows, j \in Ids, p \in Serial : Drawable(v, j, p)' => Drawable(v, j, p)
    BY <1>2, <2>1 DEF Drawable
  <2>6. \A j, p : \A k \in Nat : Due(k, Configure(j, p))' => Due(k + 1, Configure(j, p))
    BY <1>1, <1>2, DueTaken
  <2>7. Turns' /\ GetsInLock' /\ Serials' /\ Frames'
    BY <1>4, <2>2, <2>4, <2>5, <2>6, QuietKeeps DEF DocumentedInv
  <2> QED BY <1>1, <2>3, <2>4, <2>7 DEF DocumentedInv
<1>6. CASE slot[i].state = "live" /\ st[slot[i].data].state = "live"
  <2>1. PICK s \in Structs : s = slot[i].data /\ st[s].state = "live" /\ st[s].obj = i
    BY <1>1, <1>6 DEF SurfaceInv, Backed
  <2>2. st[s].win \in Windows /\ data[st[s].win] = s
    BY <1>1, <2>1 DEF SurfaceInv, Placed, Shape, OneStruct
  <2>3. PICK w \in Windows : w = st[s].win /\ data[w] = s
    BY <2>2
  <2>4. /\ Queue(AckConfigure(i, n)) /\ st' = [st EXCEPT ![s].size = n, ![s].first = TRUE]
        /\ freeze' = IF st[s].first \/ freeze[w] = 0 THEN freeze ELSE [freeze EXCEPT ![w] = @ - 1]
    BY <1>6, <2>1, <2>3 DEF HandleConfigure
  <2>5. \A t \in Structs :
            /\ st'[t].win = st[t].win /\ st'[t].mon = st[t].mon /\ st'[t].lock = st[t].lock
            /\ st'[t].state = st[t].state /\ st'[t].obj = st[t].obj
            /\ st'[t].size = IF t = s THEN n ELSE st[t].size
    <3>1. st' = [st EXCEPT ![s].size = n, ![s].first = TRUE]
      BY <2>4
    <3>2. SurfaceTypeOK
      BY <1>1
    <3> QED BY <3>1, <3>2, Sized
  <2>6. \A v \in Windows \ {w} : freeze'[v] = freeze[v]
    BY <1>1, <2>4 DEF SurfaceTypeOK
  <2> DEFINE q == AckConfigure(i, n)
  <2>7. /\ toServer' = Append(toServer, q) /\ q.op = "ack_configure"
        /\ client' = client \/ (client = "synced" /\ client' = "running")
    BY <2>4, SurfaceOps DEF Queue
  <2>8. LockInv'
    <3>1. q.op \in SurfaceRequests
      BY <2>7 DEF SurfaceRequests
    <3> HIDE DEF q
    <3> QED BY <1>1, <1>2, <1>3, <2>7, <3>1, SurfacesKeepLocks
  <2>9. Shape' /\ StructsKept
    BY <1>1, <1>2, <2>5, ShapeShrinks DEF proxyVars
  <2> DEFINE M == Requests \cup {"get_lock_surface"}
  <2>10. ServerShift(0, M) /\ ServerShift(0, {"get_lock_surface", "destroy_surface"})
    <3>1. q.op \notin M /\ q.op \notin {"get_lock_surface", "destroy_surface"}
      BY <2>7 DEF Requests
    <3> HIDE DEF M, q
    <3> QED BY <1>1, <2>7, <3>1, AddedShift
  <2>11. Requests \subseteq M /\ {"get_lock_surface"} \subseteq M
    OBVIOUS
  <2> HIDE DEF M
  <2>12. /\ \A j, o, m : \A k \in Nat : At(k, GetLockSurface(j, o, m))' => At(k + 0, GetLockSurface(j, o, m))
         /\ \A p \in Requests : \A o : \A k \in Nat : At(k, Msg(p, o))' => At(k + 0, Msg(p, o))
    BY <2>10, <2>11, Shifted
  <2>13. Turns'
    BY <1>4, <2>9, <2>10, TurnsShift DEF DocumentedInv
  <2>14. GetsInLock'
    BY <1>4, <2>12, GetsInLockShift DEF DocumentedInv
  <2>15. Serials'
    BY <1>1, <1>2, <1>4, <2>7, SerialsAck
  <2>16. Due(1, Configure(i, n)) /\ role[i].acked \in Nat
    BY <1>1, <1>2, DueTaken, RoleNumbers
  <2>17. n # 0
    <3>1. role[i].acked < n /\ n \in Nat
      BY <1>1, <2>16, SerialTypes DEF Serials, ConfiguresNew
    <3> QED BY <2>16, <3>1
  <2>18. \A k \in Nat, p \in Serial : At(k, AckConfigure(i, p)) => p <= n
    <3> SUFFICES ASSUME NEW k \in Nat, NEW p \in Serial, At(k, AckConfigure(i, p)) PROVE p <= n
      OBVIOUS
    <3>1. p < n /\ p \in Nat /\ n \in Nat
      BY <1>1, <2>16, SerialTypes DEF Serials, AcksFirst
    <3> QED BY <3>1
  <2>19. ASSUME NEW v \in Windows, NEW j \in Ids, NEW p \in Serial, Drawable(v, j, p)'
         PROVE  IF j = i THEN p = n ELSE Drawable(v, j, p)
    <3>1. /\ win[v] = "mapped" /\ data[v] # NULL /\ freeze'[v] = 0
          /\ st'[data[v]].obj = j /\ st'[data[v]].size = p
      BY <1>2, <2>19 DEF Drawable
    <3>2. PICK t \in Structs : t = data[v]
      BY <1>1, <3>1 DEF SurfaceTypeOK
    <3>3. CASE t = s
      BY <2>1, <2>5, <3>1, <3>2, <3>3
    <3>4. CASE t # s
      <4>1. v # w
        BY <2>3, <3>2, <3>4
      <4>2. st[t].obj = j /\ slot[j].data = t
        BY <1>1, <2>5, <3>1, <3>2, SurfaceConstants DEF SurfaceInv, Owned
      <4>3. j # i
        BY <2>1, <3>4, <4>2
      <4> QED BY <2>5, <2>6, <3>1, <3>2, <3>4, <4>1, <4>3 DEF Drawable
    <3> QED BY <3>3, <3>4
  <2>20. Frames'
    <3>1. Frames
      BY DEF DocumentedInv
    <3> QED BY <1>1, <1>4, <2>7, <2>17, <2>18, <2>19, <3>1, FramesAck
  <2> QED BY <1>1, <2>8, <2>9, <2>13, <2>14, <2>15, <2>20 DEF DocumentedInv
<1> QED BY <1>5, <1>6

(* The frame clock draws a window: the frame has the size acked last.      *)
LEMMA PaintKeeps ==
    ASSUME DocumentedInv, NEW w \in Windows, Paint(w) PROVE DocumentedInv'
<1>1. SurfaceInv /\ Shape /\ SurfaceInv' /\ SurfaceTypeOK /\ LockInv /\ LockTypes
  BY PaintStep DEF DocumentedInv, SurfaceInv, LockInv, WireInv, HandleInv
<1>2. /\ MayCall /\ win[w] = "mapped" /\ freeze[w] = 0 /\ data[w] # NULL
      /\ Queue(Commit(cur[w], st[data[w]].size))
      /\ UNCHANGED <<appVars, proxyVars, toClient, serverVars, win, data, freeze, cur, st, slot, role>>
  BY DEF Paint
<1>3. PICK s \in Structs : s = data[w]
  BY <1>1, <1>2 DEF SurfaceTypeOK
<1>4. PICK i \in Ids : i = cur[w] /\ Made(i) /\ slot[i].data = s
  BY <1>1, <1>2, <1>3 DEF Shape, Mapped
<1>5. PICK n \in Serial : n = st[s].size
  BY <1>1, Fields
<1>6. UNCHANGED <<slot, role, res, connected>>
  BY <1>2 DEF serverVars
<1> DEFINE q == Commit(i, n)
<1>7. /\ toServer' = Append(toServer, q) /\ q.op = "commit"
      /\ client' = client \/ (client = "synced" /\ client' = "running")
  BY <1>2, <1>3, <1>4, <1>5, SurfaceOps DEF Queue
<1>8. LockInv'
  <2>1. q.op \in SurfaceRequests
    BY <1>7 DEF SurfaceRequests
  <2> HIDE DEF q
  <2> QED BY <1>1, <1>2, <1>7, <2>1, SurfacesKeepLocks
<1>9. Shape' /\ StructsKept
  BY <1>1, <1>2, ShapeShrinks DEF proxyVars
<1> DEFINE M == Requests \cup {"get_lock_surface", "ack_configure"}
<1>10. ServerShift(0, M) /\ ServerShift(0, {"get_lock_surface", "destroy_surface"})
  <2>1. q.op \notin M /\ q.op \notin {"get_lock_surface", "destroy_surface"}
    BY <1>7 DEF Requests
  <2> HIDE DEF M, q
  <2> QED BY <1>1, <1>7, <2>1, AddedShift
<1>11. Requests \subseteq M /\ {"get_lock_surface", "ack_configure"} \subseteq M
  OBVIOUS
<1> HIDE DEF M
<1>12. /\ \A j, o, m : \A k \in Nat : At(k, GetLockSurface(j, o, m))' => At(k + 0, GetLockSurface(j, o, m))
       /\ \A j, p : \A k \in Nat : At(k, AckConfigure(j, p))' => At(k + 0, AckConfigure(j, p))
       /\ \A p \in Requests : \A o : \A k \in Nat : At(k, Msg(p, o))' => At(k + 0, Msg(p, o))
  BY <1>10, <1>11, Shifted
<1>13. Turns'
  BY <1>6, <1>9, <1>10, TurnsShift DEF DocumentedInv
<1>14. GetsInLock'
  BY <1>6, <1>12, GetsInLockShift DEF DocumentedInv
<1>15. Serials'
  <2>1. ClientShift(0, {"configure"})
    BY <1>2, DueSameShift
  <2>2. \A j, p : \A k \in Nat : Due(k, Configure(j, p))' => Due(k + 0, Configure(j, p))
    BY <2>1, ConfiguresShifted
  <2> QED BY <1>6, <1>12, <2>2, SerialsShift DEF DocumentedInv
<1>16. (n # 0 /\ Current(i, n)) \/ role[i].state = "gone" \/ Asked(DestroySurface(i))
  <2>1. connected
    BY <1>1, <1>2, RunningIsConnected
  <2>2. CASE slot[i].state = "live"
    <3>1. st[s].obj = i
      BY <1>1, <1>4, <2>2 DEF SurfaceInv, Backed
    <3>2. Drawable(w, i, n)
      BY <1>2, <1>3, <1>5, <3>1 DEF Drawable
    <3> QED BY <2>1, <3>2 DEF DocumentedInv, Frames, Thawed
  <2>3. CASE slot[i].state = "destroyed"
    BY <2>1, <2>3 DEF DocumentedInv, Turns, DestroyedAreGone
  <2> QED BY <1>4, <2>2, <2>3 DEF Made
<1>17. Frames'
  <2>1. Frames
    BY DEF DocumentedInv
  <2>2. \A v \in Windows, j \in Ids, p \in Serial : Drawable(v, j, p)' => Drawable(v, j, p)
    BY <1>2 DEF Drawable
  <2> QED BY <1>1, <1>6, <1>7, <1>16, <2>1, <2>2, FramesCommit
<1> QED BY <1>1, <1>8, <1>9, <1>13, <1>14, <1>15, <1>17 DEF DocumentedInv

-----------------------------------------------------------------------------
(* The compositor reads: no request is ever out of turn.                   *)
LEMMA EventsAdded ==
    ASSUME LockTypes, NEW m
    PROVE  toClient \o <<>> = toClient /\ toClient \o <<m>> = Append(toClient, m)
<1>1. PICK S : toClient \in Seq(S)
  BY DEF LockTypes
<1>2. toClient \o <<>> = toClient
  BY <1>1
<1>3. toClient \o <<m>> = Append(toClient, m)
  BY <1>1
<1> QED BY <1>2, <1>3

LEMMA FirstMessage ==
    ASSUME LockTypes, NEW m, Arrived(m) PROVE At(1, m)
<1>1. toServer # <<>> /\ Head(toServer) = m
  BY DEF Arrived
<1>2. PICK S : toServer \in Seq(S)
  BY DEF LockTypes
<1>3. Len(toServer) \in Nat /\ Len(toServer) > 0 /\ toServer[1] = m
  BY <1>1, <1>2
<1> QED BY <1>3 DEF At

(* What every answer leaves as it is.                                      *)
LEMMA ReadKeeps ==
    ASSUME DocumentedInv, SurfaceInv', NEW q, q.op \in SurfaceRequests,
           Arrived(q), toServer' = Tail(toServer),
           toClient' = toClient \/ \E m : m.op = "configure" /\ toClient' = Append(toClient, m),
           UNCHANGED <<appVars, proxyVars, client, serverVars, windowVars, st, slot>>
    PROVE  LockInv' /\ Shape' /\ StructsKept /\ GetsInLock'
<1>1. LockInv /\ LockTypes /\ Shape /\ SurfaceInv
  BY DEF DocumentedInv, LockInv, WireInv, HandleInv
<1>2. LockInv'
  BY <1>1, SurfacesKeepLocks
<1>3. Shape' /\ StructsKept
  BY <1>1, ShapeShrinks DEF proxyVars, windowVars
<1>4. \A x : \A k \in Nat : At(k, x)' => At(k + 1, x)
  BY <1>1, Taken
<1>5. GetsInLock'
  BY <1>4, GetsInLockShift DEF DocumentedInv, serverVars
<1> QED BY <1>2, <1>3, <1>5

LEMMA HandleDestroyKeeps ==
    ASSUME DocumentedInv, NEW i \in Ids, HandleDestroySurface(i) PROVE DocumentedInv'
<1>1. LockTypes /\ SurfaceTypeOK /\ SurfaceInv'
  BY ServeSurfaceStep DEF DocumentedInv, SurfaceInv, LockInv, WireInv, HandleInv
<1> DEFINE q == DestroySurface(i)
<1>2. /\ Arrived(q) /\ toServer' = Tail(toServer) /\ role' = [role EXCEPT ![i] = [role[i] EXCEPT !.state = "gone"]]
      /\ toClient' = toClient \o <<>>
      /\ UNCHANGED <<appVars, proxyVars, client, serverVars, windowVars, st, slot>>
  BY DEF HandleDestroySurface, Answer
<1>3. toClient' = toClient
  BY <1>1, <1>2, EventsAdded
<1>4. /\ role'[i].state = "gone" /\ role'[i].acked = role[i].acked /\ role'[i].sent = role[i].sent
      /\ \A j \in Ids \ {i} : role'[j] = role[j]
  BY <1>1, <1>2 DEF SurfaceTypeOK, RoleRecords
<1>5. q.op = "destroy_surface"
  BY SurfaceOps
<1>6. LockInv' /\ Shape' /\ StructsKept /\ GetsInLock'
  <2>1. q.op \in SurfaceRequests
    BY <1>5 DEF SurfaceRequests
  <2> HIDE DEF q
  <2> QED BY <1>1, <1>2, <1>3, <2>1, ReadKeeps
<1>7. connected' = connected /\ \A x : \A k \in Nat : At(k, x)' => At(k + 1, x)
  BY <1>1, <1>2, Taken DEF serverVars
<1>8. Turns'
  BY <1>1, <1>2, <1>4, <1>7, TurnsTakeDestroy DEF DocumentedInv
<1>9. Serials'
  <2>1. ClientShift(0, {"configure"})
    BY <1>3, DueSameShift
  <2>2. \A j, p : \A k \in Nat : Due(k, Configure(j, p))' => Due(k + 0, Configure(j, p))
    BY <2>1, ConfiguresShifted
  <2> QED BY <1>4, <1>7, <2>2, SerialsShift DEF DocumentedInv
<1>10. Frames'
  <2>1. \A v \in Windows, j \in Ids, p \in Serial : Drawable(v, j, p)' => Drawable(v, j, p)
    BY <1>2 DEF Drawable, windowVars
  <2> QED BY <1>1, <1>2, <1>4, <1>7, <2>1, FramesTakeDestroy DEF DocumentedInv
<1> QED BY <1>1, <1>6, <1>8, <1>9, <1>10 DEF DocumentedInv

(* A request is read that neither makes nor ends a surface: the others     *)
(* move up.                                                                *)
LEMMA ReadShifts ==
    ASSUME LockTypes, NEW q, q.op \notin {"get_lock_surface", "destroy_surface"},
           Arrived(q), toServer' = Tail(toServer)
    PROVE  ServerShift(1, {"get_lock_surface", "destroy_surface"})
  BY TakenShift

(* An ack has a serial that the compositor sent and has not had back.      *)
LEMMA AckIsLegal ==
    ASSUME DocumentedInv, NEW i \in Ids, NEW n \in Serial, HandleAck(i, n)
    PROVE  Arrived(AckConfigure(i, n)) /\ Answer(i, [role[i] EXCEPT !.acked = n], <<>>)
<1>1. LockTypes /\ SurfaceTypeOK /\ Arrived(AckConfigure(i, n))
  BY DEF DocumentedInv, SurfaceInv, LockInv, WireInv, HandleInv, HandleAck
<1>2. At(1, AckConfigure(i, n))
  BY <1>1, FirstMessage
<1>3. role[i].acked < n /\ n <= role[i].sent
  BY <1>2 DEF DocumentedInv, Serials, AcksNew
<1>4. role[i].acked \in Nat /\ role[i].sent \in Nat /\ n \in Nat
  BY <1>1, RoleNumbers, SerialTypes
<1>5. n \in role[i].acked + 1 .. role[i].sent
  BY <1>3, <1>4
<1> QED BY <1>1, <1>5 DEF HandleAck

LEMMA HandleAckKeeps ==
    ASSUME DocumentedInv, NEW i \in Ids, NEW n \in Serial, HandleAck(i, n) PROVE DocumentedInv'
<1>1. LockTypes /\ SurfaceTypeOK /\ SurfaceInv'
  BY ServeSurfaceStep DEF DocumentedInv, SurfaceInv, LockInv, WireInv, HandleInv
<1> DEFINE q == AckConfigure(i, n)
<1>2. Arrived(q) /\ q.op = "ack_configure"
  BY SurfaceOps DEF HandleAck
<1>3. Answer(i, [role[i] EXCEPT !.acked = n], <<>>)
  BY AckIsLegal
<1>5. /\ toServer' = Tail(toServer) /\ role' = [role EXCEPT ![i] = [role[i] EXCEPT !.acked = n]]
      /\ toClient' = toClient \o <<>>
      /\ UNCHANGED <<appVars, proxyVars, client, serverVars, windowVars, st, slot>>
  BY <1>3 DEF Answer
<1>6. toClient' = toClient
  BY <1>1, <1>5, EventsAdded
<1>7. /\ role'[i].acked = n /\ role'[i].state = role[i].state /\ role'[i].sent = role[i].sent
      /\ role'[i].lock = role[i].lock /\ role'[i].out = role[i].out
      /\ \A j \in Ids \ {i} : role'[j] = role[j]
  BY <1>1, <1>5 DEF SurfaceTypeOK, RoleRecords
<1>8. LockInv' /\ Shape' /\ StructsKept /\ GetsInLock'
  <2>1. q.op \in SurfaceRequests
    BY <1>2 DEF SurfaceRequests
  <2> HIDE DEF q
  <2> QED BY <1>1, <1>2, <1>5, <1>6, <2>1, ReadKeeps
<1>9. connected' = connected
  BY <1>5 DEF serverVars
<1>10. Turns'
  <2>1. q.op \notin {"get_lock_surface", "destroy_surface"}
    BY <1>2
  <2> HIDE DEF q
  <2>2. ServerShift(1, {"get_lock_surface", "destroy_surface"})
    BY <1>1, <1>2, <1>5, <2>1, ReadShifts
  <2> QED BY <1>5, <1>7, <1>8, <1>9, <2>2, TurnsShift DEF DocumentedInv
<1>11. Serials'
  BY <1>1, <1>2, <1>5, <1>6, <1>7, SerialsTakeAck DEF DocumentedInv
<1>12. Frames'
  <2>1. \A v \in Windows, j \in Ids, p \in Serial : Drawable(v, j, p)' => Drawable(v, j, p)
    BY <1>5 DEF Drawable, windowVars
  <2> QED BY <1>1, <1>2, <1>5, <1>7, <1>9, <2>1, FramesTakeAck DEF DocumentedInv
<1> QED BY <1>1, <1>8, <1>10, <1>11, <1>12 DEF DocumentedInv

(* What can be said of frames when a request is read that is neither an    *)
(* ack nor an end.                                                         *)
LEMMA ReadFrames ==
    ASSUME Frames, LockTypes, NEW q, q.op \notin {"ack_configure", "destroy_surface"},
           Arrived(q), toServer' = Tail(toServer),
           \A i \in Ids : /\ role'[i].acked = role[i].acked
                          /\ role[i].state = "gone" => role'[i].state = "gone",
           UNCHANGED <<connected, windowVars, st>>
    PROVE  Frames'
<1>1. ServerShift(1, {"ack_configure"}) /\ ServerShift(1, {"destroy_surface"})
  BY TakenShift
<1>2. \A i : \A k \in Nat : At(k, DestroySurface(i)) => k - 1 \in Nat /\ At(k - 1, DestroySurface(i))'
  BY <1>1, Shifted
<1>3. \A i, n : \A k \in Nat : At(k, Commit(i, n))' => At(k + 1, Commit(i, n))
  BY Taken
<1>4. \A v \in Windows, j \in Ids, p \in Serial : Drawable(v, j, p)' => Drawable(v, j, p)
  BY DEF Drawable, windowVars
<1> QED BY <1>1, <1>2, <1>3, <1>4, FramesShift

(* A frame for a surface in use has the size that was acked last.          *)
LEMMA CommitIsLegal ==
    ASSUME DocumentedInv, NEW i \in Ids, NEW n \in Serial, HandleCommit(i, n)
    PROVE  /\ Arrived(Commit(i, n))
           /\ \/ role[i].state # "bound" /\ Answer(i, role[i], <<>>)
              \/ role[i].state = "bound" /\ Answer(i, [role[i] EXCEPT !.shown = n], <<>>)
<1>1. LockTypes /\ Arrived(Commit(i, n))
  BY DEF DocumentedInv, LockInv, WireInv, HandleInv, HandleCommit
<1>2. role[i].state = "bound" => role[i].acked # 0 /\ n = role[i].acked
  <2> SUFFICES ASSUME role[i].state = "bound" PROVE n # 0 /\ n = role[i].acked
    OBVIOUS
  <2>1. At(1, Commit(i, n))
    BY <1>1, FirstMessage
  <2>2. \A x : \A l \in Nat : At(l, x) => ~(l < 1)
    BY DEF At
  <2>3. \/ role[i].state = "gone"
        \/ \E l \in Nat : l < 1 /\ At(l, DestroySurface(i))
        \/ /\ n # 0
           /\ role[i].acked = n \/ \E l \in Nat : l < 1 /\ At(l, AckConfigure(i, n))
    BY <2>1 DEF DocumentedInv, Frames, CommitsDue
  <2> QED BY <2>2, <2>3
<1>3. CASE role[i].state # "bound"
  BY <1>1, <1>3 DEF HandleCommit
<1>4. CASE role[i].state = "bound"
  BY <1>1, <1>2, <1>4 DEF HandleCommit
<1> QED BY <1>1, <1>3, <1>4

LEMMA HandleCommitKeeps ==
    ASSUME DocumentedInv, NEW i \in Ids, NEW n \in Serial, HandleCommit(i, n) PROVE DocumentedInv'
<1>1. LockTypes /\ SurfaceTypeOK /\ SurfaceInv'
  BY ServeSurfaceStep DEF DocumentedInv, SurfaceInv, LockInv, WireInv, HandleInv
<1> DEFINE q == Commit(i, n)
<1>2. Arrived(q) /\ q.op = "commit"
  BY SurfaceOps DEF HandleCommit
<1>3. \E r : /\ r \in {role[i], [role[i] EXCEPT !.shown = n]}
             /\ Answer(i, r, <<>>)
  BY CommitIsLegal
<1>5. /\ toServer' = Tail(toServer) /\ toClient' = toClient \o <<>>
      /\ \E r \in {role[i], [role[i] EXCEPT !.shown = n]} : role' = [role EXCEPT ![i] = r]
      /\ UNCHANGED <<appVars, proxyVars, client, serverVars, windowVars, st, slot>>
  BY <1>3 DEF Answer
<1>6. toClient' = toClient
  BY <1>1, <1>5, EventsAdded
<1>7. \A j \in Ids : /\ role'[j].acked = role[j].acked /\ role'[j].state = role[j].state
                     /\ role'[j].sent = role[j].sent
                     /\ role'[j].lock = role[j].lock /\ role'[j].out = role[j].out
  <2>1. role \in [Ids -> RoleRecords]
    BY <1>1 DEF SurfaceTypeOK
  <2>2. CASE role' = [role EXCEPT ![i] = role[i]]
    BY <2>1, <2>2
  <2>3. CASE role' = [role EXCEPT ![i] = [role[i] EXCEPT !.shown = n]]
    BY <2>1, <2>3 DEF RoleRecords
  <2> QED BY <1>5, <2>2, <2>3
<1>8. LockInv' /\ Shape' /\ StructsKept /\ GetsInLock'
  <2>1. q.op \in SurfaceRequests
    BY <1>2 DEF SurfaceRequests
  <2> HIDE DEF q
  <2> QED BY <1>1, <1>2, <1>5, <1>6, <2>1, ReadKeeps
<1>9. connected' = connected /\ \A x : \A k \in Nat : At(k, x)' => At(k + 1, x)
  BY <1>1, <1>2, <1>5, Taken DEF serverVars
<1>10. Turns'
  <2>1. q.op \notin {"get_lock_surface", "destroy_surface"}
    BY <1>2
  <2> HIDE DEF q
  <2>2. ServerShift(1, {"get_lock_surface", "destroy_surface"})
    BY <1>1, <1>2, <1>5, <2>1, ReadShifts
  <2> QED BY <1>5, <1>7, <1>8, <1>9, <2>2, TurnsShift DEF DocumentedInv
<1>11. Serials'
  <2>1. ClientShift(0, {"configure"})
    BY <1>6, DueSameShift
  <2>2. \A j, p : \A k \in Nat : Due(k, Configure(j, p))' => Due(k + 0, Configure(j, p))
    BY <2>1, ConfiguresShifted
  <2> QED BY <1>7, <1>9, <2>2, SerialsShift DEF DocumentedInv
<1>12. Frames'
  <2>1. q.op \notin {"ack_configure", "destroy_surface"}
    BY <1>2
  <2> HIDE DEF q
  <2> QED BY <1>1, <1>2, <1>5, <1>7, <1>9, <2>1, ReadFrames DEF DocumentedInv
<1> QED BY <1>1, <1>8, <1>10, <1>11, <1>12 DEF DocumentedInv

(* A surface is asked for: its wl_surface has no role and no buffer, its   *)
(* lock has been answered, and nobody else has the monitor for that lock.  *)
LEMMA GetIsLegal ==
    ASSUME DocumentedInv, NEW i \in Ids, NEW o \in Objs, NEW m \in Outputs,
           Arrived(GetLockSurface(i, o, m))
    PROVE  /\ Blank(i) /\ res[o] \in {"denied", "locked", "revoked"}
           /\ ~Covered(o, m) /\ role[i].state = "none"
<1>1. LockTypes /\ SurfaceTypeOK /\ SurfaceInv /\ LockInv /\ Shape /\ Turns /\ connected
  BY DEF DocumentedInv, SurfaceInv, LockInv, WireInv, HandleInv, Arrived
<1>2. At(1, GetLockSurface(i, o, m)) /\ \A x : \A l \in Nat : At(l, x) => ~(l < 1)
  BY <1>1, FirstMessage DEF At
<1>3. Made(i) /\ role[i].state = "none" /\ o = LockOf(i) /\ m = MonOf(i)
  BY <1>1, <1>2 DEF Turns, GetsDue
<1>4. PICK s \in Structs : s = slot[i].data /\ st[s].state # "none" /\ st[s].lock = o /\ st[s].mon = m
  BY <1>1, <1>3 DEF Shape, LiveStructs, LockOf, MonOf
<1>5. Blank(i)
  BY <1>1, <1>3 DEF SurfaceInv, SurfaceIsBlank, Made
<1>6. res[o] \in {"denied", "locked", "revoked"}
  <2>1. res[o] # "gone" /\ \A l \in Nat : ~At(l, Msg("lock", o))
    <3>1. "lock" \in Requests
      BY DEF Requests
    <3> QED BY <1>2, <3>1 DEF DocumentedInv, GetsInLock
  <2>2. ~Sent("lock", o)
    BY <2>1 DEF Sent, At
  <2>3. RecordMatchesWire(o) /\ proxy[o] \in {"live", "destroyed"}
    <3>1. proxy[o] # "none"
      BY <1>1, <1>4 DEF Shape, StructLock
    <3>2. proxy[o] \in {"none", "live", "destroyed"}
      BY <1>1 DEF LockTypes
    <3> QED BY <1>1, <3>1, <3>2 DEF LockInv, ObjectsAgree
  <2>4. res[o] # "none" /\ res[o] # "stranded"
    BY <2>2, <2>3 DEF RecordMatchesWire
  <2>5. res[o] \in {"none", "denied", "locked", "revoked", "gone", "stranded"}
    BY <1>1 DEF LockTypes
  <2> QED BY <2>1, <2>4, <2>5
<1>7. ~Covered(o, m)
  <2> SUFFICES ASSUME NEW j \in Ids, role[j].state = "bound", role[j].lock = o, role[j].out = m
               PROVE  FALSE
    BY DEF Covered
  <2>1. Made(j) /\ LockOf(j) = o /\ MonOf(j) = m
    BY <1>1 DEF Turns, RolesMatch
  <2>2. slot[j].data = s
    BY <1>1, <1>4, <2>1 DEF Shape, LiveStructs, OneEach, LockOf, MonOf
  <2>3. i # j /\ i \in Nat /\ j \in Nat
    BY <1>3, SurfaceConstants
  <2>4. CASE j < i
    <3>1. slot[j].state = "destroyed"
      BY <1>1, <1>3, <1>4, <2>1, <2>2, <2>3, <2>4 DEF Shape, LatestLives, Made
    <3>2. PICK l \in Nat : At(l, DestroySurface(j))
      BY <1>1, <3>1 DEF Turns, DestroyedAreGone, Asked
    <3>3. l < 1
      BY <1>1, <1>2, <1>4, <2>2, <2>4, <3>2 DEF Turns, EndsFirst
    <3> QED BY <1>2, <3>2, <3>3
  <2>5. CASE i < j
    <3>1. slot[i].state = "destroyed"
      BY <1>1, <1>3, <1>4, <2>1, <2>2, <2>3, <2>5 DEF Shape, LatestLives, Made
    <3>2. PICK l \in Nat : At(l, DestroySurface(i))
      BY <1>1, <1>3, <3>1 DEF Turns, DestroyedAreGone, Asked
    <3>3. role[j].state # "bound"
      BY <1>1, <1>4, <2>1, <2>2, <2>5, <3>2 DEF Turns, NextWaits
    <3> QED BY <3>3
  <2> QED BY <2>3, <2>4, <2>5
<1> QED BY <1>3, <1>5, <1>6, <1>7

(* It is given its first configure, or stays inert.                        *)
LEMMA GetIsAnswered ==
    ASSUME DocumentedInv, NEW i \in Ids, NEW o \in Objs, NEW m \in Outputs, HandleGetLockSurface(i, o, m)
    PROVE  /\ Arrived(GetLockSurface(i, o, m)) /\ role[i].state = "none"
           /\ \E x \in {"bound", "inert"}, n \in {0, 1} :
                /\ \/ x = "bound" /\ n = 1 /\ res[o] = "locked"
                   \/ x = "inert" /\ n = 0 /\ res[o] \in {"denied", "revoked"}
                /\ Answer(i, NewRole(x, o, m, n), IF x = "bound" THEN <<Configure(i, 1)>> ELSE <<>>)
<1>1. /\ Arrived(GetLockSurface(i, o, m))
      /\ Blank(i) /\ res[o] \in {"denied", "locked", "revoked"}
      /\ ~Covered(o, m) /\ role[i].state = "none"
  BY GetIsLegal DEF HandleGetLockSurface
<1>2. CASE res[o] = "locked"
  <2>1. Answer(i, NewRole("bound", o, m, 1), <<Configure(i, 1)>>)
    BY <1>1, <1>2 DEF HandleGetLockSurface, Blank
  <2> QED BY <1>1, <1>2, <2>1
<1>3. CASE res[o] \in {"denied", "revoked"}
  <2>1. Answer(i, NewRole("inert", o, m, 0), <<>>)
    BY <1>1, <1>3 DEF HandleGetLockSurface, Blank
  <2> QED BY <1>1, <1>3, <2>1
<1> QED BY <1>1, <1>2, <1>3

LEMMA HandleGetKeeps ==
    ASSUME DocumentedInv, NEW i \in Ids, NEW o \in Objs, NEW m \in Outputs, HandleGetLockSurface(i, o, m)
    PROVE  DocumentedInv'
<1>1. LockTypes /\ SurfaceTypeOK /\ SurfaceInv' /\ Serials
  BY ServeSurfaceStep DEF DocumentedInv, SurfaceInv, LockInv, WireInv, HandleInv
<1> DEFINE q == GetLockSurface(i, o, m)
<1>2. Arrived(q) /\ q.op = "get_lock_surface"
  BY SurfaceOps DEF HandleGetLockSurface
<1>3. role[i].state = "none"
  BY GetIsAnswered
<1>4. PICK x \in {"bound", "inert"}, n \in {0, 1} :
        /\ (x = "bound" /\ n = 1) \/ (x = "inert" /\ n = 0)
        /\ Answer(i, NewRole(x, o, m, n), IF x = "bound" THEN <<Configure(i, 1)>> ELSE <<>>)
  BY GetIsAnswered
<1>5. PICK r \in RoleRecords :
        /\ r = NewRole(x, o, m, n)
        /\ r.state = x /\ r.lock = o /\ r.out = m /\ r.sent = n /\ r.acked = 0
  <2>1. n \in Serial
    BY SerialTypes
  <2> QED BY <2>1, NewRoleFields
<1>6. /\ toServer' = Tail(toServer) /\ role' = [role EXCEPT ![i] = r]
      /\ toClient' = toClient \o (IF x = "bound" THEN <<Configure(i, 1)>> ELSE <<>>)
      /\ UNCHANGED <<appVars, proxyVars, client, serverVars, windowVars, st, slot>>
  BY <1>4, <1>5 DEF Answer
<1>7. toClient' = IF x = "bound" THEN Append(toClient, Configure(i, 1)) ELSE toClient
  BY <1>1, <1>6, EventsAdded
<1>8. role'[i] = r /\ \A j \in Ids \ {i} : role'[j] = role[j]
  BY <1>1, <1>6 DEF SurfaceTypeOK
<1>9. role[i].sent = 0 /\ role[i].acked = 0
  <2>1. role[i].sent = 0 /\ role[i].acked <= role[i].sent
    BY <1>1, <1>3 DEF Serials, Sequenced
  <2>2. role[i].acked \in Nat
    BY <1>1, RoleNumbers
  <2> QED BY <2>1, <2>2
<1>10. LockInv' /\ Shape' /\ StructsKept /\ GetsInLock'
  <2>1. q.op \in SurfaceRequests
    BY <1>2 DEF SurfaceRequests
  <2>2. toClient' = toClient \/ \E e : e.op = "configure" /\ toClient' = Append(toClient, e)
    BY <1>7, SurfaceOps
  <2> HIDE DEF q
  <2> QED BY <1>1, <1>2, <1>6, <2>1, <2>2, ReadKeeps
<1>11. connected' = connected /\ \A y : \A k \in Nat : At(k, y)' => At(k + 1, y)
  BY <1>1, <1>2, <1>6, Taken DEF serverVars
<1>12. Turns'
  BY <1>1, <1>2, <1>5, <1>6, <1>8, <1>11, TurnsTakeGet DEF DocumentedInv
<1>13. Serials'
  <2>1. CASE x = "bound"
    <3>1. n = 1 /\ 1 = role[i].sent + 1 /\ toClient' = Append(toClient, Configure(i, 1)) /\ 1 \in Serial
      BY <1>4, <1>7, <1>9, <2>1, SerialTypes
    <3>2. role'[i].acked = role[i].acked /\ role'[i].sent = 1 /\ role'[i].state # "none"
      BY <1>5, <1>8, <1>9, <3>1
    <3> QED BY <1>1, <1>8, <1>11, <3>1, <3>2, SerialsConfigure
  <2>2. CASE x = "inert"
    <3>1. ClientShift(0, {"configure"})
      BY <1>7, <2>2, DueSameShift
    <3>2. \A j, p : \A k \in Nat : Due(k, Configure(j, p))' => Due(k + 0, Configure(j, p))
      BY <3>1, ConfiguresShifted
    <3>3. \A j \in Ids : /\ role'[j].acked = role[j].acked /\ role'[j].sent = role[j].sent
                         /\ role'[j].state = "none" => role[j].state = "none"
      BY <1>3, <1>4, <1>5, <1>8, <1>9, <2>2
    <3> QED BY <1>1, <1>11, <3>2, <3>3, SerialsShift
  <2> QED BY <2>1, <2>2
<1>14. Frames'
  <2>1. \A j \in Ids : /\ role'[j].acked = role[j].acked
                       /\ role[j].state = "gone" => role'[j].state = "gone"
    BY <1>3, <1>5, <1>8, <1>9
  <2>2. q.op \notin {"ack_configure", "destroy_surface"}
    BY <1>2
  <2> HIDE DEF q
  <2> QED BY <1>1, <1>2, <1>6, <1>11, <2>1, <2>2, ReadFrames DEF DocumentedInv
<1> QED BY <1>1, <1>10, <1>12, <1>13, <1>14 DEF DocumentedInv

(* The monitor changes its geometry.                                       *)
LEMMA ReconfigureKeeps ==
    ASSUME DocumentedInv, NEW i \in Ids, Reconfigure(i) PROVE DocumentedInv'
<1>1. LockTypes /\ SurfaceTypeOK /\ SurfaceInv /\ SurfaceInv' /\ LockInv /\ Shape /\ Serials
  BY ReconfigureStep DEF DocumentedInv, SurfaceInv, LockInv, WireInv, HandleInv
<1>2. /\ role[i].state = "bound" /\ role[i].sent < MaxConfigures
      /\ role' = [role EXCEPT ![i].sent = @ + 1]
      /\ toClient' = Append(toClient, Configure(i, role[i].sent + 1))
      /\ UNCHANGED <<appVars, proxyVars, client, toServer, serverVars, windowVars, st, slot>>
  BY DEF Reconfigure
<1>3. PICK n \in Serial : n = role[i].sent + 1
  BY <1>1, <1>2, RoleNumbers, SurfaceConstants DEF Serial
<1>4. /\ role'[i].acked = role[i].acked /\ role'[i].sent = n /\ role'[i].state = role[i].state
      /\ role'[i].lock = role[i].lock /\ role'[i].out = role[i].out
      /\ \A j \in Ids \ {i} : role'[j] = role[j]
  BY <1>1, <1>2, <1>3 DEF SurfaceTypeOK, RoleRecords
<1>5. LockInv'
  <2>1. Configure(i, role[i].sent + 1).op = "configure"
    BY SurfaceOps
  <2> QED BY <1>1, <1>2, <2>1, SurfacesKeepLocks
<1>6. Shape' /\ StructsKept
  BY <1>1, <1>2, ShapeShrinks DEF proxyVars, windowVars
<1>7. connected' = connected /\ res' = res
  BY <1>2 DEF serverVars
<1> DEFINE M == Requests \cup SurfaceRequests
<1>8. ServerShift(0, M) /\ ServerShift(0, {"get_lock_surface", "destroy_surface"})
      /\ ServerShift(0, {"ack_configure"})
  BY <1>2, SameShift
<1>9. Requests \subseteq M /\ SurfaceRequests \subseteq M
  OBVIOUS
<1> HIDE DEF M
<1>10. /\ \A j, o, m : \A k \in Nat : At(k, GetLockSurface(j, o, m))' => At(k + 0, GetLockSurface(j, o, m))
       /\ \A j, p : \A k \in Nat : At(k, AckConfigure(j, p))' => At(k + 0, AckConfigure(j, p))
       /\ \A j, p : \A k \in Nat : At(k, Commit(j, p))' => At(k + 0, Commit(j, p))
       /\ \A j : \A k \in Nat : At(k, DestroySurface(j)) => k - 0 \in Nat /\ At(k - 0, DestroySurface(j))'
       /\ \A p \in Requests : \A o : \A k \in Nat : At(k, Msg(p, o))' => At(k + 0, Msg(p, o))
  BY <1>8, <1>9, Shifted DEF SurfaceRequests
<1>11. Turns'
  BY <1>2, <1>4, <1>6, <1>7, <1>8, TurnsShift DEF DocumentedInv
<1>12. GetsInLock'
  BY <1>7, <1>10, GetsInLockShift DEF DocumentedInv
<1>13. Serials'
  <2>1. toClient' = Append(toClient, Configure(i, n)) /\ role'[i].state # "none"
    BY <1>2, <1>3, <1>4
  <2> QED BY <1>1, <1>3, <1>4, <1>10, <2>1, SerialsConfigure
<1>14. Frames'
  <2>1. \A v \in Windows, j \in Ids, p \in Serial : Drawable(v, j, p)' => Drawable(v, j, p)
    BY <1>2 DEF Drawable, windowVars
  <2> QED BY <1>4, <1>7, <1>8, <1>10, <2>1, FramesShift DEF DocumentedInv
<1> QED BY <1>1, <1>5, <1>6, <1>11, <1>12, <1>13, <1>14 DEF DocumentedInv
-----------------------------------------------------------------------------
(* What the locks do to the wire they share with their surfaces.           *)
ServerMove ==
    \/ toServer' = toServer /\ \A q \in Objs : res'[q] = "gone" => res[q] = "gone"
    \/ \E p \in Requests, o \in Objs \cup {NULL} :
        /\ toServer' = Append(toServer, Msg(p, o)) /\ res' = res
        /\ p = "lock" => o \in Objs /\ proxy[o] = "none"
    \/ \E p \in Requests, o \in Objs \cup {NULL} :
        /\ Reading(p, o)
        /\ \A q \in Objs : res'[q] = "gone" => res[q] = "gone" \/ (q = o /\ p # "lock")

ClientMove ==
    \/ toClient' = toClient
    \/ \E p \in Events, o \in Objs \cup {NULL} : toClient' = Append(toClient, Msg(p, o))
    \/ \E p \in Events, o \in Objs \cup {NULL} : Dispatching(p, o)

Cut == connected' = FALSE /\ toServer' = <<>> /\ toClient' = <<>>

LEMMA AppMoves ==
    ASSUME LockTypes, DocumentedApp
    PROVE  /\ connected' = connected /\ ServerMove /\ ClientMove
           /\ \A o \in Objs : proxy[o] # "none" => proxy'[o] # "none"
<1> USE ConstantsAssumption DEF serverVars, proxyVars, queueVars
<1>1. CASE \E l \in Locks : PrepareLock(l) \/ Unref(l)
  BY <1>1 DEF PrepareLock, Unref, ServerMove, ClientMove
<1>2. CASE Exit \/ Crash
  BY <1>2 DEF Exit, Crash, ServerMove, ClientMove
<1>3. CASE \E l \in Locks : Lock(l)
  <2>1. PICK o \in Objs : /\ proxy[o] = "none" /\ toServer' = Append(toServer, Msg("lock", o))
                          /\ proxy' = [proxy EXCEPT ![o] = "live"]
                          /\ UNCHANGED <<toClient, serverVars>>
    BY <1>3 DEF Lock, Send
  <2>2. ServerMove
    BY <2>1 DEF ServerMove, Requests
  <2>3. \A q \in Objs : proxy[q] # "none" => proxy'[q] # "none"
    BY <2>1 DEF LockTypes
  <2> QED BY <2>1, <2>2, <2>3 DEF ClientMove
<1>4. CASE \E l \in Locks, op \in {"destroy", "unlock_and_destroy"} : SendDestructor(op, l)
  <2>1. PICK l \in Locks, op \in {"destroy", "unlock_and_destroy"} : SendDestructor(op, l)
    BY <1>4
  <2>2. CASE lockObj[l] = NULL
    BY <2>1, <2>2 DEF SendDestructor, ServerMove, ClientMove
  <2>3. CASE lockObj[l] # NULL
    <3>1. PICK o \in Objs : o = lockObj[l]
      BY <2>3 DEF LockTypes
    <3>2. /\ toServer' = Append(toServer, Msg(op, o)) /\ proxy' = [proxy EXCEPT ![o] = "destroyed"]
          /\ UNCHANGED <<toClient, serverVars>>
      BY <2>1, <2>3, <3>1 DEF SendDestructor, Send
    <3>3. ServerMove
      BY <3>2 DEF ServerMove, Requests
    <3>4. \A q \in Objs : proxy[q] # "none" => proxy'[q] # "none"
      BY <3>2 DEF LockTypes
    <3> QED BY <3>2, <3>3, <3>4 DEF ClientMove
  <2> QED BY <2>2, <2>3
<1>5. CASE Sync
  <2>1. toServer' = Append(toServer, Msg("sync", NULL)) /\ UNCHANGED <<proxyVars, toClient, serverVars>>
    BY <1>5 DEF Sync
  <2>2. ServerMove
    BY <2>1 DEF ServerMove, Requests
  <2> QED BY <2>1, <2>2 DEF ClientMove
<1> QED BY <1>1, <1>2, <1>3, <1>4, <1>5 DEF DocumentedApp, UnlockAndDestroy, Destroy

LEMMA DispatchMoves ==
    ASSUME Dispatch
    PROVE  connected' = connected /\ ServerMove /\ ClientMove /\ proxy' = proxy
<1>1. /\ UNCHANGED <<proxyVars, toServer, serverVars>>
      /\ \E p \in Events, o \in Objs \cup {NULL} : Dispatching(p, o)
  BY DEF Dispatch, HandleDone, HandleLocked, HandleFinished, Events
<1> QED BY <1>1 DEF ServerMove, ClientMove, serverVars, proxyVars

LEMMA CompositorMoves ==
    ASSUME LockTypes, Compositor
    PROVE  Cut \/ (connected' = connected /\ ServerMove /\ ClientMove)
<1> USE DEF serverVars, queueVars
<1>1. CASE Hangup \/ \E err : PostError(err)
  BY <1>1 DEF Hangup, PostError, Disconnect, Cut
<1>2. CASE OtherLocks \/ OtherUnlocks
  BY <1>2 DEF OtherLocks, OtherUnlocks, ServerMove, ClientMove
<1>3. CASE HandleSync
  BY <1>3 DEF HandleSync, ServerMove, ClientMove, Requests, Events
<1>4. ASSUME NEW o \in Objs, Grant(o) \/ Deny(o) PROVE connected' = connected /\ ServerMove /\ ClientMove
  <2>1. PICK r \in {"locked", "denied"}, ev \in Events :
          /\ Reading("lock", o) /\ res' = [res EXCEPT ![o] = r] /\ connected' = connected
          /\ toClient' = Append(toClient, Msg(ev, o))
    BY <1>4 DEF Grant, Deny, Events
  <2>2. \A q \in Objs : res'[q] = "gone" => res[q] = "gone"
    BY <2>1 DEF LockTypes
  <2>3. "lock" \in Requests
    BY DEF Requests
  <2> QED BY <2>1, <2>2, <2>3 DEF ServerMove, ClientMove
<1>5. ASSUME NEW o \in Objs, HandleDestroy(o) \/ HandleUnlock(o)
      PROVE  Cut \/ (connected' = connected /\ ServerMove /\ ClientMove)
  <2>1. CASE \E err : PostError(err)
    BY <1>1, <2>1
  <2>2. CASE ~ \E err : PostError(err)
    <3>1. PICK p \in {"destroy", "unlock_and_destroy"} :
            /\ Reading(p, o) /\ res' = [res EXCEPT ![o] = "gone"] /\ connected' = connected
            /\ toClient' = toClient
      BY <1>5, <2>2 DEF HandleDestroy, HandleUnlock
    <3>2. \A q \in Objs : res'[q] = "gone" => res[q] = "gone" \/ q = o
      BY <3>1 DEF LockTypes
    <3>3. p \in Requests /\ p # "lock"
      BY DEF Requests
    <3> QED BY <3>1, <3>2, <3>3 DEF ServerMove, ClientMove
  <2> QED BY <2>1, <2>2
<1>6. ASSUME NEW o \in Objs, Revoke(o) PROVE connected' = connected /\ ServerMove /\ ClientMove
  <2>1. \A q \in Objs : res'[q] = "gone" => res[q] = "gone"
    BY <1>6 DEF Revoke, LockTypes
  <2>2. "finished" \in Events
    BY DEF Events
  <2> QED BY <1>6, <2>1, <2>2 DEF Revoke, ServerMove, ClientMove
<1> QED BY <1>1, <1>2, <1>3, <1>4, <1>5, <1>6 DEF Compositor, Serve

(* What the locks move lies between the messages of the surfaces.          *)
LEMMA LocksShift ==
    ASSUME LockTypes, ServerMove, ClientMove
    PROVE  /\ \E d \in {0, 1} : ServerShift(d, SurfaceRequests)
           /\ \E e \in {0, 1} : ClientShift(e, {"configure"})
<1>1. SurfaceRequests \cap Requests = {} /\ "configure" \notin Events
  BY DEF SurfaceRequests, Requests, Events
<1>2. \E d \in {0, 1} : ServerShift(d, SurfaceRequests)
  <2>1. CASE toServer' = toServer
    BY <2>1, SameShift
  <2>2. CASE \E p \in Requests, o \in Objs \cup {NULL} : toServer' = Append(toServer, Msg(p, o))
    <3>1. PICK m : m.op \in Requests /\ toServer' = Append(toServer, m)
      BY <2>2, SurfaceOps
    <3>2. m.op \notin SurfaceRequests
      BY <1>1, <3>1
    <3>3. ServerShift(0, SurfaceRequests)
      BY <3>1, <3>2, AddedShift
    <3> QED BY <3>3
  <2>3. CASE \E p \in Requests, o \in Objs \cup {NULL} : Reading(p, o)
    <3>1. PICK m : m.op \in Requests /\ Arrived(m) /\ toServer' = Tail(toServer)
      BY <2>3, SurfaceOps DEF Reading
    <3>2. m.op \notin SurfaceRequests
      BY <1>1, <3>1
    <3>3. ServerShift(1, SurfaceRequests)
      BY <3>1, <3>2, TakenShift
    <3> QED BY <3>3
  <2> QED BY <2>1, <2>2, <2>3 DEF ServerMove
<1>3. \E e \in {0, 1} : ClientShift(e, {"configure"})
  <2>1. CASE toClient' = toClient
    BY <2>1, DueSameShift
  <2>2. CASE \E p \in Events, o \in Objs \cup {NULL} : toClient' = Append(toClient, Msg(p, o))
    <3>1. PICK m : m.op \in Events /\ toClient' = Append(toClient, m)
      BY <2>2, SurfaceOps
    <3>2. m.op \notin {"configure"}
      BY <1>1, <3>1
    <3>3. ClientShift(0, {"configure"})
      BY <3>1, <3>2, DueAddedShift
    <3> QED BY <3>3
  <2>3. CASE \E p \in Events, o \in Objs \cup {NULL} : Dispatching(p, o)
    <3>1. PICK m : m.op \in Events /\ toClient # <<>> /\ Head(toClient) = m /\ toClient' = Tail(toClient)
      BY <2>3, SurfaceOps DEF Dispatching
    <3>2. m.op \notin {"configure"}
      BY <1>1, <3>1
    <3>3. ClientShift(1, {"configure"})
      BY <3>1, <3>2, DueTakenShift
    <3> QED BY <3>3
  <2> QED BY <2>1, <2>2, <2>3 DEF ClientMove
<1> QED BY <1>2, <1>3

(* The locks move, on their part of the wire or by losing it.              *)
LEMMA LockSideKeepsAll ==
    ASSUME DocumentedInv, LockSide(LeavingApp) PROVE DocumentedInv'
<1>1. LockTypes /\ LockInv /\ SurfaceInv /\ Shape /\ Turns /\ GetsInLock /\ Serials /\ Frames
  BY DEF DocumentedInv, LockInv, WireInv, HandleInv
<1>2. UNCHANGED surfaceVars /\ (DocumentedApp \/ Dispatch \/ Compositor)
  BY DEF LockSide, LeavingApp
<1>3. UNCHANGED <<win, data, freeze, cur, painted, marked, st, slot, role>>
  BY <1>2 DEF surfaceVars, windowVars
<1>4. LockInv'
  <2>1. Next
    BY <1>2 DEF Next
  <2> QED BY <1>1, <2>1, LockStep
<1>5. SurfaceInv'
  <2>1. SurfaceNext
    BY DEF SurfaceNext
  <2> QED BY <1>1, <2>1, SurfaceDocumentedIsAny, SurfaceStep
<1>6. \A o \in Objs : proxy[o] # "none" => proxy'[o] # "none"
  <2>1. Compositor => proxy' = proxy
    BY DEF Compositor, Serve, HandleSync, Grant, Deny, HandleDestroy, HandleUnlock, Hangup,
           OtherLocks, OtherUnlocks, Revoke, PostError, proxyVars
  <2> QED BY <1>1, <1>2, <2>1, AppMoves, DispatchMoves
<1>7. Shape' /\ StructsKept
  BY <1>1, <1>3, <1>5, <1>6, ShapeShrinks
<1>8. CASE Cut
  <2>1. \A x : \A k \in Nat : ~At(k, x)' /\ ~Due(k, x)'
    BY <1>8 DEF Cut, At, Due
  <2>2. \A i \in Ids : Made(i)' <=> Made(i)
    BY <1>3 DEF Made
  <2>3. Turns'
    <3>1. GetsDue' /\ GetsOnce' /\ GetsFirst' /\ EndsFirst' /\ NextWaits' /\ DestroysDue'
      BY <2>1 DEF GetsDue, GetsOnce, GetsFirst, EndsFirst, NextWaits, DestroysDue
    <3>2. RolesMatch'
      BY <1>1, <1>3, <1>7, <2>2 DEF Turns, RolesMatch, StructsKept
    <3>3. DestroyedAreGone'
      BY <1>8 DEF Cut, DestroyedAreGone
    <3> QED BY <3>1, <3>2, <3>3 DEF Turns
  <2>4. GetsInLock'
    BY <2>1 DEF GetsInLock
  <2>5. Serials'
    <3>1. Sequenced'
      BY <1>1, <1>3 DEF Serials, Sequenced
    <3> QED BY <2>1, <3>1 DEF Serials, AcksNew, AcksInOrder, ConfiguresNew, ConfiguresInOrder, AcksFirst
  <2>6. Frames'
    BY <1>8, <2>1 DEF Cut, Frames, CommitsDue, Thawed
  <2> QED BY <1>4, <1>5, <1>7, <2>3, <2>4, <2>5, <2>6 DEF DocumentedInv
<1>9. CASE connected' = connected /\ ServerMove /\ ClientMove
  <2>1. SurfaceRequests \cap Requests = {} /\ "configure" \notin Events
    BY DEF SurfaceRequests, Requests, Events
  <2>2. PICK d \in {0, 1} : ServerShift(d, SurfaceRequests)
    BY <1>1, <1>9, LocksShift
  <2>3. PICK e \in {0, 1} : ClientShift(e, {"configure"})
    BY <1>1, <1>9, LocksShift
  <2>4. ServerShift(d, {"get_lock_surface", "destroy_surface"}) /\ ServerShift(d, {"ack_configure"})
    BY <2>2 DEF ServerShift, SurfaceRequests
  <2>5. /\ \A i, n : \A k \in Nat : At(k, AckConfigure(i, n))' => At(k + d, AckConfigure(i, n))
        /\ \A i, n : \A k \in Nat : At(k, Commit(i, n))' => At(k + d, Commit(i, n))
        /\ \A i : \A k \in Nat : At(k, DestroySurface(i)) => k - d \in Nat /\ At(k - d, DestroySurface(i))'
    BY <2>2, Shifted DEF SurfaceRequests
  <2>6. \A i, n : \A k \in Nat : Due(k, Configure(i, n))' => Due(k + e, Configure(i, n))
    BY <2>3, ConfiguresShifted
  <2>7. Turns'
    BY <1>1, <1>3, <1>7, <1>9, <2>4, TurnsShift
  <2>8. GetsInLock'
    <3>1. CASE toServer' = toServer /\ \A q \in Objs : res'[q] = "gone" => res[q] = "gone"
      <4>1. ServerShift(0, SurfaceRequests) /\ ServerShift(0, Requests)
        BY <3>1, SameShift
      <4>2. \A i, o, m : \A k \in Nat : At(k, GetLockSurface(i, o, m))' => At(k + 0, GetLockSurface(i, o, m))
        BY <4>1, Shifted DEF SurfaceRequests
      <4>3. \A p \in Requests : \A o : \A k \in Nat : At(k, Msg(p, o))' => At(k + 0, Msg(p, o))
        BY <4>1, Shifted
      <4> QED BY <1>1, <3>1, <4>2, <4>3, GetsInLockShift
    <3>2. CASE \E p \in Requests, o \in Objs \cup {NULL} :
                 /\ toServer' = Append(toServer, Msg(p, o)) /\ res' = res
                 /\ p = "lock" => o \in Objs /\ proxy[o] = "none"
      BY <1>1, <3>2, GetsInLockSend DEF Turns, Shape
    <3>3. CASE \E p \in Requests, o \in Objs \cup {NULL} :
                 /\ Reading(p, o)
                 /\ \A q \in Objs : res'[q] = "gone" => res[q] = "gone" \/ (q = o /\ p # "lock")
      BY <1>1, <3>3, GetsInLockRead
    <3> QED BY <1>9, <3>1, <3>2, <3>3 DEF ServerMove
  <2>9. Serials'
    BY <1>1, <1>3, <2>5, <2>6, SerialsShift
  <2>10. Frames'
    <3>1. \A w \in Windows, i \in Ids, n \in Serial : Drawable(w, i, n)' => Drawable(w, i, n)
      BY <1>3 DEF Drawable
    <3> QED BY <1>1, <1>3, <1>9, <2>4, <2>5, <3>1, FramesShift
  <2> QED BY <1>4, <1>5, <1>7, <2>7, <2>8, <2>9, <2>10 DEF DocumentedInv
<1> QED BY <1>1, <1>2, <1>8, <1>9, AppMoves, DispatchMoves, CompositorMoves
-----------------------------------------------------------------------------
LEMMA DocumentedInitial == SurfaceInit => DocumentedInv
<1> SUFFICES ASSUME SurfaceInit PROVE DocumentedInv
  OBVIOUS
<1>1. LockInv /\ SurfaceInv
  BY LockInit, SurfaceInitial DEF SurfaceInit
<1>2. toServer = <<>> /\ toClient = <<>>
  BY DEF SurfaceInit, Init
<1>3. \A x : \A k \in Nat : ~At(k, x) /\ ~Due(k, x)
  BY <1>2 DEF At, Due
<1>4. /\ \A i \in Ids : slot[i].state = "none"
      /\ \A i \in Ids : role[i].state = "none" /\ role[i].sent = 0 /\ role[i].acked = 0
      /\ \A s \in Structs : st[s].state = "none" /\ st[s].obj = NULL
      /\ \A w \in Windows : win[w] = "new"
  BY DEF SurfaceInit, NoSlot, NoRole, NoStruct
<1>5. Shape
  BY <1>4 DEF Shape, LiveStructs, NoPlain, InOrder, OneEach, LatestLives, StructLock, OneStruct,
              ShownBy, Mapped, Made
<1>6. Turns
  BY <1>3, <1>4 DEF Turns, GetsDue, GetsOnce, GetsFirst, EndsFirst, NextWaits, RolesMatch,
                    DestroyedAreGone, DestroysDue
<1>7. GetsInLock
  BY <1>3 DEF GetsInLock
<1>8. Serials
  BY <1>3, <1>4 DEF Serials, Sequenced, AcksNew, AcksInOrder, ConfiguresNew, ConfiguresInOrder, AcksFirst
<1>9. Frames
  BY <1>3, <1>4 DEF Frames, CommitsDue, Thawed, Drawable
<1> QED BY <1>1, <1>5, <1>6, <1>7, <1>8, <1>9 DEF DocumentedInv

LEMMA DocumentedStep == DocumentedInv /\ [SurfaceNext]_allVars => DocumentedInv'
<1> SUFFICES ASSUME DocumentedInv, [SurfaceNext]_allVars PROVE DocumentedInv'
  OBVIOUS
<1>1. CASE LockSide(LeavingApp)
  BY <1>1, LockSideKeepsAll
<1>2. CASE DocumentedSurfaceApp
  BY <1>2, PreparedKeeps, RealizeKeeps, ShowKeeps, UnmapKeeps, HideKeeps, DestroyWindowKeeps
     DEF DocumentedSurfaceApp
<1>3. CASE DispatchSurface
  BY <1>3, HandleConfigureKeeps DEF DispatchSurface
<1>4. CASE ServeSurface
  BY <1>4, HandleGetKeeps, HandleDestroyKeeps, HandleAckKeeps, HandleCommitKeeps DEF ServeSurface
<1>5. CASE \E w \in Windows : Paint(w)
  BY <1>5, PaintKeeps
<1>6. CASE \E i \in Ids : Reconfigure(i)
  BY <1>6, ReconfigureKeeps
<1>7. CASE UNCHANGED allVars
  <2>1. UNCHANGED <<appVars, proxyVars, serverVars, windowVars, st, slot, role, toClient>> /\ Quiet
    BY <1>7 DEF allVars, surfaceVars, vars, queueVars, Quiet
  <2>2. SurfaceInv /\ Shape /\ SurfaceInv'
    BY <1>7, SurfaceStep DEF DocumentedInv
  <2>3. Shape' /\ StructsKept
    BY <2>1, <2>2, ShapeShrinks DEF proxyVars, windowVars
  <2>4. \A w \in Windows, i \in Ids, n \in Serial : Drawable(w, i, n)' => Drawable(w, i, n)
    BY <2>1 DEF Drawable, windowVars
  <2> QED BY <2>1, <2>2, <2>3, <2>4, QuietStepKeeps
<1> QED BY <1>1, <1>2, <1>3, <1>4, <1>5, <1>6, <1>7 DEF SurfaceNext, SurfaceEnv

(* Surfaces pass the locks by: no request of theirs is ever rejected, and  *)
(* nothing else of theirs touches a lock or the session.                   *)
LEMMA SurfacesPassBy ==
    ASSUME DocumentedInv, DocumentedSurfaceApp \/ SurfaceEnv
    PROVE  UNCHANGED <<appVars, proxyVars, serverVars>>
<1>1. CASE DocumentedSurfaceApp
  <2>1. ASSUME NEW l \in Locks, NEW w \in Windows, NEW m \in Outputs, NewSurface(l, w, m)
        PROVE  UNCHANGED <<appVars, proxyVars, serverVars>>
    BY <2>1 DEF NewSurface
  <2>2. ASSUME NEW w \in Windows, Realize(w) \/ Unmap(w) \/ Hide(w)
        PROVE  UNCHANGED <<appVars, proxyVars, serverVars>>
    BY <2>2 DEF Realize, Unmap, Hide, vars
  <2>3. ASSUME NEW w \in Windows, Show(w) \/ DestroyWindow(w)
        PROVE  UNCHANGED <<appVars, proxyVars, serverVars>>
    BY <2>3 DEF Show, DestroyWindow
  <2> QED BY <1>1, <2>1, <2>2, <2>3 DEF DocumentedSurfaceApp
<1>2. CASE DispatchSurface \/ \E w \in Windows : Paint(w)
  BY <1>2 DEF DispatchSurface, HandleConfigure, Paint
<1>3. CASE ServeSurface \/ \E i \in Ids : Reconfigure(i)
  <2>1. ASSUME NEW i \in Ids, NEW r, NEW es, Answer(i, r, es)
        PROVE  UNCHANGED <<appVars, proxyVars, serverVars>>
    BY <2>1 DEF Answer
  <2>2. ASSUME NEW i \in Ids, NEW o \in Objs, NEW m \in Outputs, HandleGetLockSurface(i, o, m)
        PROVE  UNCHANGED <<appVars, proxyVars, serverVars>>
    BY <2>1, <2>2, GetIsAnswered
  <2>3. ASSUME NEW i \in Ids, NEW n \in Serial, HandleAck(i, n) \/ HandleCommit(i, n)
        PROVE  UNCHANGED <<appVars, proxyVars, serverVars>>
    BY <2>1, <2>3, AckIsLegal, CommitIsLegal
  <2>4. ASSUME NEW i \in Ids, HandleDestroySurface(i) \/ Reconfigure(i)
        PROVE  UNCHANGED <<appVars, proxyVars, serverVars>>
    BY <2>4 DEF HandleDestroySurface, Answer, Reconfigure
  <2> QED BY <1>3, <2>2, <2>3, <2>4 DEF ServeSurface
<1> QED BY <1>1, <1>2, <1>3 DEF SurfaceEnv

LEMMA DocumentedInvHolds == SurfaceSpec => []DocumentedInv
  BY DocumentedInitial, DocumentedStep, PTL DEF SurfaceSpec

-----------------------------------------------------------------------------
(* A documented application with any number of windows on any number of    *)
(* monitors violates neither protocol, however its windows are shown,      *)
(* resized, hidden, shown again and destroyed and whenever the compositor  *)
(* answers: no second surface on a monitor, no stale serial, no frame      *)
(* before the first ack or of another size than the one acked              *)
(* (lock_surface_map, lock_surface_unmap, lock_surface_handle_configure).  *)
THEOREM SurfaceProtocolIsKept == SurfaceSpec => []NoSurfaceProtocolError
<1>1. DocumentedInv => NoSurfaceProtocolError
  BY LockGuarantees DEF DocumentedInv, NoProtocolError, NoSurfaceProtocolError
<1> QED BY <1>1, DocumentedInvHolds, PTL

(* Sharing the connection with lock surfaces, the locks keep what they     *)
(* promise: a `locked' that has not been taken back is true ...            *)
THEOREM LockedIsTrueWithSurfaces == SurfaceSpec => []LockedIsTrue
<1>1. DocumentedInv => LockedIsTrue
  BY LockGuarantees DEF DocumentedInv
<1> QED BY <1>1, DocumentedInvHolds, PTL

(* ... a session that is held can be unlocked ...                          *)
THEOREM UnlockableWithSurfaces == SurfaceSpec => []Unlockable
<1>1. DocumentedInv => Unlockable
  BY LockGuarantees DEF DocumentedInv
<1> QED BY <1>1, DocumentedInvHolds, PTL

(* ... the handlers of the locks' events find their locks alive, no session*)
(* is left locked behind a process that ended ...                          *)
THEOREM LocksEndWellWithSurfaces ==
    SurfaceSpec => [](ListenerIsAlive /\ StrandedOnlyByCrash)
<1>1. DocumentedInv => ListenerIsAlive /\ StrandedOnlyByCrash
  BY LockGuarantees DEF DocumentedInv
<1> QED BY <1>1, DocumentedInvHolds, PTL

(* ... and the answer that a lock() or a sync waits for is still to come   *)
(* between whatever the surfaces put on the wire.                          *)
THEOREM AnswersAreDueWithSurfaces == SurfaceSpec => []AnswerIsDue
<1>1. DocumentedInv => AnswerIsDue
  BY LockGuarantees DEF DocumentedInv
<1> QED BY <1>1, DocumentedInvHolds, PTL

(* Nothing is signalled after `finished', and nothing is signalled twice,  *)
(* whatever the surfaces do.                                               *)
THEOREM NothingAfterFinishedWithSurfaces == SurfaceSpec => FinishedIsLast
<1>1. ASSUME DocumentedInv, [SurfaceNext]_allVars PROVE [TellsNews]_vars
  <2>1. CASE LockSide(LeavingApp)
    <3>1. LockInv /\ Next
      BY <1>1, <2>1 DEF DocumentedInv, LockSide, LeavingApp, Next
    <3> QED BY <3>1, NothingFollowsFinished
  <2>2. CASE DocumentedSurfaceApp \/ SurfaceEnv
    <3>1. UNCHANGED appVars
      BY <1>1, <2>2, SurfacesPassBy
    <3> QED BY <3>1 DEF appVars, TellsNews
  <2>3. CASE UNCHANGED allVars
    BY <2>3 DEF allVars
  <2> QED BY <1>1, <2>1, <2>2, <2>3 DEF SurfaceNext
<1> QED BY <1>1, DocumentedInvHolds, PTL DEF SurfaceSpec, FinishedIsLast, TellsNews

-----------------------------------------------------------------------------
(* A struct is freed with its window and at no other time.                 *)
Outlives ==
    \A s \in Structs : st[s].state # "none" =>
        st[s].win \in Windows /\ (st[s].state = "freed" <=> win[st[s].win] = "destroyed")

LEMMA OutlivesKept ==
    ASSUME SurfaceInv, OneStruct, Outlives, SurfaceNext PROVE Outlives'
<1>1. SurfaceTypeOK /\ Attached
  BY DEF SurfaceInv
<1>2. CASE UNCHANGED <<win, st>>
  BY <1>2 DEF Outlives
<1>3. ASSUME NEW l \in Locks, NEW w \in Windows, NEW m \in Outputs,
             data[w] = NULL, win[w] = "new", NewSurface(l, w, m)
      PROVE  Outlives'
  <2>1. lockObj[l] \in Objs
    BY <1>3 DEF NewSurface, SurfaceInv, LockPointers
  <2>2. PICK new \in StructRecords :
          new = NewStruct(w, m, lockObj[l]) /\ new.state = "live" /\ new.win = w
    BY <2>1, NewStructFields
  <2>3. PICK s \in Structs : st' = [st EXCEPT ![s] = new] /\ win' = win
    BY <1>3, <2>2, SMTT(30) DEF NewSurface, Allocatable
  <2>4. st'[s] = new /\ \A t \in Structs \ {s} : st'[t] = st[t]
    BY <1>1, <2>3 DEF SurfaceTypeOK
  <2> QED BY <1>3, <2>2, <2>3, <2>4 DEF Outlives
<1>4. ASSUME \A t \in Structs : st'[t].state = st[t].state /\ st'[t].win = st[t].win,
             \A v \in Windows : win[v] = "destroyed" <=> win'[v] = "destroyed"
      PROVE  Outlives'
  BY <1>4 DEF Outlives
<1>5. ASSUME NEW w \in Windows, Realize(w) \/ Hide(w) PROVE Outlives'
  BY <1>1, <1>4, <1>5 DEF Realize, Hide, SurfaceTypeOK
<1>6. ASSUME NEW w \in Windows, data[w] # NULL, Show(w) PROVE Outlives'
  <2>1. PICK s \in Structs : s = data[w]
    BY <1>1, <1>6 DEF SurfaceTypeOK
  <2>2. st' = st \/ \E i \in Ids : st' = [st EXCEPT ![s].obj = i]
    BY <1>6, <2>1 DEF Show, Map
  <2>3. \A t \in Structs : st'[t].state = st[t].state /\ st'[t].win = st[t].win
    BY <1>1, <2>2, Pointed
  <2>4. \A v \in Windows : win[v] = "destroyed" <=> win'[v] = "destroyed"
    BY <1>1, <1>6 DEF Show, SurfaceTypeOK
  <2> QED BY <1>4, <2>3, <2>4
<1>7. ASSUME NEW w \in Windows, Unmap(w) PROVE Outlives'
  <2>1. PICK s \in Structs : st' = [st EXCEPT ![s].obj = NULL] /\ win' = win
    BY <1>1, <1>7 DEF Unmap, SurfaceTypeOK, windowVars
  <2>2. \A t \in Structs : st'[t].state = st[t].state /\ st'[t].win = st[t].win
    BY <1>1, <2>1, Unpointed
  <2> QED BY <1>4, <2>1, <2>2
<1>8. ASSUME NEW w \in Windows, data[w] # NULL, DestroyWindow(w) PROVE Outlives'
  <2>1. PICK s \in Structs : s = data[w] /\ st[s].win = w
    BY <1>1, <1>8 DEF SurfaceTypeOK, Attached
  <2>2. st' = [st EXCEPT ![s].state = "freed", ![s].obj = NULL]
    BY <1>8, <2>1, SMTT(30) DEF DestroyWindow
  <2>3. /\ \A t \in Structs : st'[t].win = st[t].win /\ (t # s => st'[t].state = st[t].state)
        /\ st'[s].state = "freed" /\ st[s].state = "live"
    BY <1>1, <1>8, <2>1, <2>2, Freed DEF Attached
  <2>4. win'[w] = "destroyed" /\ \A v \in Windows \ {w} : win'[v] = win[v]
    BY <1>1, <1>8 DEF DestroyWindow, SurfaceTypeOK
  <2>5. ASSUME NEW t \in Structs, t # s, st[t].state # "none"
        PROVE  st[t].win = w => st[t].state = "freed" /\ win[w] = "destroyed"
    <3>1. st[t].state # "live" \/ st[t].win # w
      BY <2>1, <2>5 DEF OneStruct
    <3>2. st[t].state \in {"none", "live", "freed"}
      BY <1>1, Fields
    <3> QED BY <2>5, <3>1, <3>2 DEF Outlives
  <2> QED BY <2>1, <2>3, <2>4, <2>5 DEF Outlives
<1>9. CASE DispatchSurface
  <2>1. PICK i \in Ids, n \in Serial : HandleConfigure(i, n)
    BY <1>9 DEF DispatchSurface
  <2>2. win' = win
    BY <2>1 DEF HandleConfigure
  <2>3. CASE slot[i].state = "live" /\ st[slot[i].data].state = "live"
    <3>1. PICK s \in Structs : s = slot[i].data
      BY <2>3 DEF SurfaceInv, Backed
    <3>2. st' = [st EXCEPT ![s].size = n, ![s].first = TRUE]
      BY <2>1, <2>3, <3>1 DEF HandleConfigure
    <3>3. \A t \in Structs : st'[t].state = st[t].state /\ st'[t].win = st[t].win
      BY <1>1, <3>2, Sized
    <3> QED BY <1>4, <2>2, <3>3
  <2>4. CASE ~(slot[i].state = "live" /\ st[slot[i].data].state = "live")
    BY <1>2, <2>1, <2>2, <2>4 DEF HandleConfigure
  <2> QED BY <2>3, <2>4
<1>10. CASE ServeSurface
  <2>1. PICK i \in Ids : \/ \E o \in Objs, m \in Outputs : HandleGetLockSurface(i, o, m)
                         \/ HandleDestroySurface(i)
                         \/ \E n \in Serial : HandleAck(i, n) \/ HandleCommit(i, n)
    BY <1>10 DEF ServeSurface
  <2>2. ASSUME NEW o \in Objs, NEW m \in Outputs, HandleGetLockSurface(i, o, m)
        PROVE  UNCHANGED <<win, st>>
    BY <2>2 DEF HandleGetLockSurface, Answer, Reject, surfaceVars, windowVars
  <2>3. HandleDestroySurface(i) => UNCHANGED <<win, st>>
    BY DEF HandleDestroySurface, Answer, windowVars
  <2>4. ASSUME NEW n \in Serial, HandleAck(i, n) \/ HandleCommit(i, n)
        PROVE  UNCHANGED <<win, st>>
    BY <2>4 DEF HandleAck, HandleCommit, Answer, Reject, surfaceVars, windowVars
  <2> QED BY <1>2, <2>1, <2>2, <2>3, <2>4
<1>11. CASE LockSide(LeavingApp)
  BY <1>2, <1>11 DEF LockSide, surfaceVars, windowVars
<1>12. ASSUME NEW w \in Windows, Paint(w) PROVE Outlives'
  BY <1>2, <1>12 DEF Paint
<1>13. ASSUME NEW i \in Ids, Reconfigure(i) PROVE Outlives'
  BY <1>2, <1>13 DEF Reconfigure, windowVars
<1> QED BY <1>3, <1>5, <1>6, <1>7, <1>8, <1>9, <1>10, <1>11, <1>12, <1>13
        DEF SurfaceNext, DocumentedSurfaceApp, SurfaceEnv

(* custom-shell-surface.h: a struct lives exactly as long as its window.   *)
(* It is so for the documented application; LockSurfaceReuse shows what    *)
(* preparing a window twice does (custom_shell_surface_init).              *)
THEOREM StructsOutliveWindows == SurfaceSpec => []LivesAsLongAsWindow
<1>1. SurfaceInit => Outlives
  BY DEF SurfaceInit, Outlives, NoStruct
<1>2. DocumentedInv /\ Outlives /\ [SurfaceNext]_allVars => Outlives'
  <2>1. UNCHANGED allVars /\ Outlives => Outlives'
    BY DEF allVars, surfaceVars, windowVars, Outlives
  <2> QED BY <2>1, OutlivesKept DEF DocumentedInv, Shape
<1>3. Outlives => LivesAsLongAsWindow
  BY DEF Outlives, LivesAsLongAsWindow
<1> QED BY <1>1, <1>2, <1>3, DocumentedInvHolds, PTL DEF SurfaceSpec
-----------------------------------------------------------------------------
(* What a window waits for.                                                *)
(*                                                                         *)
(* That no step loses what a window needs to be displayed is a chain:      *)
(* until the compositor knows a live surface it is being asked for, until  *)
(* the struct has the size sent last a configure is due, and the frame     *)
(* drawn last is the last commit on the wire or shown already.  DueInv     *)
(* follows it surface by surface and window by window.                     *)

Awaited(m) == \E k \in Nat : Due(k, m)

UpToDate(i) ==
    LET s == slot[i].data IN
    st[s].first /\ st[s].size = role[i].sent /\ \A n \in Serial : ~Awaited(Configure(i, n))

Pending(i) ==
    /\ connected /\ slot[i].state = "live" =>
        /\ role[i].state = "none" => \E o \in Objs, m \in Outputs : Asked(GetLockSurface(i, o, m))
        /\ role[i].state = "bound" => UpToDate(i) \/ Awaited(Configure(i, role[i].sent))
    /\ role[i].state = "gone" => slot[i].state = "destroyed"
    /\ role[i].state = "none" => role[i].shown = 0
    /\ role[i].state = "inert" => role[i].sent = 0 /\ res[LockOf(i)] \notin {"none", "locked"}
    /\ role[i].state = "bound" => role[i].sent # 0

(* The last frame of surface i has the size n.                             *)
LastFrame(i, n) ==
    \/ \E k \in Nat : At(k, Commit(i, n)) /\ \A l \in Nat, p \in Serial : At(l, Commit(i, p)) => l <= k
    \/ role[i].shown = n /\ \A p \in Serial : ~Asked(Commit(i, p))

FramesLast ==
    connected => \A w \in Windows :
        win[w] = "mapped" /\ slot[cur[w]].state = "live" /\ painted[w] # 0 => LastFrame(cur[w], painted[w])

DueInv == (\A i \in Ids : Pending(i)) /\ FramesLast

(* The locks answer a lock once, and grant none they have refused.         *)
LocksAnswerOnce == \A o \in Objs : res'[o] \in {"none", "locked"} => res[o] \in {"none", "locked"}

LEMMA PendingKept ==
    ASSUME NEW i \in Ids, Pending(i), connected' => connected,
           slot'[i].state = "live" => slot[i].state = "live",
           slot[i].state = "destroyed" => slot'[i].state = "destroyed",
           role'[i].state = role[i].state, role'[i].sent = role[i].sent,
           role[i].state = "none" => role'[i].shown = role[i].shown,
           \A o, m : Asked(GetLockSurface(i, o, m)) => Asked(GetLockSurface(i, o, m))',
           slot'[i].state = "live" =>
                /\ slot'[i].data = slot[i].data
                /\ st'[slot[i].data].size = st[slot[i].data].size
                /\ st[slot[i].data].first => st'[slot[i].data].first
                /\ \A n : Awaited(Configure(i, n))' <=> Awaited(Configure(i, n)),
           role[i].state = "inert" =>
                LockOf(i)' = LockOf(i) /\ LockOf(i) \in Objs,
           LocksAnswerOnce
    PROVE  Pending(i)'
<1>1. slot'[i].state = "live" /\ UpToDate(i) => UpToDate(i)'
  BY DEF UpToDate
<1>2. connected' /\ slot'[i].state = "live" =>
        /\ role'[i].state = "none" => \E o \in Objs, m \in Outputs : Asked(GetLockSurface(i, o, m))'
        /\ role'[i].state = "bound" => UpToDate(i)' \/ Awaited(Configure(i, role[i].sent))'
  BY <1>1 DEF Pending
<1>3. role[i].state = "inert" => res'[LockOf(i)] \notin {"none", "locked"}
  BY DEF Pending, LocksAnswerOnce
<1> QED BY <1>2, <1>3 DEF Pending

LEMMA FramesLastKept ==
    ASSUME FramesLast, NEW d \in {0, 1}, connected' => connected,
           \A w \in Windows : win'[w] = "mapped" /\ slot'[cur'[w]].state = "live" /\ painted'[w] # 0 =>
                /\ win[w] = "mapped" /\ slot[cur[w]].state = "live"
                /\ cur'[w] = cur[w] /\ painted'[w] = painted[w] 
                /\ role'[cur[w]].shown = role[cur[w]].shown,
           ServerShift(d, {"commit"})
    PROVE  FramesLast'
<1>1. \A i, n : \A k \in Nat : /\ At(k, Commit(i, n))' => k + d \in Nat /\ At(k + d, Commit(i, n))
                               /\ At(k, Commit(i, n)) => k - d \in Nat /\ At(k - d, Commit(i, n))'
  BY SurfaceOps DEF ServerShift
<1>2. ASSUME NEW w \in Windows, connected', win'[w] = "mapped", slot'[cur'[w]].state = "live", painted'[w] # 0
      PROVE  LastFrame(cur[w], painted[w])'
  <2>1. /\ cur'[w] = cur[w] /\ painted'[w] = painted[w] /\ role'[cur[w]].shown = role[cur[w]].shown
        /\ LastFrame(cur[w], painted[w])
    BY <1>2 DEF FramesLast
  <2>2. PICK i : i = cur[w] /\ cur'[w] = i
    BY <2>1
  <2>3. PICK n : n = painted[w] /\ painted'[w] = n
    BY <2>1
  <2>4. CASE role[i].shown = n /\ \A p \in Serial : ~Asked(Commit(i, p))
    <3>1. \A p \in Serial : ~Asked(Commit(i, p))'
      BY <1>1, <2>4 DEF Asked
    <3> QED BY <2>1, <2>2, <2>3, <2>4, <3>1 DEF LastFrame
  <2>5. ASSUME NEW k \in Nat, At(k, Commit(i, n)), \A l \in Nat, p \in Serial : At(l, Commit(i, p)) => l <= k
        PROVE  LastFrame(cur[w], painted[w])'
    <3>1. k - d \in Nat /\ At(k - d, Commit(i, n))'
      BY <1>1, <2>5
    <3>2. ASSUME NEW l \in Nat, NEW p \in Serial, At(l, Commit(i, p))' PROVE l <= k - d
      <4>1. l + d \in Nat /\ At(l + d, Commit(i, p))
        BY <1>1, <3>2
      <4>2. l + d <= k
        BY <2>5, <4>1
      <4> QED BY <4>2
    <3> QED BY <2>2, <2>3, <3>1, <3>2 DEF LastFrame
  <2> QED BY <2>1, <2>2, <2>3, <2>4, <2>5 DEF LastFrame
<1> QED BY <1>2 DEF FramesLast

LEMMA InertHasLock ==
    ASSUME DocumentedInv, NEW i \in Ids, role[i].state # "none"
    PROVE  Made(i) /\ slot[i].data \in Structs /\ st[slot[i].data].state # "none" /\ LockOf(i) \in Objs
<1>1. Made(i)
  BY DEF DocumentedInv, Turns, RolesMatch
<1> QED BY <1>1 DEF DocumentedInv, Shape, LiveStructs, StructLock, LockOf

LEMMA AskedShift ==
    ASSUME NEW d \in {0, 1}, ServerShift(d, {"get_lock_surface"}) \/ ServerShift(d, {"get_lock_surface", "commit"})
    PROVE  \A i, o, m : Asked(GetLockSurface(i, o, m)) => Asked(GetLockSurface(i, o, m))'
  BY SurfaceOps DEF ServerShift, Asked

LEMMA AwaitedShift ==
    ASSUME NEW e \in {0, 1}, ClientShift(e, {"configure"})
    PROVE  \A i, n : Awaited(Configure(i, n))' <=> Awaited(Configure(i, n))
<1>1. \A i, n : \A k \in Nat : /\ Due(k, Configure(i, n))' => k + e \in Nat /\ Due(k + e, Configure(i, n))
                               /\ Due(k, Configure(i, n)) => k - e \in Nat /\ Due(k - e, Configure(i, n))'
  BY SurfaceOps DEF ClientShift
<1> QED BY <1>1 DEF Awaited

(* Nothing that a window waits for is touched.                             *)
LEMMA DueKept ==
    ASSUME DocumentedInv, DueInv, NEW d \in {0, 1}, ServerShift(d, {"get_lock_surface", "commit"}),
           connected' => connected, LocksAnswerOnce,
           \A i \in Ids :
                /\ slot'[i].data = slot[i].data
                /\ slot[i].state = "destroyed" => slot'[i].state = "destroyed"
                /\ slot'[i].state = "live" =>
                    /\ slot[i].state = "live"
                    /\ st'[slot[i].data].size = st[slot[i].data].size
                    /\ st[slot[i].data].first => st'[slot[i].data].first
                    /\ \A n : Awaited(Configure(i, n))' <=> Awaited(Configure(i, n))
                /\ role'[i].state = role[i].state /\ role'[i].sent = role[i].sent
                /\ role'[i].shown = role[i].shown,
           \A s \in Structs : st[s].state # "none" => st'[s].lock = st[s].lock,
           \A w \in Windows : win'[w] = "mapped" =>
                win[w] = "mapped" /\ cur'[w] = cur[w] /\ painted'[w] = painted[w]
    PROVE  DueInv'
<1>1. ASSUME NEW i \in Ids PROVE Pending(i)'
  <2>1. role[i].state = "inert" => LockOf(i)' = LockOf(i) /\ LockOf(i) \in Objs
    BY InertHasLock DEF LockOf
  <2>2. \A o, m : Asked(GetLockSurface(i, o, m)) => Asked(GetLockSurface(i, o, m))'
    BY AskedShift
  <2>3. Pending(i)
    BY DEF DueInv
  <2> QED BY <2>1, <2>2, <2>3, PendingKept
<1>2. FramesLast'
  <2>1. ServerShift(d, {"commit"})
    BY DEF ServerShift
  <2>2. \A w \in Windows : win[w] = "mapped" => cur[w] \in Ids
    BY DEF DocumentedInv, SurfaceInv, OnScreen
  <2>3. FramesLast
    BY DEF DueInv
  <2> QED BY <2>1, <2>2, <2>3, FramesLastKept
<1> QED BY <1>1, <1>2 DEF DueInv

LEMMA PreparedDue ==
    ASSUME DocumentedInv, DueInv, NEW l \in Locks, NEW w \in Windows, NEW m \in Outputs,
           data[w] = NULL, win[w] = "new", NewSurface(l, w, m)
    PROVE  DueInv'
<1>1. SurfaceInv /\ Shape /\ SurfaceTypeOK
  BY DEF DocumentedInv, SurfaceInv
<1>2. PICK s \in Structs :
        /\ st[s].state = "none" /\ \E new : st' = [st EXCEPT ![s] = new]
        /\ Quiet /\ slot' = slot
  BY SMTT(30) DEF NewSurface, Allocatable
<1>3. UNCHANGED <<toClient, serverVars, win, cur, painted, role>>
  BY DEF NewSurface
<1>4. \A t \in Structs \ {s} : st'[t] = st[t]
  BY <1>1, <1>2 DEF SurfaceTypeOK
<1>5. \A i \in Ids : slot[i].state = "live" => slot[i].data \in Structs \ {s}
  BY <1>1, <1>2 DEF Shape, LiveStructs, Made
<1>6. ServerShift(0, {"get_lock_surface", "commit"}) /\ ClientShift(0, {"configure"})
  BY <1>2, <1>3, SameShift, DueSameShift DEF Quiet
<1>7. \A i, n : Awaited(Configure(i, n))' <=> Awaited(Configure(i, n))
  BY <1>6, AwaitedShift
<1>8. LocksAnswerOnce /\ connected' = connected
  BY <1>3 DEF serverVars, LocksAnswerOnce
<1> QED BY <1>2, <1>3, <1>4, <1>5, <1>6, <1>7, <1>8, DueKept

LEMMA StillDue ==
    ASSUME DocumentedInv, DueInv, UNCHANGED <<toServer, toClient, serverVars, st, slot, role>>,
           \A w \in Windows : win'[w] = "mapped" =>
                win[w] = "mapped" /\ cur'[w] = cur[w] /\ painted'[w] = painted[w]
    PROVE  DueInv'
<1>1. ServerShift(0, {"get_lock_surface", "commit"}) /\ ClientShift(0, {"configure"})
  BY SameShift, DueSameShift
<1>2. \A i, n : Awaited(Configure(i, n))' <=> Awaited(Configure(i, n))
  BY <1>1, AwaitedShift
<1>3. LocksAnswerOnce /\ connected' = connected
  BY DEF serverVars, LocksAnswerOnce
<1> QED BY <1>1, <1>2, <1>3, DueKept

LEMMA LettingGoDue ==
    ASSUME DocumentedInv, DueInv, NEW s \in Structs, slot' = Unmapped(s), SendUnmap(s),
           UNCHANGED <<toClient, serverVars, role>>,
           \A t \in Structs : /\ st'[t].lock = st[t].lock
                              /\ t # s => st'[t].size = st[t].size /\ (st[t].first => st'[t].first),
           \A w \in Windows : win'[w] = "mapped" =>
                win[w] = "mapped" /\ cur'[w] = cur[w] /\ painted'[w] = painted[w]
    PROVE  DueInv'
<1>1. SurfaceInv /\ SurfaceTypeOK /\ LockTypes
  BY DEF DocumentedInv, SurfaceInv, LockInv, WireInv, HandleInv
<1>2. \A i \in Ids : /\ slot'[i].data = slot[i].data
                     /\ slot'[i].state = IF st[s].obj = i THEN "destroyed" ELSE slot[i].state
  BY <1>1, Unmapping
<1>3. \A i \in Ids : slot'[i].state = "live" => slot[i].state = "live" /\ slot[i].data \in Structs \ {s}
  BY <1>1, <1>2 DEF SurfaceInv, Backed
<1>4. ServerShift(0, {"get_lock_surface", "commit"})
  <2>1. CASE st[s].obj = NULL
    BY <2>1, SameShift DEF SendUnmap, Quiet
  <2>2. CASE st[s].obj # NULL
    <3>1. toServer' = Append(toServer, DestroySurface(st[s].obj))
      BY <2>2 DEF SendUnmap, Queue
    <3>2. DestroySurface(st[s].obj).op \notin {"get_lock_surface", "commit"}
      BY SurfaceOps
    <3> QED BY <1>1, <3>1, <3>2, AddedShift
  <2> QED BY <2>1, <2>2
<1>5. \A i, n : Awaited(Configure(i, n))' <=> Awaited(Configure(i, n))
  <2>1. ClientShift(0, {"configure"})
    BY DueSameShift
  <2> QED BY <2>1, AwaitedShift
<1>6. LocksAnswerOnce /\ connected' = connected
  BY DEF serverVars, LocksAnswerOnce
<1> QED BY <1>2, <1>3, <1>4, <1>5, <1>6, DueKept

LEMMA UnmapDue ==
    ASSUME DocumentedInv, DueInv, NEW w \in Windows, Unmap(w) PROVE DueInv'
<1>1. SurfaceTypeOK
  BY DEF DocumentedInv, SurfaceInv
<1>2. PICK s \in Structs : s = data[w]
  BY <1>1 DEF Unmap, SurfaceTypeOK
<1>3. /\ slot' = Unmapped(s) /\ SendUnmap(s) /\ st' = [st EXCEPT ![s].obj = NULL]
      /\ UNCHANGED <<toClient, serverVars, windowVars, role>>
  BY <1>2 DEF Unmap
<1>4. \A t \in Structs : /\ st'[t].lock = st[t].lock /\ st'[t].size = st[t].size
                         /\ st'[t].first <=> st[t].first
  BY <1>1, <1>3, Unpointed
<1> QED BY <1>3, <1>4, LettingGoDue DEF windowVars

LEMMA DestroyWindowDue ==
    ASSUME DocumentedInv, DueInv, NEW w \in Windows, data[w] # NULL, DestroyWindow(w) PROVE DueInv'
<1>1. SurfaceTypeOK
  BY DEF DocumentedInv, SurfaceInv
<1>2. PICK s \in Structs : s = data[w]
  BY <1>1 DEF SurfaceTypeOK
<1>3. /\ slot' = Unmapped(s) /\ SendUnmap(s) /\ st' = [st EXCEPT ![s].state = "freed", ![s].obj = NULL]
      /\ UNCHANGED <<toClient, serverVars, painted, role>>
  BY <1>2, SMTT(30) DEF DestroyWindow
<1>4. \A t \in Structs : st'[t].lock = st[t].lock /\ (t # s => st'[t] = st[t])
  BY <1>1, <1>3, Freed
<1>5. \A v \in Windows : win'[v] = "mapped" => win[v] = "mapped" /\ cur'[v] = cur[v]
  BY <1>1 DEF DestroyWindow, SurfaceTypeOK
<1> QED BY <1>3, <1>4, <1>5, LettingGoDue

(* A window is shown: its surface is new to the compositor and asked for.  *)
LEMMA ShowDue ==
    ASSUME DocumentedInv, DueInv, NEW w \in Windows, data[w] # NULL, proxy[st[data[w]].lock] = "live", Show(w)
    PROVE  DueInv'
<1>1. SurfaceInv /\ Shape /\ Turns /\ SurfaceTypeOK /\ LockInv /\ LockTypes
  BY DEF DocumentedInv, SurfaceInv, LockInv, WireInv, HandleInv
<1>2. PICK s \in Structs : s = data[w]
  BY <1>1 DEF SurfaceTypeOK
<1>3. st[s].state = "live" /\ st[s].win = w /\ win[w] # "mapped"
  BY <1>1, <1>2 DEF SurfaceInv, Attached, Show
<1>4. st[s].obj = NULL
  BY <1>1, <1>3 DEF Shape, ShownBy
<1>5. PICK o \in Objs, m \in Outputs : o = st[s].lock /\ m = st[s].mon
  BY <1>1, <1>3 DEF Shape, StructLock
<1>6. PICK i \in Ids, b \in BOOLEAN :
        /\ slot[i].state = "none" /\ cur' = [cur EXCEPT ![w] = i]
        /\ slot' = [slot EXCEPT ![i] = Surface(w, "live", s, b)]
        /\ st' = [st EXCEPT ![s].obj = i]
        /\ Queue(GetLockSurface(i, o, m))
  <2>1. PICK i \in Ids, b \in BOOLEAN : Fresh(i) /\ cur' = [cur EXCEPT ![w] = i] /\ Map(w, s, i, b)
    BY <1>2 DEF Show, Detached
  <2> QED BY <1>4, <1>5, <2>1 DEF Map, Fresh
<1>7. /\ UNCHANGED <<toClient, serverVars, role>>
      /\ win' = [win EXCEPT ![w] = "mapped"] /\ painted' = [painted EXCEPT ![w] = 0]
  BY DEF Show
<1>8. slot'[i].data = s /\ \A j \in Ids \ {i} : slot'[j] = slot[j]
  <2>1. PICK r \in SlotRecords : r = Surface(w, "live", s, b) /\ r.state = "live" /\ r.data = s
    BY SurfaceRecord
  <2> QED BY <1>1, <1>6, <2>1 DEF SurfaceTypeOK
<1>9. \A t \in Structs : /\ st'[t].lock = st[t].lock /\ st'[t].size = st[t].size
                         /\ st'[t].first <=> st[t].first
  BY <1>1, <1>6, Pointed
<1>10. toServer' = Append(toServer, GetLockSurface(i, o, m))
  BY <1>6 DEF Queue
<1>11. /\ \A x : Asked(x) => Asked(x)'
       /\ Asked(GetLockSurface(i, o, m))'
  BY <1>1, <1>10, Added DEF Asked
<1>12. LocksAnswerOnce /\ connected' = connected
  BY <1>7 DEF serverVars, LocksAnswerOnce
<1>13. ASSUME NEW j \in Ids PROVE Pending(j)'
  <2>1. CASE j = i
    <3>1. role[i].state = "none"
      BY <1>1, <1>6 DEF Turns, RolesMatch, Made
    <3> QED BY <1>7, <1>11, <2>1, <3>1 DEF DueInv, Pending
  <2>2. CASE j # i
    <3>1. ClientShift(0, {"configure"})
      BY <1>7, DueSameShift
    <3>2. \A n : Awaited(Configure(j, n))' <=> Awaited(Configure(j, n))
      BY <3>1, AwaitedShift
    <3>3. role[j].state = "inert" => LockOf(j)' = LockOf(j) /\ LockOf(j) \in Objs
      BY <1>8, <1>9, <2>2, InertHasLock DEF LockOf
    <3>4. slot[j].state = "live" => slot[j].data \in Structs
      BY <1>1 DEF SurfaceInv, Backed
    <3>5. Pending(j)
      BY DEF DueInv
    <3> QED BY <1>7, <1>8, <1>9, <1>11, <1>12, <2>2, <3>2, <3>3, <3>4, <3>5, PendingKept
  <2> QED BY <2>1, <2>2
<1>14. FramesLast'
  <2>1. ServerShift(0, {"commit"})
    <3>1. GetLockSurface(i, o, m).op \notin {"commit"}
      BY SurfaceOps
    <3> QED BY <1>1, <1>10, <3>1, AddedShift
  <2>2. ASSUME NEW v \in Windows, win'[v] = "mapped", slot'[cur'[v]].state = "live", painted'[v] # 0
        PROVE  /\ win[v] = "mapped" /\ slot[cur[v]].state = "live"
               /\ cur'[v] = cur[v] /\ painted'[v] = painted[v]
    <3>1. v # w
      BY <1>1, <1>7, <2>2 DEF SurfaceTypeOK
    <3>2. win[v] = "mapped" /\ cur'[v] = cur[v] /\ painted'[v] = painted[v]
      BY <1>1, <1>6, <1>7, <2>2, <3>1 DEF SurfaceTypeOK
    <3>3. cur[v] \in Ids \ {i}
      BY <1>1, <1>6, <3>2 DEF SurfaceInv, OnScreen
    <3> QED BY <1>8, <2>2, <3>2, <3>3
  <2>3. FramesLast
    BY DEF DueInv
  <2> QED BY <1>7, <1>12, <2>1, <2>2, <2>3, FramesLastKept
<1> QED BY <1>13, <1>14 DEF DueInv

(* A configure reaches a live surface: its struct has the size sent last   *)
(* when it was the last one, and the last is still to come when it was not.*)
LEMMA HandleConfigureDue ==
    ASSUME DocumentedInv, DueInv, NEW i \in Ids, NEW n \in Serial, HandleConfigure(i, n)
    PROVE  DueInv'
<1>1. SurfaceInv /\ Shape /\ SurfaceTypeOK /\ LockInv /\ LockTypes /\ Serials
  BY DEF DocumentedInv, SurfaceInv, LockInv, WireInv, HandleInv
<1>2. /\ toClient # <<>> /\ Head(toClient) = Configure(i, n) /\ toClient' = Tail(toClient)
      /\ UNCHANGED <<serverVars, win, cur, painted, slot, role>>
  BY DEF HandleConfigure
<1>3. \A j \in Ids : \A p : (j = i => p # n) => (Awaited(Configure(j, p))' <=> Awaited(Configure(j, p)))
  <2> SUFFICES ASSUME NEW j \in Ids, NEW p, j = i => p # n
               PROVE  Awaited(Configure(j, p))' <=> Awaited(Configure(j, p))
    OBVIOUS
  <2>1. Configure(j, p) # Configure(i, n)
    BY SurfaceMessages
  <2>2. Awaited(Configure(j, p))' => Awaited(Configure(j, p))
    BY <1>1, <1>2, DueTaken DEF Awaited
  <2>3. ASSUME NEW k \in Nat, Due(k, Configure(j, p)) PROVE Awaited(Configure(j, p))'
    <3>1. 1 <= k /\ k # 1
      BY <1>1, <1>2, <2>1, <2>3, DueTaken
    <3>2. k - 1 \in Nat /\ (k - 1) + 1 = k /\ 1 <= k - 1
      BY <3>1
    <3>3. Due(k - 1, Configure(j, p))'
      BY <1>1, <1>2, <2>3, <3>2, DueTaken
    <3> QED BY <3>2, <3>3 DEF Awaited
  <2> QED BY <2>2, <2>3 DEF Awaited
<1>4. LocksAnswerOnce /\ connected' = connected
  BY <1>2 DEF serverVars, LocksAnswerOnce
<1>5. CASE slot[i].state # "live"
  <2>1. UNCHANGED <<st, toServer>>
    BY <1>5 DEF HandleConfigure, Quiet
  <2>2. ServerShift(0, {"get_lock_surface", "commit"})
    BY <2>1, SameShift
  <2> QED BY <1>2, <1>3, <1>4, <1>5, <2>1, <2>2, DueKept
<1>6. CASE slot[i].state = "live"
  <2>1. PICK s \in Structs : s = slot[i].data /\ st[s].state = "live" /\ st[s].obj = i
    BY <1>1, <1>6 DEF SurfaceInv, Backed
  <2>2. Queue(AckConfigure(i, n)) /\ st' = [st EXCEPT ![s].size = n, ![s].first = TRUE]
    BY <1>6, <2>1 DEF HandleConfigure
  <2>3. \A t \in Structs : /\ st'[t].lock = st[t].lock
                           /\ st'[t].size = IF t = s THEN n ELSE st[t].size
                           /\ st'[t].first <=> (t = s \/ st[t].first)
    BY <1>1, <2>2, Sized
  <2>4. ServerShift(0, {"get_lock_surface", "commit"})
    <3>1. AckConfigure(i, n).op \notin {"get_lock_surface", "commit"}
      BY SurfaceOps
    <3> QED BY <1>1, <2>2, <3>1, AddedShift DEF Queue
  <2>5. \A j, o, m : Asked(GetLockSurface(j, o, m)) => Asked(GetLockSurface(j, o, m))'
    BY <2>4, AskedShift
  <2>6. ASSUME NEW j \in Ids, j # i PROVE Pending(j)'
    <3>1. \A p : Awaited(Configure(j, p))' <=> Awaited(Configure(j, p))
      BY <1>3, <2>6
    <3>2. role[j].state = "inert" => LockOf(j)' = LockOf(j) /\ LockOf(j) \in Objs
      BY <1>2, <2>3, InertHasLock DEF LockOf
    <3>3. slot[j].state = "live" => slot[j].data \in Structs \ {s}
      BY <1>1, <2>1, <2>6 DEF SurfaceInv, Backed
    <3>4. Pending(j)
      BY DEF DueInv
    <3> QED BY <1>2, <1>4, <2>3, <2>5, <3>1, <3>2, <3>3, <3>4, PendingKept
  <2>7. Pending(i)'
    <3>1. Due(1, Configure(i, n))
      BY <1>1, <1>2, DueTaken
    <3>2. n <= role[i].sent /\ role[i].sent \in Serial /\ Serial \subseteq Nat
      BY <1>1, <3>1, SerialTypes DEF Serials, ConfiguresNew, SurfaceTypeOK, RoleRecords
    <3>3. ASSUME NEW p \in Serial, Awaited(Configure(i, p))' PROVE n < p /\ p <= role[i].sent
      <4>1. PICK k \in Nat : Due(k, Configure(i, p))'
        BY <3>3 DEF Awaited
      <4>2. k + 1 \in Nat /\ 1 < k + 1 /\ Due(k + 1, Configure(i, p))
        BY <1>1, <1>2, <4>1, DueTaken
      <4> QED BY <1>1, <3>1, <4>2 DEF Serials, ConfiguresInOrder, ConfiguresNew
    <3>4. Pending(i)
      BY DEF DueInv
    <3>5. ASSUME connected, role[i].state = "bound"
          PROVE  UpToDate(i)' \/ Awaited(Configure(i, role[i].sent))'
      <4>1. CASE n = role[i].sent
        <5>1. \A p \in Serial : ~Awaited(Configure(i, p))'
          BY <3>2, <3>3, <4>1
        <5> QED BY <1>2, <2>1, <2>3, <4>1, <5>1 DEF UpToDate
      <4>2. CASE n # role[i].sent
        <5>1. ~UpToDate(i)
          BY <3>1 DEF UpToDate, Awaited
        <5>2. Awaited(Configure(i, role[i].sent))
          BY <1>6, <3>4, <3>5, <5>1 DEF Pending
        <5> QED BY <1>2, <1>3, <4>2, <5>2
      <4> QED BY <4>1, <4>2
    <3>6. role[i].state = "inert" => LockOf(i)' = LockOf(i) /\ res' = res
      BY <1>2, <2>1, <2>3 DEF LockOf, serverVars
    <3> QED BY <1>2, <1>4, <1>6, <2>5, <3>4, <3>5, <3>6 DEF Pending
  <2>8. FramesLast'
    <3>1. ServerShift(0, {"commit"})
      BY <2>4 DEF ServerShift
    <3>2. FramesLast
      BY DEF DueInv
    <3> QED BY <1>2, <1>4, <3>1, <3>2, FramesLastKept
  <2> QED BY <2>6, <2>7, <2>8 DEF DueInv
<1> QED BY <1>5, <1>6

(* A window is drawn: the frame is the last of its surface.                *)
LEMMA PaintDue ==
    ASSUME DocumentedInv, DueInv, NEW w \in Windows, Paint(w) PROVE DueInv'
<1>1. SurfaceInv /\ Shape /\ SurfaceTypeOK /\ LockInv /\ LockTypes
  BY DEF DocumentedInv, SurfaceInv, LockInv, WireInv, HandleInv
<1>2. /\ win[w] = "mapped" /\ data[w] # NULL /\ painted' = [painted EXCEPT ![w] = st[data[w]].size]
      /\ toServer' = Append(toServer, Commit(cur[w], st[data[w]].size))
      /\ UNCHANGED <<toClient, serverVars, win, data, cur, st, slot, role>>
  BY DEF Paint, Queue
<1>3. PICK s \in Structs : s = data[w]
  BY <1>1, <1>2 DEF SurfaceTypeOK
<1>4. PICK i \in Ids : i = cur[w] /\ slot[i].data = s
  BY <1>1, <1>2, <1>3 DEF Shape, Mapped
<1>5. PICK n \in Serial : n = st[s].size
  BY <1>1, Fields
<1>6. toServer' = Append(toServer, Commit(i, n)) /\ painted' = [painted EXCEPT ![w] = n]
  BY <1>2, <1>3, <1>4, <1>5
<1>7. LocksAnswerOnce /\ connected' = connected
  BY <1>2 DEF serverVars, LocksAnswerOnce
<1>8. ASSUME NEW j \in Ids PROVE Pending(j)'
  <2>1. ServerShift(0, {"get_lock_surface"}) /\ ClientShift(0, {"configure"})
    <3>1. Commit(i, n).op \notin {"get_lock_surface"}
      BY SurfaceOps
    <3> QED BY <1>1, <1>2, <1>6, <3>1, AddedShift, DueSameShift
  <2>2. \A o, m : Asked(GetLockSurface(j, o, m)) => Asked(GetLockSurface(j, o, m))'
    BY <2>1, AskedShift
  <2>3. \A p : Awaited(Configure(j, p))' <=> Awaited(Configure(j, p))
    BY <2>1, AwaitedShift
  <2>4. role[j].state = "inert" => LockOf(j)' = LockOf(j) /\ LockOf(j) \in Objs
    BY <1>2, InertHasLock DEF LockOf
  <2>5. Pending(j)
    BY DEF DueInv
  <2> QED BY <1>2, <1>7, <2>2, <2>3, <2>4, <2>5, PendingKept
<1>9. FramesLast'
  <2>1. PICK z \in Nat :
          /\ \A x : \A k \in Nat : At(k, x) => 1 <= k /\ k <= z
          /\ \A x : \A k \in Nat : At(k, x)' <=> At(k, x) \/ (k = z + 1 /\ x = Commit(i, n))
    BY <1>1, <1>6, Added
  <2>2. LastFrame(i, n)'
    <3>1. z + 1 \in Nat /\ At(z + 1, Commit(i, n))'
      BY <2>1
    <3>2. \A l \in Nat, p \in Serial : At(l, Commit(i, p))' => l <= z + 1
      <4> SUFFICES ASSUME NEW l \in Nat, NEW p \in Serial, At(l, Commit(i, p))' PROVE l <= z + 1
        OBVIOUS
      <4>1. l <= z \/ l = z + 1
        BY <2>1
      <4> QED BY <4>1
    <3> QED BY <3>1, <3>2 DEF LastFrame
  <2>3. ASSUME NEW v \in Windows, v # w, win[v] = "mapped", slot[cur[v]].state = "live" PROVE cur[v] # i
    <3>1. data[v] # NULL /\ data[v] \in Structs /\ slot[cur[v]].data = data[v]
      BY <1>1, <2>3 DEF Shape, Mapped, SurfaceTypeOK
    <3>2. data[v] # s
      BY <1>1, <1>2, <1>3, <2>3, <3>1 DEF SurfaceInv, Attached
    <3> QED BY <1>4, <3>1, <3>2
  <2>4. ASSUME NEW j \in Ids, NEW p, j # i, LastFrame(j, p) PROVE LastFrame(j, p)'
    <3>1. \A q : \A k \in Nat : At(k, Commit(j, q))' <=> At(k, Commit(j, q))
      BY <2>1, <2>4, SurfaceMessages
    <3> QED BY <1>2, <2>4, <3>1 DEF LastFrame, Asked
  <2> SUFFICES ASSUME NEW v \in Windows, connected, win[v] = "mapped", slot[cur[v]].state = "live", painted'[v] # 0
               PROVE  LastFrame(cur[v], painted[v])'
    BY <1>2, <1>7 DEF FramesLast
  <2>5. CASE v = w
    <3>1. painted'[v] = n /\ cur'[v] = i
      BY <1>1, <1>2, <1>4, <1>6, <2>5 DEF SurfaceTypeOK
    <3> QED BY <2>2, <3>1 DEF LastFrame
  <2>6. CASE v # w
    <3>1. cur[v] \in Ids /\ cur[v] # i
      BY <1>1, <2>3, <2>6 DEF SurfaceInv, OnScreen
    <3>2. painted'[v] = painted[v] /\ cur'[v] = cur[v]
      BY <1>1, <1>2, <1>6, <2>6 DEF SurfaceTypeOK
    <3>3. LastFrame(cur[v], painted[v])
      BY <3>2 DEF DueInv, FramesLast
    <3>4. PICK j, p : j \in Ids /\ j = cur[v] /\ p = painted[v]
      BY <3>1
    <3>5. LastFrame(j, p)'
      BY <2>4, <3>1, <3>3, <3>4
    <3> QED BY <3>2, <3>4, <3>5 DEF LastFrame
  <2> QED BY <2>5, <2>6
<1> QED BY <1>8, <1>9 DEF DueInv

(* The compositor answers for one surface: the others go on waiting.       *)
LEMMA OthersDue ==
    ASSUME DocumentedInv, DueInv, NEW i \in Ids, NEW j \in Ids, j # i,
           UNCHANGED <<serverVars, windowVars, st, slot>>, role'[j] = role[j],
           \A o, m : Asked(GetLockSurface(j, o, m)) => Asked(GetLockSurface(j, o, m))',
           \A p : Awaited(Configure(j, p))' <=> Awaited(Configure(j, p))
    PROVE  Pending(j)'
<1>1. LocksAnswerOnce /\ connected' = connected
  BY DEF serverVars, LocksAnswerOnce
<1>2. role[j].state = "inert" => LockOf(j)' = LockOf(j) /\ LockOf(j) \in Objs
  BY InertHasLock DEF LockOf
<1>3. Pending(j)
  BY DEF DueInv
<1> QED BY <1>1, <1>2, <1>3, PendingKept

LEMMA HandleDestroyDue ==
    ASSUME DocumentedInv, DueInv, NEW i \in Ids, HandleDestroySurface(i) PROVE DueInv'
<1>1. LockTypes /\ SurfaceTypeOK
  BY DEF DocumentedInv, SurfaceInv, LockInv, WireInv, HandleInv
<1>2. /\ Arrived(DestroySurface(i)) /\ toServer' = Tail(toServer) /\ toClient' = toClient \o <<>>
      /\ role' = [role EXCEPT ![i] = [role[i] EXCEPT !.state = "gone"]]
      /\ UNCHANGED <<serverVars, windowVars, st, slot>>
  BY DEF HandleDestroySurface, Answer
<1>3. toClient' = toClient /\ connected' = connected
  BY <1>1, <1>2, EventsAdded DEF serverVars
<1>4. /\ role'[i].state = "gone" /\ role'[i].shown = role[i].shown
      /\ \A j \in Ids \ {i} : role'[j] = role[j]
  BY <1>1, <1>2 DEF SurfaceTypeOK, RoleRecords
<1>5. ServerShift(1, {"get_lock_surface", "commit"}) /\ ClientShift(0, {"configure"})
  <2>1. DestroySurface(i).op \notin {"get_lock_surface", "commit"}
    BY SurfaceOps
  <2> QED BY <1>1, <1>2, <1>3, <2>1, TakenShift, DueSameShift
<1>6. Pending(i)'
  <2>1. slot[i].state = "destroyed"
    BY <1>1, <1>2, FirstMessage DEF DocumentedInv, Turns, DestroysDue
  <2> QED BY <1>2, <1>4, <2>1 DEF Pending
<1>7. ASSUME NEW j \in Ids, j # i PROVE Pending(j)'
  <2>1. \A p : Awaited(Configure(j, p))' <=> Awaited(Configure(j, p))
    BY <1>5, AwaitedShift
  <2>2. \A o, m : Asked(GetLockSurface(j, o, m)) => Asked(GetLockSurface(j, o, m))'
    BY <1>5, AskedShift
  <2> QED BY <1>2, <1>4, <1>7, <2>1, <2>2, OthersDue
<1>8. FramesLast'
  <2>1. ServerShift(1, {"commit"}) /\ FramesLast
    BY <1>5 DEF ServerShift, DueInv
  <2>2. \A w \in Windows : win[w] = "mapped" => cur[w] \in Ids
    BY DEF DocumentedInv, SurfaceInv, OnScreen
  <2>3. \A j \in Ids : role'[j].shown = role[j].shown
    BY <1>4
  <2> QED BY <1>2, <1>3, <2>1, <2>2, <2>3, FramesLastKept DEF windowVars
<1> QED BY <1>6, <1>7, <1>8 DEF DueInv

LEMMA HandleAckDue ==
    ASSUME DocumentedInv, DueInv, NEW i \in Ids, NEW n \in Serial, HandleAck(i, n) PROVE DueInv'
<1>1. LockTypes /\ SurfaceTypeOK
  BY DEF DocumentedInv, SurfaceInv, LockInv, WireInv, HandleInv
<1>2. /\ Arrived(AckConfigure(i, n)) /\ toServer' = Tail(toServer) /\ toClient' = toClient \o <<>>
      /\ role' = [role EXCEPT ![i] = [role[i] EXCEPT !.acked = n]]
      /\ UNCHANGED <<serverVars, windowVars, st, slot>>
  BY AckIsLegal DEF Answer
<1>3. toClient' = toClient /\ connected' = connected /\ LocksAnswerOnce
  BY <1>1, <1>2, EventsAdded DEF serverVars, LocksAnswerOnce
<1>4. \A j \in Ids : /\ role'[j].state = role[j].state /\ role'[j].sent = role[j].sent
                     /\ role'[j].shown = role[j].shown
  BY <1>1, <1>2 DEF SurfaceTypeOK, RoleRecords
<1>5. ServerShift(1, {"get_lock_surface", "commit"}) /\ ClientShift(0, {"configure"})
  <2>1. AckConfigure(i, n).op \notin {"get_lock_surface", "commit"}
    BY SurfaceOps
  <2> QED BY <1>1, <1>2, <1>3, <2>1, TakenShift, DueSameShift
<1>6. \A j, p : Awaited(Configure(j, p))' <=> Awaited(Configure(j, p))
  BY <1>5, AwaitedShift
<1> QED BY <1>2, <1>3, <1>4, <1>5, <1>6, DueKept DEF windowVars

LEMMA HandleGetDue ==
    ASSUME DocumentedInv, DueInv, NEW i \in Ids, NEW o \in Objs, NEW m \in Outputs, HandleGetLockSurface(i, o, m)
    PROVE  DueInv'
<1>1. LockTypes /\ SurfaceTypeOK
  BY DEF DocumentedInv, SurfaceInv, LockInv, WireInv, HandleInv
<1>2. PICK x \in {"bound", "inert"}, n \in {0, 1} :
        /\ \/ x = "bound" /\ n = 1 /\ res[o] = "locked"
           \/ x = "inert" /\ n = 0 /\ res[o] \in {"denied", "revoked"}
        /\ Answer(i, NewRole(x, o, m, n), IF x = "bound" THEN <<Configure(i, 1)>> ELSE <<>>)
  BY GetIsAnswered
<1>3. Arrived(GetLockSurface(i, o, m)) /\ role[i].state = "none"
  BY GetIsAnswered
<1>4. PICK r \in RoleRecords : r = NewRole(x, o, m, n) /\ r.state = x /\ r.sent = n /\ r.shown = 0
  <2>1. n \in Serial
    BY SerialTypes
  <2> QED BY <2>1, NewRoleFields
<1>5. /\ toServer' = Tail(toServer) /\ role' = [role EXCEPT ![i] = r]
      /\ toClient' = toClient \o (IF x = "bound" THEN <<Configure(i, 1)>> ELSE <<>>)
      /\ UNCHANGED <<serverVars, windowVars, st, slot>>
  BY <1>2, <1>4 DEF Answer
<1>6. toClient' = IF x = "bound" THEN Append(toClient, Configure(i, 1)) ELSE toClient
  BY <1>1, <1>5, EventsAdded
<1>7. role'[i] = r /\ (\A j \in Ids \ {i} : role'[j] = role[j]) /\ connected' = connected /\ res' = res
  BY <1>1, <1>5 DEF SurfaceTypeOK, serverVars
<1>8. Pending(i)'
  <2>1. o = LockOf(i) /\ LockOf(i)' = LockOf(i)
    <3>1. At(1, GetLockSurface(i, o, m))
      BY <1>1, <1>3, FirstMessage
    <3> QED BY <1>5, <3>1 DEF DocumentedInv, Turns, GetsDue, LockOf
  <2>2. x = "bound" => Awaited(Configure(i, 1))'
    BY <1>1, <1>6, DueAdded DEF Awaited
  <2>3. CASE x = "bound"
    <3>1. role'[i].state = "bound" /\ role'[i].sent = 1
      BY <1>2, <1>4, <1>7, <2>3
    <3>2. Awaited(Configure(i, role[i].sent))'
      BY <2>2, <2>3, <3>1
    <3> QED BY <3>1, <3>2 DEF Pending
  <2>4. CASE x = "inert"
    <3>1. role'[i].state = "inert" /\ role'[i].sent = 0
      BY <1>2, <1>4, <1>7, <2>4
    <3>2. res'[LockOf(i)'] \notin {"none", "locked"}
      BY <1>2, <1>7, <2>1, <2>4
    <3> QED BY <3>1, <3>2 DEF Pending
  <2> QED BY <2>3, <2>4
<1>9. ASSUME NEW j \in Ids, j # i PROVE Pending(j)'
  <2>1. \A p : Awaited(Configure(j, p))' <=> Awaited(Configure(j, p))
    <3>1. CASE x = "bound"
      <4>1. \A p : Configure(j, p) # Configure(i, 1)
        BY <1>9, SurfaceMessages
      <4>2. toClient' = Append(toClient, Configure(i, 1))
        BY <1>6, <3>1
      <4> QED BY <1>1, <4>1, <4>2, DueAdded DEF Awaited
    <3>2. CASE x = "inert"
      <4>1. ClientShift(0, {"configure"})
        BY <1>6, <3>2, DueSameShift
      <4> QED BY <4>1, AwaitedShift
    <3> QED BY <3>1, <3>2
  <2>2. ASSUME NEW q, NEW y, Asked(GetLockSurface(j, q, y)) PROVE Asked(GetLockSurface(j, q, y))'
    <3>1. GetLockSurface(j, q, y) # GetLockSurface(i, o, m)
      BY <1>9, SurfaceMessages
    <3>2. PICK k \in Nat : At(k, GetLockSurface(j, q, y))
      BY <2>2 DEF Asked
    <3>3. 1 <= k /\ k # 1
      BY <1>1, <1>3, <1>5, <3>1, <3>2, Taken
    <3>4. k - 1 \in Nat /\ (k - 1) + 1 = k /\ 1 <= k - 1
      BY <3>3
    <3>5. At(k - 1, GetLockSurface(j, q, y))'
      BY <1>1, <1>3, <1>5, <3>2, <3>4, Taken
    <3> QED BY <3>4, <3>5 DEF Asked
  <2> QED BY <1>5, <1>7, <1>9, <2>1, <2>2, OthersDue
<1>10. FramesLast'
  <2>1. ServerShift(1, {"commit"})
    <3>1. GetLockSurface(i, o, m).op \notin {"commit"}
      BY SurfaceOps
    <3> QED BY <1>1, <1>3, <1>5, <3>1, TakenShift
  <2>2. \A w \in Windows : win[w] = "mapped" => cur[w] \in Ids
    BY DEF DocumentedInv, SurfaceInv, OnScreen
  <2>3. \A j \in Ids : role'[j].shown = role[j].shown
    BY <1>3, <1>4, <1>7 DEF DueInv, Pending
  <2>4. FramesLast
    BY DEF DueInv
  <2> QED BY <1>5, <1>7, <2>1, <2>2, <2>3, <2>4, FramesLastKept DEF windowVars
<1> QED BY <1>8, <1>9, <1>10 DEF DueInv

(* A frame is shown.  It is the one drawn last unless another is queued.   *)
LEMMA HandleCommitDue ==
    ASSUME DocumentedInv, DueInv, NEW i \in Ids, NEW n \in Serial, HandleCommit(i, n) PROVE DueInv'
<1>1. LockTypes /\ SurfaceTypeOK
  BY DEF DocumentedInv, SurfaceInv, LockInv, WireInv, HandleInv
<1>2. /\ Arrived(Commit(i, n))
      /\ \/ role[i].state # "bound" /\ Answer(i, role[i], <<>>)
         \/ role[i].state = "bound" /\ Answer(i, [role[i] EXCEPT !.shown = n], <<>>)
  BY CommitIsLegal
<1>3. /\ toServer' = Tail(toServer) /\ toClient' = toClient \o <<>>
      /\ role' = [role EXCEPT ![i] = IF role[i].state = "bound" THEN [role[i] EXCEPT !.shown = n] ELSE role[i]]
      /\ UNCHANGED <<serverVars, windowVars, st, slot>>
  BY <1>2 DEF Answer
<1>4. toClient' = toClient /\ connected' = connected /\ LocksAnswerOnce
  BY <1>1, <1>3, EventsAdded DEF serverVars, LocksAnswerOnce
<1>5. \A j \in Ids : /\ role'[j].state = role[j].state /\ role'[j].sent = role[j].sent
                     /\ role'[j].shown = IF j = i /\ role[j].state = "bound" THEN n ELSE role[j].shown
  BY <1>1, <1>3 DEF SurfaceTypeOK, RoleRecords
<1>6. ASSUME NEW j \in Ids PROVE Pending(j)'
  <2>1. ServerShift(1, {"get_lock_surface"}) /\ ClientShift(0, {"configure"})
    <3>1. Commit(i, n).op \notin {"get_lock_surface"}
      BY SurfaceOps
    <3> QED BY <1>1, <1>2, <1>3, <1>4, <3>1, TakenShift, DueSameShift
  <2>2. \A o, m : Asked(GetLockSurface(j, o, m)) => Asked(GetLockSurface(j, o, m))'
    BY <2>1, AskedShift
  <2>3. \A p : Awaited(Configure(j, p))' <=> Awaited(Configure(j, p))
    BY <2>1, AwaitedShift
  <2>4. role[j].state = "inert" => LockOf(j)' = LockOf(j) /\ LockOf(j) \in Objs
    BY <1>3, InertHasLock DEF LockOf
  <2>5. Pending(j)
    BY DEF DueInv
  <2> QED BY <1>3, <1>4, <1>5, <2>2, <2>3, <2>4, <2>5, PendingKept
<1>7. FramesLast'
  <2> SUFFICES ASSUME NEW w \in Windows, connected, win[w] = "mapped", slot[cur[w]].state = "live", painted[w] # 0
               PROVE  LastFrame(cur[w], painted[w])'
    BY <1>3, <1>4 DEF FramesLast, windowVars
  <2>1. PICK j, p : j \in Ids /\ j = cur[w] /\ p = painted[w] /\ cur'[w] = j /\ painted'[w] = p
    BY <1>3 DEF DocumentedInv, SurfaceInv, OnScreen, windowVars
  <2>2. LastFrame(j, p)
    BY <2>1 DEF DueInv, FramesLast
  <2>3. \A q : \A k \in Nat : At(k, Commit(j, q))' => k + 1 \in Nat /\ At(k + 1, Commit(j, q)) /\ 1 <= k
    BY <1>1, <1>2, <1>3, Taken
  <2>4. ASSUME NEW q, NEW k \in Nat, At(k, Commit(j, q)), k # 1 PROVE k - 1 \in Nat /\ At(k - 1, Commit(j, q))'
    <3>1. 1 <= k
      BY <1>1, <1>2, <1>3, <2>4, Taken
    <3>2. k - 1 \in Nat /\ (k - 1) + 1 = k /\ 1 <= k - 1
      BY <2>4, <3>1
    <3> QED BY <1>1, <1>2, <1>3, <2>4, <3>2, Taken
  <2>5. At(1, Commit(i, n)) /\ \A l, q : At(1, Commit(l, q)) => l = i /\ q = n
    BY <1>1, <1>2, <1>3, Taken, SurfaceMessages
  <2>6. LastFrame(j, p)'
    <3>1. CASE \E k \in Nat : /\ At(k, Commit(j, p)) /\ k # 1
                              /\ \A l \in Nat, q \in Serial : At(l, Commit(j, q)) => l <= k
      <4>1. PICK k \in Nat : /\ At(k, Commit(j, p)) /\ k # 1
                             /\ \A l \in Nat, q \in Serial : At(l, Commit(j, q)) => l <= k
        BY <3>1
      <4>2. k - 1 \in Nat /\ At(k - 1, Commit(j, p))'
        BY <2>4, <4>1
      <4>3. \A l \in Nat, q \in Serial : At(l, Commit(j, q))' => l <= k - 1
        <5> SUFFICES ASSUME NEW l \in Nat, NEW q \in Serial, At(l, Commit(j, q))' PROVE l <= k - 1
          OBVIOUS
        <5>1. l + 1 <= k
          BY <2>3, <4>1
        <5> QED BY <5>1
      <4> QED BY <4>2, <4>3 DEF LastFrame
    <3>2. CASE /\ At(1, Commit(j, p))
               /\ \A l \in Nat, q \in Serial : At(l, Commit(j, q)) => l <= 1
      <4>1. j = i /\ p = n
        BY <2>5, <3>2
      <4>2. role[i].state = "bound"
        <5>1. \A x : \A l \in Nat : At(l, x) => ~(l < 1)
          BY DEF At
        <5>2. \/ role[i].state = "gone"
              \/ n # 0 /\ role[i].acked = n
          BY <2>5, <5>1 DEF DocumentedInv, Frames, CommitsDue
        <5>3. role[i].state # "gone"
          BY <2>1, <4>1 DEF DueInv, Pending
        <5>4. role[i].sent # 0
          <6>1. role[i].acked <= role[i].sent /\ role[i].acked \in Nat /\ role[i].sent \in Nat
            BY <1>1, RoleNumbers DEF DocumentedInv, Serials, Sequenced
          <6> QED BY <5>2, <5>3, <6>1, SerialTypes
        <5>5. role[i].state # "none" /\ role[i].state # "inert"
          BY <5>4 DEF DocumentedInv, Serials, Sequenced, DueInv, Pending
        <5>6. role[i].state \in {"none", "bound", "inert", "gone"}
          BY <1>1 DEF SurfaceTypeOK, RoleRecords
        <5> QED BY <5>3, <5>5, <5>6
      <4>3. role'[j].shown = p
        BY <1>5, <4>1, <4>2
      <4>4. \A q \in Serial : ~Asked(Commit(j, q))'
        <5> SUFFICES ASSUME NEW q \in Serial, NEW k \in Nat, At(k, Commit(j, q))' PROVE FALSE
          BY DEF Asked
        <5>1. k + 1 <= 1 /\ 1 <= k
          BY <2>3, <3>2
        <5> QED BY <5>1
      <4> QED BY <4>3, <4>4 DEF LastFrame
    <3>3. CASE role[j].shown = p /\ \A q \in Serial : ~Asked(Commit(j, q))
      <4>1. j # i
        BY <2>5, <3>3 DEF Asked
      <4>2. \A q \in Serial : ~Asked(Commit(j, q))'
        BY <2>3, <3>3 DEF Asked
      <4> QED BY <1>5, <2>1, <3>3, <4>1, <4>2 DEF LastFrame
    <3> QED BY <2>2, <3>1, <3>2, <3>3 DEF LastFrame
  <2> QED BY <2>1, <2>6 DEF LastFrame
<1> QED BY <1>6, <1>7 DEF DueInv

LEMMA ReconfigureDue ==
    ASSUME DocumentedInv, DueInv, NEW i \in Ids, Reconfigure(i) PROVE DueInv'
<1>1. LockTypes /\ SurfaceTypeOK
  BY DEF DocumentedInv, SurfaceInv, LockInv, WireInv, HandleInv
<1>2. /\ role[i].state = "bound" /\ role' = [role EXCEPT ![i].sent = @ + 1]
      /\ toClient' = Append(toClient, Configure(i, role[i].sent + 1))
      /\ UNCHANGED <<toServer, serverVars, windowVars, st, slot>>
  BY DEF Reconfigure
<1>3. PICK n \in Nat \ {0} : n = role[i].sent + 1
  BY <1>1, RoleNumbers
<1>4. /\ role'[i].state = "bound" /\ role'[i].sent = n /\ role'[i].shown = role[i].shown
      /\ \A j \in Ids \ {i} : role'[j] = role[j]
  BY <1>1, <1>2, <1>3 DEF SurfaceTypeOK, RoleRecords
<1>5. connected' = connected
  BY <1>2 DEF serverVars
<1>6. toClient' = Append(toClient, Configure(i, n))
  BY <1>2, <1>3
<1>7. Pending(i)'
  <2>1. Awaited(Configure(i, n))'
    BY <1>1, <1>6, DueAdded DEF Awaited
  <2>2. Awaited(Configure(i, role[i].sent))'
    BY <1>4, <2>1
  <2> QED BY <1>3, <1>4, <2>2 DEF Pending
<1>8. ASSUME NEW j \in Ids, j # i PROVE Pending(j)'
  <2>1. \A p : Configure(j, p) # Configure(i, n)
    BY <1>8, SurfaceMessages
  <2>2. \A p : Awaited(Configure(j, p))' <=> Awaited(Configure(j, p))
    BY <1>1, <1>6, <2>1, DueAdded DEF Awaited
  <2>3. \A o, m : Asked(GetLockSurface(j, o, m)) => Asked(GetLockSurface(j, o, m))'
    BY <1>2 DEF Asked, At
  <2> QED BY <1>2, <1>4, <1>8, <2>2, <2>3, OthersDue
<1>9. FramesLast'
  <2>1. ServerShift(0, {"commit"}) /\ FramesLast
    BY <1>2, SameShift DEF DueInv
  <2>2. \A w \in Windows : win[w] = "mapped" => cur[w] \in Ids
    BY DEF DocumentedInv, SurfaceInv, OnScreen
  <2>3. \A j \in Ids : role'[j].shown = role[j].shown
    BY <1>4
  <2> QED BY <1>2, <1>5, <2>1, <2>2, <2>3, FramesLastKept DEF windowVars
<1> QED BY <1>7, <1>8, <1>9 DEF DueInv

(* A lock is granted when it is first read, or never.                      *)
LEMMA LocksAnswer ==
    ASSUME LockInv, DocumentedApp \/ Dispatch \/ Compositor PROVE LocksAnswerOnce
<1> USE DEF serverVars
<1>1. LockTypes
  BY DEF LockInv, WireInv, HandleInv
<1>2. CASE DocumentedApp \/ Dispatch
  <2>1. DocumentedApp => res' = res
    BY DEF DocumentedApp, PrepareLock, Lock, SendDestructor, Destroy, UnlockAndDestroy, Unref, Sync, Exit, Crash
  <2>2. Dispatch => res' = res
    BY DEF Dispatch, HandleDone, HandleLocked, HandleFinished
  <2> QED BY <1>2, <2>1, <2>2 DEF LocksAnswerOnce
<1>3. Disconnect => LocksAnswerOnce
  BY DEF Disconnect, Drop, LocksAnswerOnce
<1>4. CASE Hangup \/ HandleSync \/ OtherLocks \/ OtherUnlocks
  BY <1>3, <1>4 DEF Hangup, HandleSync, OtherLocks, OtherUnlocks, LocksAnswerOnce
<1>5. ASSUME NEW o \in Objs, Grant(o) PROVE LocksAnswerOnce
  <2>1. Arrived(Msg("lock", o)) /\ "lock" \in Requests
    BY <1>5 DEF Grant, Reading, Requests
  <2>2. connected /\ Sent("lock", o)
    BY <1>1, <2>1, ArrivedIsSent
  <2>3. res[o] = "none"
    BY <2>2 DEF LockInv, ObjectsAgree, RecordMatchesWire
  <2> QED BY <1>1, <1>5, <2>3 DEF Grant, LockTypes, LocksAnswerOnce
<1>6. ASSUME NEW o \in Objs, Deny(o) \/ Revoke(o) PROVE LocksAnswerOnce
  BY <1>1, <1>6 DEF Deny, Revoke, LockTypes, LocksAnswerOnce
<1>7. ASSUME NEW o \in Objs, HandleDestroy(o) \/ HandleUnlock(o) PROVE LocksAnswerOnce
  BY <1>1, <1>3, <1>7 DEF HandleDestroy, HandleUnlock, PostError, LockTypes, LocksAnswerOnce
<1> QED BY <1>2, <1>4, <1>5, <1>6, <1>7 DEF Compositor, Serve

LEMMA LockSideDue ==
    ASSUME DocumentedInv, DueInv, LockSide(LeavingApp) PROVE DueInv'
<1>1. LockTypes /\ LockInv
  BY DEF DocumentedInv, LockInv, WireInv, HandleInv
<1>2. UNCHANGED <<win, data, cur, painted, st, slot, role>> /\ (DocumentedApp \/ Dispatch \/ Compositor)
  BY DEF LockSide, LeavingApp, surfaceVars, windowVars
<1>3. LocksAnswerOnce
  BY <1>1, <1>2, LocksAnswer
<1>4. CASE Cut
  <2>1. ASSUME NEW i \in Ids PROVE Pending(i)'
    <3>1. role[i].state = "inert" => LockOf(i)' = LockOf(i) /\ LockOf(i) \in Objs
      BY <1>2, InertHasLock DEF LockOf
    <3> QED BY <1>2, <1>3, <1>4, <3>1 DEF DueInv, Pending, LocksAnswerOnce, Cut
  <2> QED BY <1>4, <2>1 DEF DueInv, FramesLast, Cut
<1>5. CASE connected' = connected /\ ServerMove /\ ClientMove
  <2>1. PICK d \in {0, 1} : ServerShift(d, SurfaceRequests)
    BY <1>1, <1>5, LocksShift
  <2>2. ServerShift(d, {"get_lock_surface", "commit"})
    BY <2>1 DEF ServerShift, SurfaceRequests
  <2>3. \A i, n : Awaited(Configure(i, n))' <=> Awaited(Configure(i, n))
    BY <1>1, <1>5, LocksShift, AwaitedShift
  <2> QED BY <1>2, <1>3, <1>5, <2>2, <2>3, DueKept
<1> QED BY <1>1, <1>2, <1>4, <1>5, AppMoves, DispatchMoves, CompositorMoves

LEMMA DueInitial == SurfaceInit => DueInv
<1> SUFFICES ASSUME SurfaceInit PROVE DueInv
  OBVIOUS
<1>1. \A i \in Ids : slot[i].state = "none" /\ role[i].state = "none" /\ role[i].shown = 0
  BY DEF SurfaceInit, NoSlot, NoRole
<1>2. \A w \in Windows : win[w] = "new"
  BY DEF SurfaceInit
<1> QED BY <1>1, <1>2 DEF DueInv, Pending, FramesLast

LEMMA DueStep ==
    ASSUME DocumentedInv, DueInv, [SurfaceNext]_allVars PROVE DueInv'
<1>1. CASE LockSide(LeavingApp)
  BY <1>1, LockSideDue
<1>2. CASE DocumentedSurfaceApp
  <2>1. SurfaceTypeOK
    BY DEF DocumentedInv, SurfaceInv
  <2>2. ASSUME NEW w \in Windows, Realize(w) \/ Hide(w) PROVE DueInv'
    <3>1. UNCHANGED <<toServer, toClient, serverVars, st, slot, role, painted>>
      BY <2>2 DEF Realize, Hide, vars, queueVars
    <3>2. \A v \in Windows : win'[v] = "mapped" => win[v] = "mapped" /\ cur'[v] = cur[v]
      BY <2>1, <2>2 DEF Realize, Hide, SurfaceTypeOK
    <3> QED BY <3>1, <3>2, StillDue
  <2> QED BY <1>2, <2>2, PreparedDue, ShowDue, UnmapDue, DestroyWindowDue DEF DocumentedSurfaceApp
<1>3. CASE DispatchSurface
  BY <1>3, HandleConfigureDue DEF DispatchSurface
<1>4. CASE ServeSurface
  BY <1>4, HandleGetDue, HandleDestroyDue, HandleAckDue, HandleCommitDue DEF ServeSurface
<1>5. CASE \E w \in Windows : Paint(w)
  BY <1>5, PaintDue
<1>6. CASE \E i \in Ids : Reconfigure(i)
  BY <1>6, ReconfigureDue
<1>7. CASE UNCHANGED allVars
  <2>1. UNCHANGED <<toServer, toClient, serverVars, win, cur, painted, st, slot, role>>
    BY <1>7 DEF allVars, surfaceVars, windowVars, vars, queueVars
  <2> QED BY <2>1, StillDue
<1> QED BY <1>1, <1>2, <1>3, <1>4, <1>5, <1>6, <1>7 DEF SurfaceNext, SurfaceEnv

(* A surface asked for, configured or drawn has a message on the wire.     *)
LEMMA OnTheWire ==
    ASSUME NEW i \in Ids,
           \/ \E o \in Objs, m \in Outputs : Asked(GetLockSurface(i, o, m))
           \/ \E n \in Serial : Asked(Commit(i, n))
           \/ Awaited(Configure(i, role[i].sent))
    PROVE  \E q \in {toServer, toClient} : \E k \in 1..Len(q) :
               q[k].op \in {"get_lock_surface", "configure", "commit"} /\ q[k].obj = i
<1>1. /\ \A o, m : GetLockSurface(i, o, m).obj = i
      /\ \A n : Commit(i, n).obj = i /\ Configure(i, n).obj = i
  BY DEF GetLockSurface, Commit, Configure
<1>2. ASSUME NEW k \in Nat, NEW x, At(k, x) \/ Due(k, x),
             x.op \in {"get_lock_surface", "configure", "commit"}, x.obj = i
      PROVE  \E q \in {toServer, toClient} : \E j \in 1..Len(q) :
                 q[j].op \in {"get_lock_surface", "configure", "commit"} /\ q[j].obj = i
  BY <1>2 DEF At, Due
<1> QED BY <1>1, <1>2, SurfaceOps DEF Asked, Awaited

(* What a window waits for is never lost: whatever the order of its shows, *)
(* hides, configures and frames, a window that is not displayed in the size*)
(* asked for last still has a message of its surface on the wire or a frame*)
(* to draw, and at its first showing no freeze keeps it from drawing       *)
(* (lock_surface_map, lock_surface_handle_configure).  That what is due    *)
(* comes is a matter of fairness, of which WindowIsShown and FirstShowing  *)
(* speak.                                                                  *)
THEOREM FramesAreDue == SurfaceSpec => []FrameIsDue
<1> DEFINE I == DocumentedInv /\ ShowingInv /\ DueInv
<1>1. SurfaceInit => I
  BY DocumentedInitial, ShowingInitial, DueInitial
<1>2. I /\ [SurfaceNext]_allVars => I'
  <2>1. DocumentedInv => SurfaceInv
    BY DEF DocumentedInv
  <2> QED BY <2>1, DocumentedStep, ShowingStep, DueStep
<1>3. ASSUME I PROVE FrameIsDue
  <2> SUFFICES ASSUME NEW w \in Windows, Displayable(w), ~Displayed(w)
               PROVE  \/ \E q \in {toServer, toClient} : \E k \in 1..Len(q) :
                          q[k].op \in {"get_lock_surface", "configure", "commit"} /\ q[k].obj = cur[w]
                      \/ painted[w] # st[data[w]].size /\ (freeze[w] # 0 => Shows(w) > 1)
    BY DEF FrameIsDue
  <2>1. SurfaceInv /\ SurfaceTypeOK /\ Shape
    BY <1>3 DEF DocumentedInv, SurfaceInv
  <2>2. win[w] = "mapped" /\ connected /\ st[data[w]].obj = cur[w] /\ res[st[data[w]].lock] = "locked"
    BY DEF Displayable
  <2>3. PICK i \in Ids : i = cur[w]
    BY <2>1, <2>2 DEF SurfaceInv, OnScreen
  <2>4. PICK s \in Structs : s = data[w]
    BY <2>1, <2>2 DEF Shape, Mapped, SurfaceTypeOK
  <2>5. i # NULL /\ st[s].obj = i
    BY <2>2, <2>3, <2>4, SurfaceConstants
  <2>6. slot[i].state = "live" /\ slot[i].data = s /\ LockOf(i) = st[s].lock
    BY <2>1, <2>5 DEF SurfaceInv, Owned, LockOf
  <2>7. Pending(i) /\ FramesLast
    BY <1>3 DEF DueInv
  <2>8. role[i].state \in {"none", "bound", "inert", "gone"}
    BY <2>1 DEF SurfaceTypeOK, RoleRecords
  <2>9. CASE role[i].state = "none"
    BY <2>2, <2>3, <2>6, <2>7, <2>9, OnTheWire DEF Pending
  <2>10. role[i].state \notin {"inert", "gone"}
    BY <2>2, <2>4, <2>6, <2>7 DEF Pending
  <2>11. CASE role[i].state = "bound" /\ Awaited(Configure(i, role[i].sent))
    BY <2>3, <2>11, OnTheWire
  <2>12. CASE role[i].state = "bound" /\ UpToDate(i)
    <3>1. st[s].first /\ st[s].size = role[i].sent /\ role[i].sent # 0
      BY <2>6, <2>7, <2>12 DEF UpToDate, Pending
    <3>2. CASE painted[w] # st[s].size
      <4>1. freeze[w] = Shows(w) - 1
        BY <1>3, <2>2, <2>4, <2>5, <3>1 DEF ShowingInv, Balanced, MappedWithStruct
      <4>2. Shows(w) \in Nat
        <5>1. {j \in Ids : slot[j].win = w} \subseteq Ids
          OBVIOUS
        <5>2. IsFiniteSet({j \in Ids : slot[j].win = w})
          BY <5>1, SurfaceConstants, FS_Subset
        <5> QED BY <5>2, FS_CardinalityType DEF Shows
      <4>3. slot[i].win = w
        <5>1. st[s].win = w
          BY <1>3, <2>1, <2>2, <2>4 DEF ShowingInv, MappedWithStruct, SurfaceInv, Attached
        <5> QED BY <1>3, <2>6, <5>1 DEF ShowingInv, OwnWindow
      <4>4. Shows(w) # 0
        <5>1. i \in {j \in Ids : slot[j].win = w}
          BY <4>3
        <5>2. IsFiniteSet({j \in Ids : slot[j].win = w})
          BY SurfaceConstants, FS_Subset
        <5> QED BY <5>1, <5>2, FS_EmptySet DEF Shows
      <4>5. freeze[w] # 0 => Shows(w) > 1
        BY <4>1, <4>2, <4>4
      <4> QED BY <2>4, <3>2, <4>5
    <3>3. CASE painted[w] = st[s].size
      <4>1. LastFrame(i, role[i].sent)
        BY <2>2, <2>3, <2>6, <2>7, <3>1, <3>3 DEF FramesLast
      <4>2. role[i].shown # role[i].sent
        BY <2>3, <3>1 DEF Displayed
      <4>3. role[i].sent \in Serial
        BY <2>1 DEF SurfaceTypeOK, RoleRecords
      <4>4. Asked(Commit(i, role[i].sent))
        BY <4>1, <4>2 DEF LastFrame, Asked
      <4> QED BY <2>3, <4>3, <4>4, OnTheWire
    <3> QED BY <3>2, <3>3
  <2> QED BY <2>7, <2>6, <2>2, <2>8, <2>9, <2>10, <2>11, <2>12 DEF Pending
<1> HIDE DEF I
<1> QED BY <1>1, <1>2, <1>3, PTL DEF SurfaceSpec
=============================================================================

---------------------------- MODULE LockSurface ----------------------------
(***************************************************************************)
(* The lock surfaces of a session lock: GTK windows that the library       *)
(* turns into ext_session_lock_surface_v1 surfaces                         *)
(* (src/src/lock-surface.c, src/src/custom-shell-surface.c), composed with *)
(* the locks of SessionLock over the same connection.                      *)
(*                                                                         *)
(* A window has a LockSurface struct attached to it, whose `realize' and   *)
(* `map' handlers run when the window is shown.  Every showing gives the   *)
(* window a new wl_surface (GDK destroys the old one when it hides), so    *)
(* the number of ids bounds the number of showings.  A configure asks for  *)
(* a size; its serial stands for the size as well.                         *)
(***************************************************************************)
EXTENDS SessionLock

CONSTANTS
    Windows,       \* GtkWindows of the application
    Outputs,       \* monitors
    Structs,       \* LockSurface allocations, numbered
    Ids,           \* wl_surfaces with their lock surface object, numbered
    MaxShows,      \* how often a window may be shown
    MaxConfigures  \* how many configures a lock surface may get

ASSUME SurfaceConstants ==
    /\ Structs \subseteq Nat /\ Ids \subseteq Nat /\ NULL \notin Structs \cup Ids \cup Outputs \cup Windows
    /\ MaxShows \in Nat \ {0} /\ MaxConfigures \in Nat \ {0}
    /\ IsFiniteSet(Ids)

VARIABLES
    win,     \* per window: its GTK state
    data,    \* per window: the LockSurface attached under custom_shell_surface_key
    freeze,  \* per window: the update freeze count of its GdkWindow
    cur,     \* per window: its present wl_surface
    painted, \* per window: the size of its last frame since it was shown
    marked,  \* per window: its GdkWindow uses a custom surface, GDK gives it no role
    st,      \* per struct: the LockSurface
    slot,    \* per id: the wl_surface and its lock surface proxy, as the client has them
    role     \* per id: the lock surface, as the compositor has it

windowVars  == <<win, data, freeze, cur, painted, marked>>
surfaceVars == <<windowVars, st, slot, role>>
allVars     == <<vars, surfaceVars>>

Serial == 0..MaxConfigures

(* mutant: g_new instead of g_new0, lock_surface not set *)
NoStructUnset == [state |-> "none", win |-> NULL, mon |-> NULL, lock |-> NULL, obj |-> 0,
                  first |-> FALSE, size |-> 0]

NoStruct == [state |-> "none", win |-> NULL, mon |-> NULL, lock |-> NULL, obj |-> NULL,
             first |-> FALSE, size |-> 0]
NoSlot == [state |-> "none", win |-> NULL, data |-> NULL, xdg |-> FALSE, buf |-> FALSE]
NoRole == [state |-> "none", lock |-> NULL, out |-> NULL, sent |-> 0, acked |-> 0, shown |-> 0]

StructRecords == [state : {"none", "live", "freed"}, win : Windows \cup {NULL},
                  mon : Outputs \cup {NULL}, lock : Objs \cup {NULL},
                  obj : Ids \cup {NULL}, first : BOOLEAN, size : Serial]
SlotRecords == [state : {"none", "plain", "live", "destroyed"}, win : Windows \cup {NULL},
                data : Structs \cup {NULL}, xdg : BOOLEAN, buf : BOOLEAN]
RoleRecords == [state : {"none", "bound", "inert", "gone"}, lock : Objs \cup {NULL},
                out : Outputs \cup {NULL}, sent : Serial, acked : Serial, shown : Serial]

SurfaceTypeOK ==
    /\ win \in [Windows -> {"new", "realized", "mapped", "destroyed"}]
    /\ data \in [Windows -> Structs \cup {NULL}]
    /\ freeze \in [Windows -> Nat]
    /\ cur \in [Windows -> Ids \cup {NULL}]
    /\ painted \in [Windows -> Serial]
    /\ marked \in [Windows -> BOOLEAN]
    /\ st \in [Structs -> StructRecords]
    /\ slot \in [Ids -> SlotRecords]
    /\ role \in [Ids -> RoleRecords]

SurfaceInit ==
    /\ Init
    /\ win = [w \in Windows |-> "new"]
    /\ data = [w \in Windows |-> NULL]
    /\ freeze = [w \in Windows |-> 0]
    /\ cur = [w \in Windows |-> NULL]
    /\ painted = [w \in Windows |-> 0]
    /\ marked = [w \in Windows |-> FALSE]
    /\ st = [s \in Structs |-> NoStruct]
    /\ slot = [i \in Ids |-> NoSlot]
    /\ role = [i \in Ids |-> NoRole]

-----------------------------------------------------------------------------
(* Requests and events of lock surfaces travel with those of the locks.    *)

GetLockSurface(i, o, m) == [op |-> "get_lock_surface", obj |-> i, lock |-> o, out |-> m]
DestroySurface(i)       == [op |-> "destroy_surface", obj |-> i]
AckConfigure(i, n)      == [op |-> "ack_configure", obj |-> i, serial |-> n]
Commit(i, n)            == [op |-> "commit", obj |-> i, size |-> n]
Configure(i, n)         == [op |-> "configure", obj |-> i, serial |-> n]

(* Inside a sync the process goes on waiting after a handler's request.    *)
Queue(m) ==
    /\ toServer' = Append(toServer, m)
    /\ client' = IF client = "synced" THEN "running" ELSE client

Quiet == toServer' = toServer /\ client' = client

Fresh(i) == slot[i].state = "none" /\ \A j \in Ids : j < i => slot[j].state # "none"
Allocatable(s) == st[s].state = "none" /\ \A t \in Structs : t < s => st[t].state # "none"
Shows(w) == Cardinality({i \in Ids : slot[i].win = w})

-----------------------------------------------------------------------------
(* The library.                                                            *)

(* lock_surface_unmap() on the struct s; `sent' says whether a request is  *)
(* due and slots what becomes of the proxies.                              *)
Unmapped(s) == IF st[s].obj = NULL THEN slot ELSE [slot EXCEPT ![st[s].obj].state = "destroyed"]
SendUnmap(s) == IF st[s].obj = NULL THEN Quiet ELSE Queue(DestroySurface(st[s].obj))

(* mutant: a window that is realized already is left as it is *)
MarkLater(w) == UNCHANGED marked

(* The end of custom_shell_surface_init(): the `realize' handler comes too *)
(* late for a window that is realized already.                             *)
Mark(w) == marked' = [marked EXCEPT ![w] = @ \/ win[w] = "realized"]

(* lock_surface_new() *)
NewStruct(w, m, o) == [NoStruct EXCEPT !.state = "live", !.win = w, !.mon = m, !.lock = o]

(* gtk_session_lock_lock_new_surface(): without a lock object it returns   *)
(* at once (lock_surface_new).  With a mapped window, init returns early   *)
(* and the struct is nobody's; otherwise it replaces the one the window    *)
(* has, whose finalizer unmaps it and frees it while its handlers stay     *)
(* connected to the window.                                                *)
NewSurface(l, w, m) ==
    /\ MayCall /\ gobj[l] = "live" /\ lockObj[l] # NULL /\ win[w] # "destroyed"
    /\ \E s \in Structs :
        LET old == data[w]
            new == NewStruct(w, m, lockObj[l])
        IN  /\ Allocatable(s)
            /\ IF win[w] = "mapped"
               THEN /\ st' = [st EXCEPT ![s] = new]
                    /\ UNCHANGED <<data, marked, slot>> /\ Quiet
               ELSE /\ data' = [data EXCEPT ![w] = s]
                    /\ Mark(w)
                    /\ IF old = NULL
                       THEN /\ st' = [st EXCEPT ![s] = new]
                            /\ UNCHANGED slot /\ Quiet
                       ELSE /\ st' = [st EXCEPT ![s] = new, ![old].state = "freed", ![old].obj = NULL]
                            /\ slot' = Unmapped(old) /\ SendUnmap(old)
    /\ UNCHANGED <<appVars, proxyVars, toClient, serverVars, win, freeze, cur, painted, role>>

(* The `realize' handler marks the window; GDK gives a window it maps      *)
(* without the mark the role of an xdg_toplevel.  b says whether a buffer  *)
(* is attached to the new wl_surface.                                      *)
MarkedOnceRealized(w) == marked[w] \/ (win[w] = "new" /\ data[w] # NULL)
Surface(w, state, s, b) ==
    [state |-> state, win |-> w, data |-> s, xdg |-> ~MarkedOnceRealized(w), buf |-> b]

(* mutant: no null buffer is attached *)
StillAttached(b) == b

(* wl_surface_attach(wl_surface, NULL, 0, 0): whether there still is a     *)
(* buffer after it, given whether GDK had attached one.                    *)
Detached(b) == FALSE

(* mutant: freeze_updates is forgotten *)
MapUnfrozen(w, s, i, b) ==
    IF st[s].obj # NULL
    THEN slot' = [slot EXCEPT ![i] = Surface(w, "plain", NULL, b)]
         /\ UNCHANGED <<freeze, st>> /\ Quiet
    ELSE /\ slot' = [slot EXCEPT ![i] = Surface(w, "live", s, b)]
         /\ st' = [st EXCEPT ![s].obj = i]
         /\ Queue(GetLockSurface(i, st[s].lock, st[s].mon))
         /\ UNCHANGED freeze

(* lock_surface_map(): nothing happens while a lock surface exists already;*)
(* otherwise drawing is suspended until the first configure and the lock   *)
(* surface is requested with the session_lock copied at new_surface.       *)
Map(w, s, i, b) ==
    IF st[s].obj # NULL
    THEN slot' = [slot EXCEPT ![i] = Surface(w, "plain", NULL, b)]
         /\ UNCHANGED <<freeze, st>> /\ Quiet
    ELSE /\ freeze' = [freeze EXCEPT ![w] = @ + 1]
         /\ slot' = [slot EXCEPT ![i] = Surface(w, "live", s, b)]
         /\ st' = [st EXCEPT ![s].obj = i]
         /\ Queue(GetLockSurface(i, st[s].lock, st[s].mon))

(* gtk_widget_realize(), with or without on_window_realize                 *)
Realize(w) ==
    /\ MayCall /\ win[w] = "new"
    /\ win' = [win EXCEPT ![w] = "realized"]
    /\ marked' = [marked EXCEPT ![w] = MarkedOnceRealized(w)]
    /\ UNCHANGED <<vars, data, freeze, cur, painted, st, slot, role>>

(* gtk_widget_show(): the window is realized if it is not, GDK makes a     *)
(* wl_surface and may attach a buffer to it at once, and the `map' handlers*)
(* run, if any are connected.                                              *)
StaleHandlers(w) == \E s \in Structs : st[s].win = w /\ st[s].state = "freed"
Show(w) ==
    /\ MayCall /\ win[w] \in {"new", "realized"}
    /\ Shows(w) < MaxShows
    /\ \E i \in Ids, b \in BOOLEAN :
        /\ Fresh(i)
        /\ cur' = [cur EXCEPT ![w] = i]
        /\ IF data[w] = NULL
           THEN slot' = [slot EXCEPT ![i] = Surface(w, "plain", NULL, b)]
                /\ UNCHANGED <<freeze, st>> /\ Quiet
           ELSE Map(w, data[w], i, Detached(b))
    /\ win' = [win EXCEPT ![w] = "mapped"]
    /\ painted' = [painted EXCEPT ![w] = 0]
    /\ marked' = [marked EXCEPT ![w] = MarkedOnceRealized(w)]
    /\ UNCHANGED <<appVars, proxyVars, toClient, serverVars, data, role>>

(* A handler of a freed struct, or a request on a freed lock proxy, may    *)
(* also end the process; Show is what happens when it goes unnoticed.      *)
ShowCrashes(w) ==
    /\ MayCall /\ win[w] \in {"new", "realized"} /\ data[w] # NULL
    /\ Shows(w) < MaxShows
    /\ StaleHandlers(w) \/ proxy[st[data[w]].lock] # "live"
    /\ client' = "crashed"
    /\ UNCHANGED <<appVars, proxyVars, queueVars, serverVars, surfaceVars>>

(* mutant: the lock surface is destroyed, the pointer to it stays *)
UnmapKeepingPointer(w) ==
    /\ MayCall /\ win[w] # "destroyed" /\ data[w] # NULL
    /\ slot' = Unmapped(data[w]) /\ SendUnmap(data[w])
    /\ UNCHANGED <<appVars, proxyVars, toClient, serverVars, windowVars, st, role>>

(* mutant: the struct is freed with its lock surface *)
UnmapAndFree(w) ==
    /\ MayCall /\ win[w] # "destroyed" /\ data[w] # NULL
    /\ slot' = Unmapped(data[w]) /\ SendUnmap(data[w])
    /\ st' = [st EXCEPT ![data[w]].state = "freed", ![data[w]].obj = NULL]
    /\ UNCHANGED <<appVars, proxyVars, toClient, serverVars, windowVars, role>>

(* gtk_session_lock_unmap_lock_window() *)
Unmap(w) ==
    /\ MayCall /\ win[w] # "destroyed" /\ data[w] # NULL
    /\ slot' = Unmapped(data[w]) /\ SendUnmap(data[w])
    /\ st' = [st EXCEPT ![data[w]].obj = NULL]
    /\ UNCHANGED <<appVars, proxyVars, toClient, serverVars, windowVars, role>>

(* gtk_widget_hide(): GDK destroys the wl_surface; the library is not      *)
(* told, and the freeze count of the GdkWindow stays.                      *)
Hide(w) ==
    /\ MayCall /\ win[w] = "mapped"
    /\ win' = [win EXCEPT ![w] = "realized"]
    /\ cur' = [cur EXCEPT ![w] = NULL]
    /\ UNCHANGED <<vars, data, freeze, painted, marked, st, slot, role>>

(* mutant: finalize frees the struct without unmapping it *)
DestroyWindowWithoutUnmap(w) ==
    /\ MayCall /\ win[w] # "destroyed"
    /\ win' = [win EXCEPT ![w] = "destroyed"]
    /\ cur' = [cur EXCEPT ![w] = NULL]
    /\ data' = [data EXCEPT ![w] = NULL]
    /\ st' = IF data[w] = NULL THEN st ELSE [st EXCEPT ![data[w]].state = "freed"]
    /\ UNCHANGED <<vars, freeze, painted, marked, slot, role>>

(* gtk_widget_destroy(), with the window's data: on_window_destroy         *)
(* finalizes (that is, unmaps) and frees the struct.                       *)
DestroyWindow(w) ==
    /\ MayCall /\ win[w] # "destroyed"
    /\ win' = [win EXCEPT ![w] = "destroyed"]
    /\ cur' = [cur EXCEPT ![w] = NULL]
    /\ data' = [data EXCEPT ![w] = NULL]
    /\ IF data[w] = NULL
       THEN UNCHANGED <<slot, st>> /\ Quiet
       ELSE /\ slot' = Unmapped(data[w]) /\ SendUnmap(data[w])
            /\ st' = [st EXCEPT ![data[w]].state = "freed", ![data[w]].obj = NULL]
    /\ UNCHANGED <<appVars, proxyVars, toClient, serverVars, freeze, painted, marked, role>>

(* mutant: the new size does not reach the window's geometry hints *)
HandleConfigureOldSize(i, n) ==
    LET s == slot[i].data
        w == st[s].win
    IN  /\ Alive /\ toClient # <<>> /\ Head(toClient) = Configure(i, n)
        /\ toClient' = Tail(toClient)
        /\ IF slot[i].state = "live" /\ st[s].state = "live"
           THEN /\ Queue(AckConfigure(i, n))
                /\ st' = [st EXCEPT ![s].first = TRUE, ![s].size = IF @ = 0 THEN n ELSE @]
                /\ freeze' = IF st[s].first \/ freeze[w] = 0 THEN freeze
                             ELSE [freeze EXCEPT ![w] = @ - 1]
           ELSE UNCHANGED <<st, freeze>> /\ Quiet
        /\ UNCHANGED <<appVars, proxyVars, serverVars, win, data, cur, painted, marked, slot, role>>

(* mutant: the window is never thawed *)
HandleConfigureFrozen(i, n) ==
    LET s == slot[i].data
    IN  /\ Alive /\ toClient # <<>> /\ Head(toClient) = Configure(i, n)
        /\ toClient' = Tail(toClient)
        /\ IF slot[i].state = "live" /\ st[s].state = "live"
           THEN /\ Queue(AckConfigure(i, n))
                /\ st' = [st EXCEPT ![s].size = n, ![s].first = TRUE]
           ELSE UNCHANGED st /\ Quiet
        /\ UNCHANGED <<appVars, proxyVars, serverVars, windowVars, slot, role>>

(* lock_surface_handle_configure(): the size goes to the window's geometry *)
(* hints, the serial is acked, and the first configure of the struct thaws *)
(* the window.  Events of a destroyed lock surface are dropped.            *)
HandleConfigure(i, n) ==
    LET s == slot[i].data
        w == st[s].win
    IN  /\ Alive /\ toClient # <<>> /\ Head(toClient) = Configure(i, n)
        /\ toClient' = Tail(toClient)
        /\ IF slot[i].state = "live" /\ st[s].state = "live"
           THEN /\ Queue(AckConfigure(i, n))
                /\ st' = [st EXCEPT ![s].size = n, ![s].first = TRUE]
                /\ freeze' = IF st[s].first \/ freeze[w] = 0 THEN freeze
                             ELSE [freeze EXCEPT ![w] = @ - 1]
           ELSE UNCHANGED <<st, freeze>> /\ Quiet
        /\ UNCHANGED <<appVars, proxyVars, serverVars, win, data, cur, painted, marked, slot, role>>

(* The frame clock draws a mapped window that is not frozen, in the size   *)
(* its hints ask for, when that is not what it drew last; GDK attaches the *)
(* buffer and commits.                                                     *)
Paint(w) ==
    /\ MayCall /\ win[w] = "mapped" /\ freeze[w] = 0 /\ data[w] # NULL
    /\ \/ painted[w] # st[data[w]].size
       \/ st[data[w]].size = 0 /\ slot[cur[w]].state = "live"
    /\ painted' = [painted EXCEPT ![w] = st[data[w]].size]
    /\ Queue(Commit(cur[w], st[data[w]].size))
    /\ UNCHANGED <<appVars, proxyVars, toClient, serverVars, win, data, freeze, cur, marked, st, slot, role>>

-----------------------------------------------------------------------------
(* The compositor.                                                         *)

Answer(i, r, events) ==
    /\ toServer' = Tail(toServer)
    /\ role' = [role EXCEPT ![i] = r]
    /\ toClient' = toClient \o events
    /\ UNCHANGED <<appVars, proxyVars, client, serverVars, windowVars, st, slot>>

Reject(err) == PostError(err) /\ UNCHANGED surfaceVars

(* A surface of a lock that holds the session gets its first configure at  *)
(* once; one of a refused or revoked lock stays inert.  An output may have *)
(* one lock surface: those of an earlier lock, which the compositor has no *)
(* use for any more, do not count.                                         *)
Covered(o, m) == \E j \in Ids : role[j].state = "bound" /\ role[j].lock = o /\ role[j].out = m
NewRole(x, o, m, n) == [NoRole EXCEPT !.state = x, !.lock = o, !.out = m, !.sent = n]

(* A wl_surface that is to get the role has none yet, and no buffer.       *)
Blank(i) == ~slot[i].xdg /\ ~slot[i].buf

HandleGetLockSurface(i, o, m) ==
    /\ Arrived(GetLockSurface(i, o, m))
    /\ CASE slot[i].xdg -> Reject("role")
         [] ~slot[i].xdg /\ slot[i].buf -> Reject("already_constructed")
         [] Blank(i) /\ res[o] = "locked" /\ Covered(o, m) -> Reject("duplicate_output")
         [] Blank(i) /\ res[o] = "locked" /\ ~Covered(o, m) ->
                Answer(i, NewRole("bound", o, m, 1), <<Configure(i, 1)>>)
         [] Blank(i) /\ res[o] \in {"denied", "revoked"} ->
                Answer(i, NewRole("inert", o, m, 0), <<>>)
         [] OTHER -> Reject("invalid_object")

HandleDestroySurface(i) ==
    /\ Arrived(DestroySurface(i))
    /\ Answer(i, [role[i] EXCEPT !.state = "gone"], <<>>)

HandleAck(i, n) ==
    /\ Arrived(AckConfigure(i, n))
    /\ IF n \in role[i].acked + 1 .. role[i].sent
       THEN Answer(i, [role[i] EXCEPT !.acked = n], <<>>)
       ELSE Reject("invalid_serial")

(* A commit on a bound surface must follow an ack and have its size.  It   *)
(* is always that of a frame GDK has just attached (Paint), so there is no *)
(* null_buffer.                                                            *)
HandleCommit(i, n) ==
    /\ Arrived(Commit(i, n))
    /\ CASE role[i].state # "bound" -> Answer(i, role[i], <<>>)
         [] role[i].state = "bound" /\ role[i].acked = 0 -> Reject("commit_before_first_ack")
         [] role[i].state = "bound" /\ role[i].acked # 0 /\ n = role[i].acked ->
                Answer(i, [role[i] EXCEPT !.shown = n], <<>>)
         [] OTHER -> Reject("dimensions_mismatch")

(* The output changes its geometry. *)
Reconfigure(i) ==
    /\ connected /\ role[i].state = "bound" /\ role[i].sent < MaxConfigures
    /\ role' = [role EXCEPT ![i].sent = @ + 1]
    /\ toClient' = Append(toClient, Configure(i, role[i].sent + 1))
    /\ UNCHANGED <<appVars, proxyVars, client, toServer, serverVars, windowVars, st, slot>>

-----------------------------------------------------------------------------
DispatchSurface == \E i \in Ids, n \in Serial : HandleConfigure(i, n)

ServeSurface ==
    \E i \in Ids :
        \/ \E o \in Objs, m \in Outputs : HandleGetLockSurface(i, o, m)
        \/ HandleDestroySurface(i)
        \/ \E n \in Serial : HandleAck(i, n) \/ HandleCommit(i, n)

(* At most one surface per lock and monitor, as the header demands.        *)
OncePerMonitor(l, m) ==
    ~ \E s \in Structs : st[s].state # "none" /\ st[s].lock = lockObj[l] /\ st[s].mon = m

AnySurfaceApp ==
    \/ \E l \in Locks, w \in Windows, m \in Outputs : NewSurface(l, w, m)
    \/ \E w \in Windows : \/ Realize(w) \/ Show(w) \/ ShowCrashes(w) \/ Unmap(w)
                          \/ Hide(w) \/ DestroyWindow(w)

(* The documented order: a window of its own for every monitor, prepared   *)
(* before it is realized, shown while the lock is owned, and unmapped      *)
(* before it is hidden, so that its wl_surface has no lock surface then.   *)
DocumentedSurfaceApp ==
    \/ \E l \in Locks, w \in Windows, m \in Outputs :
        data[w] = NULL /\ win[w] = "new" /\ OncePerMonitor(l, m) /\ NewSurface(l, w, m)
    \/ \E w \in Windows :
        \/ data[w] # NULL /\ Realize(w)
        \/ data[w] # NULL /\ proxy[st[data[w]].lock] = "live" /\ Show(w)
        \/ win[w] = "mapped" /\ Unmap(w)
        \/ win[w] = "mapped" /\ data[w] # NULL /\ slot[cur[w]].state # "live" /\ Hide(w)
        \/ data[w] # NULL /\ DestroyWindow(w)

(* The same without two precautions that no document asks for: a window is *)
(* also shown after its lock was given up, or prepared again for another   *)
(* monitor.                                                                *)
CarelessSurfaceApp ==
    \/ DocumentedSurfaceApp
    \/ \E l \in Locks, w \in Windows, m \in Outputs : win[w] # "mapped" /\ OncePerMonitor(l, m) /\ NewSurface(l, w, m)
    \/ \E w \in Windows : data[w] # NULL /\ Show(w)

LockSide(App) ==
    /\ App \/ Dispatch \/ Compositor
    /\ holder' = Other => holder = Other \/ ~connected
    /\ UNCHANGED surfaceVars

(* The application syncs when it is about to end.  A crash is the end of   *)
(* its windows too; it, and other clients that lock while this one is      *)
(* connected, are left to SessionLock.                                     *)
LeavingApp ==
    /\ DocumentedApp /\ client' # "crashed"
    /\ client' = "syncing" => \A l \in Locks : lockObj[l] = NULL

SurfaceEnv == \/ DispatchSurface \/ ServeSurface
              \/ \E w \in Windows : Paint(w)
              \/ \E i \in Ids : Reconfigure(i)

SurfaceNext    == LockSide(LeavingApp) \/ DocumentedSurfaceApp \/ SurfaceEnv
CarelessSurfaceNext == LockSide(LeavingApp) \/ CarelessSurfaceApp \/ SurfaceEnv
AnySurfaceNext == LockSide(AnyApp) \/ AnySurfaceApp \/ SurfaceEnv

SurfaceFairness ==
    /\ WF_allVars(Dispatch /\ UNCHANGED surfaceVars) /\ WF_allVars(Serve /\ UNCHANGED surfaceVars)
    /\ WF_allVars(DispatchSurface) /\ WF_allVars(ServeSurface)
    /\ \A w \in Windows : WF_allVars(Paint(w))

SurfaceSpec     == SurfaceInit /\ [][SurfaceNext]_allVars
CarelessSurfaceSpec == SurfaceInit /\ [][CarelessSurfaceNext]_allVars
AnySurfaceSpec  == SurfaceInit /\ [][AnySurfaceNext]_allVars
FairSurfaceSpec == SurfaceSpec /\ SurfaceFairness

-----------------------------------------------------------------------------
(* Properties.                                                             *)

(* Neither the lock nor the surface protocol is violated while windows are *)
(* shown, resized, hidden, shown again and destroyed: no role for a surface*)
(* that has a buffer or a role, no second surface on an output, no frame   *)
(* before the first ack, none of another size than the one acked, no stale *)
(* serial.                                                                 *)
NoSurfaceProtocolError == perr = NULL

(* A configure never reaches a LockSurface that has been freed.            *)
SurfaceListenerIsAlive ==
    \A i \in Ids : slot[i].state = "live" =>
        LET s == slot[i].data IN st[s].state = "live" /\ st[s].obj = i

(* No wl_surface of a lock window has the role GDK gives to a normal       *)
(* window, nor the buffer GDK may attach to a new one, so that             *)
(* get_lock_surface never meets a surface with either: not when a window   *)
(* was shown before it was prepared, was realized before, or is prepared   *)
(* while it is mapped.                                                     *)
SurfaceIsBlank ==
    /\ \A i \in Ids : slot[i].state \in {"live", "destroyed"} => Blank(i)
    /\ \A w \in Windows : win[w] = "mapped" /\ data[w] # NULL => Blank(cur[w])

(* The lock surface a shown window's struct points to is that of the       *)
(* window's present wl_surface, never one left from an earlier showing:    *)
(* with such a pointer lock_surface_map() returns at once and the new      *)
(* wl_surface stays without a role.                                        *)
ShownSurfaceIsCurrent ==
    \A w \in Windows : win[w] = "mapped" /\ data[w] # NULL =>
        st[data[w]].obj \in {NULL, cur[w]}

(* Each showing freezes a lock window, the first configure it ever gets    *)
(* thaws it once.  A window shown for the first time is therefore frozen   *)
(* exactly until its first configure; what later showings add is never     *)
(* taken back.                                                             *)
FrozenUntilConfigured ==
    \A w \in Windows :
        win[w] = "mapped" /\ st[data[w]].obj # NULL =>
            freeze[w] = Shows(w) - (IF st[data[w]].first THEN 1 ELSE 0)

(* The header on gtk_session_lock_lock_new_surface: "If the session is     *)
(* locked successfully, the specified window will be shown on the given    *)
(* monitor", stretched to all of it: a mapped window of a lock that holds  *)
(* the session is eventually displayed in the last size asked for.         *)
Displayable(w) ==
    /\ win[w] = "mapped" /\ connected /\ Alive
    /\ st[data[w]].obj = cur[w] /\ res[st[data[w]].lock] = "locked"
    /\ client # "syncing"

Displayed(w) == LET r == role[cur[w]] IN r.shown = r.sent /\ r.shown # 0

WindowIsShown ==
    \A w \in Windows : Displayable(w) ~> ~Displayable(w) \/ Displayed(w)

(* The same of a window's first showing.                                   *)
FirstShowing ==
    \A w \in Windows :
        Displayable(w) /\ Shows(w) = 1 ~> ~Displayable(w) \/ Displayed(w)

(* What the window waits for has not got lost, at any showing: until it is *)
(* displayed its surface is being asked for, a configure or a frame is on  *)
(* the wire, or a frame is to be drawn.  Only a freeze can keep it from    *)
(* drawing once its size is known, and that an earlier showing left it.    *)
FrameIsDue ==
    \A w \in Windows : Displayable(w) /\ ~Displayed(w) =>
        \/ \E q \in {toServer, toClient} : \E k \in 1..Len(q) :
            q[k].op \in {"get_lock_surface", "configure", "commit"} /\ q[k].obj = cur[w]
        \/ painted[w] # st[data[w]].size /\ (freeze[w] # 0 => Shows(w) > 1)

(* g_return_if_fail (session_lock) in lock_surface_map(): a window is not  *)
(* mapped without a lock to get its surface from.                          *)
MapsOnLiveLock ==
    [][\A w \in Windows, i \in Ids :
        cur'[w] = i /\ cur[w] = NULL /\ slot'[i].state = "live"
            => proxy[st[data[w]].lock] = "live"]_allVars

(* custom-shell-surface.h: "Destruction is taken care of automatically     *)
(* when the associated window is destroyed": a struct is freed exactly     *)
(* when its window is destroyed, neither before (the window's handlers     *)
(* point to it) nor later.                                                 *)
LivesAsLongAsWindow ==
    \A s \in Structs : st[s].state # "none" =>
        (st[s].state = "freed" <=> win[st[s].win] = "destroyed")
=============================================================================

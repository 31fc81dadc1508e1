------------------------------ MODULE Registry ------------------------------
(***************************************************************************)
(* How the library finds the compositor's lock manager                     *)
(* (src/src/gtk-wayland.c and its callers in api.c and session-lock.c): a  *)
(* registry and a blocking round trip on the first call, a bind for every  *)
(* manager that is announced, then or later.                               *)
(*                                                                         *)
(* The round trip dispatches every event of the connection, also those of  *)
(* GDK, whose handlers may run application code (`monitor-added'); has_    *)
(* initialized is still FALSE then, so a call made there starts a second   *)
(* registry and a nested round trip.  Displays other than Wayland's never  *)
(* come here: is_supported() is FALSE for them at once.                    *)
(***************************************************************************)
EXTENDS Naturals, Sequences

CONSTANTS
    ClientVersion,  \* version of ext_session_lock_manager_v1_interface
    ServerVersions, \* versions a compositor may announce
    NULL,
    MaxInits,       \* how many registries the process may make
    MaxGlobals,     \* how often a manager may be announced
    MaxOutputs      \* how many monitors may be plugged in

ASSUME RegistryConstants ==
    /\ ClientVersion \in Nat \ {0} /\ ServerVersions \subseteq Nat \ {0}
    /\ MaxInits \in Nat /\ MaxGlobals \in Nat \ {0} /\ MaxOutputs \in Nat
    /\ NULL \notin [name : Nat, version : Nat]

VARIABLES
    has_initialized,
    lock_manager_global, \* NULL, or the global bound last and the version bound
    made,       \* registries made so far; the last one is wl_registry_global
    waiting,    \* round trips in progress, the innermost last
    fired,      \* round trips whose callback has run
    toServer, toClient,
    known,      \* registries the compositor has read of
    advertised, \* NULL, or the manager it offers now
    names,      \* global names it has used for managers
    outputs     \* monitors plugged in

clientVars == <<has_initialized, lock_manager_global, made, waiting, fired>>
serverVars == <<known, advertised, names, outputs>>
vars == <<clientVars, toServer, toClient, serverVars>>

GetRegistry(r)     == [op |-> "get_registry", reg |-> r]
SyncRequest(r)     == [op |-> "sync", reg |-> r]
Bind(r, n)         == [op |-> "bind", reg |-> r, name |-> n]
Global(r, g)       == [op |-> "global", reg |-> r, global |-> g]
GlobalRemove(r, n) == [op |-> "global_remove", reg |-> r, name |-> n]
Done(r)            == [op |-> "done", reg |-> r]
Output             == [op |-> "output"]

Globals == [name : 1..MaxGlobals, version : ServerVersions]

(* Binding never asks for more than the client's code understands.         *)
RegistryTypeOK ==
    /\ has_initialized \in BOOLEAN
    /\ lock_manager_global \in [name : 1..MaxGlobals, version : 1..ClientVersion] \cup {NULL}
    /\ made \in 0..MaxInits /\ known \in 0..made
    /\ waiting \in Seq(1..made) /\ fired \subseteq 1..made
    /\ advertised \in Globals \cup {NULL}
    /\ names \in 0..MaxGlobals /\ outputs \in 0..MaxOutputs

Init ==
    /\ has_initialized = FALSE /\ lock_manager_global = NULL
    /\ made = 0 /\ waiting = <<>> /\ fired = {}
    /\ toServer = <<>> /\ toClient = <<>>
    /\ known = 0 /\ outputs = 0
    /\ \/ advertised = NULL /\ names = 0
       \/ names = 1 /\ \E v \in ServerVersions : advertised = [name |-> 1, version |-> v]

-----------------------------------------------------------------------------
(* The library.                                                            *)

(* mutant: the round trip is entered without its request *)
StartInitUnasked ==
    /\ ~has_initialized /\ made < MaxInits
    /\ made' = made + 1
    /\ waiting' = Append(waiting, made + 1)
    /\ toServer' = Append(toServer, GetRegistry(made + 1))

(* gtk_wayland_init_if_needed() up to the blocking round trip.             *)
StartInit ==
    /\ ~has_initialized /\ made < MaxInits
    /\ made' = made + 1
    /\ waiting' = Append(waiting, made + 1)
    /\ toServer' = toServer \o <<GetRegistry(made + 1), SyncRequest(made + 1)>>

(* is_supported(), get_protocol_version() or prepare_lock() from the main  *)
(* loop; once initialized they only read.                                  *)
Call ==
    /\ waiting = <<>> /\ StartInit
    /\ UNCHANGED <<has_initialized, lock_manager_global, fired, toClient, serverVars>>

(* ... and after it.  Only the innermost round trip can return.            *)
Return ==
    /\ waiting # <<>> /\ waiting[Len(waiting)] \in fired
    /\ waiting' = SubSeq(waiting, 1, Len(waiting) - 1)
    /\ has_initialized' = TRUE
    /\ UNCHANGED <<lock_manager_global, made, fired, toServer, toClient, serverVars>>

Receive(m) == toClient # <<>> /\ Head(toClient) = m /\ toClient' = Tail(toClient)

(* mutant: a manager that is bound already is kept *)
HandleGlobalOnce(r, g) ==
    /\ Receive(Global(r, g))
    /\ IF lock_manager_global = NULL
       THEN /\ lock_manager_global' = [g EXCEPT !.version = IF @ < ClientVersion THEN @ ELSE ClientVersion]
            /\ toServer' = Append(toServer, Bind(r, g.name))
       ELSE UNCHANGED <<lock_manager_global, toServer>>
    /\ UNCHANGED <<has_initialized, made, waiting, fired, serverVars>>

(* mutant: the compositor's version is bound *)
HandleGlobalAnyVersion(r, g) ==
    /\ Receive(Global(r, g))
    /\ lock_manager_global' = g
    /\ toServer' = Append(toServer, Bind(r, g.name))
    /\ UNCHANGED <<has_initialized, made, waiting, fired, serverVars>>

(* wl_registry_handle_global() for a manager: the one bound before is      *)
(* overwritten.                                                            *)
HandleGlobal(r, g) ==
    /\ Receive(Global(r, g))
    /\ lock_manager_global' = [g EXCEPT !.version = IF @ < ClientVersion THEN @ ELSE ClientVersion]
    /\ toServer' = Append(toServer, Bind(r, g.name))
    /\ UNCHANGED <<has_initialized, made, waiting, fired, serverVars>>

(* wl_registry_handle_global_remove() is empty.                            *)
HandleGlobalRemove(r, n) ==
    /\ Receive(GlobalRemove(r, n))
    /\ UNCHANGED <<clientVars, toServer, serverVars>>

HandleDone(r) ==
    /\ Receive(Done(r))
    /\ fired' = fired \cup {r}
    /\ UNCHANGED <<has_initialized, lock_manager_global, made, waiting, toServer, serverVars>>

(* GDK announces a monitor; the application's handler may call the library.*)
HandleOutput ==
    /\ Receive(Output)
    /\ StartInit \/ UNCHANGED <<made, waiting, toServer>>
    /\ UNCHANGED <<has_initialized, lock_manager_global, fired, serverVars>>

-----------------------------------------------------------------------------
(* The compositor.                                                         *)

Read(m) == toServer # <<>> /\ Head(toServer) = m /\ toServer' = Tail(toServer)

HandleGetRegistry(r) ==
    /\ Read(GetRegistry(r))
    /\ known' = r
    /\ toClient' = IF advertised = NULL THEN toClient
                   ELSE Append(toClient, Global(r, advertised))
    /\ UNCHANGED <<clientVars, advertised, names, outputs>>

HandleSync(r) ==
    /\ Read(SyncRequest(r))
    /\ toClient' = Append(toClient, Done(r))
    /\ UNCHANGED <<clientVars, serverVars>>

(* A manager withdrawn meanwhile can still be bound, and is inert.         *)
HandleBind(r, n) ==
    /\ Read(Bind(r, n))
    /\ UNCHANGED <<clientVars, toClient, serverVars>>

AddGlobal ==
    /\ advertised = NULL /\ names < MaxGlobals
    /\ names' = names + 1
    /\ \E v \in ServerVersions : advertised' = [name |-> names + 1, version |-> v]
    /\ toClient' = toClient \o [r \in 1..known |-> Global(r, advertised')]
    /\ UNCHANGED <<clientVars, toServer, known, outputs>>

RemoveGlobal ==
    /\ advertised # NULL
    /\ advertised' = NULL
    /\ toClient' = toClient \o [r \in 1..known |-> GlobalRemove(r, advertised.name)]
    /\ UNCHANGED <<clientVars, toServer, known, names, outputs>>

AddOutput ==
    /\ outputs < MaxOutputs
    /\ outputs' = outputs + 1
    /\ toClient' = Append(toClient, Output)
    /\ UNCHANGED <<clientVars, toServer, known, advertised, names>>

-----------------------------------------------------------------------------
Registries == 1..MaxInits

Dispatch ==
    \/ HandleOutput
    \/ \E r \in Registries :
        \/ HandleDone(r)
        \/ \E g \in Globals : HandleGlobal(r, g)
        \/ \E n \in 1..MaxGlobals : HandleGlobalRemove(r, n)

Serve == \E r \in Registries :
    HandleGetRegistry(r) \/ HandleSync(r) \/ \E n \in 1..MaxGlobals : HandleBind(r, n)

Next == Call \/ Return \/ Dispatch \/ Serve \/ AddGlobal \/ RemoveGlobal \/ AddOutput

(* The round trip, and later the main loop, keep dispatching, and the      *)
(* compositor keeps reading.                                               *)
Spec == Init /\ [][Next]_vars /\ WF_vars(Return) /\ WF_vars(Dispatch) /\ WF_vars(Serve)

-----------------------------------------------------------------------------
(* Properties.                                                             *)

Announced == \E i \in 1..Len(toClient) : toClient[i].op = "global"

(* Once the library says it is initialized it holds the manager the        *)
(* compositor offers, unless the announcement is still on its way: no      *)
(* nested or earlier round trip lets a caller read a manager too early,    *)
(* and one that comes late, or replaces another, is taken up.              *)
ManagerIsCurrent ==
    has_initialized /\ advertised # NULL /\ ~Announced =>
        lock_manager_global # NULL /\ lock_manager_global.name = advertised.name

(* "May block for a Wayland roundtrip the first time it's called", and     *)
(* never for ever, however round trips are nested: an inner one may run    *)
(* the callback of an outer one.                                           *)
InitReturns == waiting # <<>> ~> waiting = <<>>
=============================================================================

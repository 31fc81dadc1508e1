---------------------------- MODULE SessionLock ----------------------------
(***************************************************************************)
(* The life of GtkSessionLockLock objects (src/src/session-lock.c): the    *)
(* GObject the application holds, the ext_session_lock_v1 proxy it owns,   *)
(* the two FIFO directions of the Wayland connection, and the compositor   *)
(* at the other end, which is free to do whatever the protocol             *)
(* (src/protocol/ext-session-lock-v1.xml) leaves to its policy.            *)
(*                                                                         *)
(* Every entry point of the library is one action; its guard is what the   *)
(* code checks and nothing more.  What applications do is a separate       *)
(* choice: AnyApp calls whatever the C interface lets it call, while       *)
(* DocumentedApp keeps the order that README.md and the header ask for.    *)
(***************************************************************************)
EXTENDS Naturals, Sequences, FiniteSets

CONSTANTS
    Locks,  \* GtkSessionLockLock objects the application can ever prepare
    Objs,   \* ext_session_lock_v1 ids; one is used by every call of lock()
    NULL,   \* the C null pointer, and "nobody"
    Other   \* any other lock client of the compositor

ASSUME ConstantsAssumption ==
    /\ NULL \notin Objs \cup Locks
    /\ Other \notin Objs \cup Locks \cup {NULL}

VARIABLES
    gobj,      \* per lock: not yet prepared, alive, or its last reference dropped
    lockObj,   \* per lock: priv->lock_obj
    signals,   \* per lock: the GObject signals emitted so far
    emitted,   \* per lock: how many emissions that makes
    proxy,     \* per id: the client-side wl_proxy
    listener,  \* per id: the `data' registered with the listener
    client,    \* the application process
    toServer,  \* requests written and not yet read by the compositor
    toClient,  \* events written and not yet dispatched
    connected, \* the compositor still has this client
    res,       \* per id: the compositor's ext_session_lock_v1 resource
    session,   \* the session as the user sees it
    holder,    \* who is responsible for unlocking it
    perr       \* the protocol error posted, if any

appVars    == <<gobj, lockObj, signals, emitted>>
proxyVars  == <<proxy, listener>>
queueVars  == <<toServer, toClient>>
serverVars == <<connected, res, session, holder, perr>>
vars == <<appVars, proxyVars, client, queueVars, serverVars>>

Requests == {"lock", "destroy", "unlock_and_destroy", "sync"}
Events   == {"locked", "finished", "done"}
Msg(op, o) == [op |-> op, obj |-> o]
Messages(ops) == [op : ops, obj : Objs \cup {NULL}]

Alive == client \in {"running", "syncing", "synced"}
Dead  == {"exited", "crashed", "killed"}

(* gdk_display_sync() blocks: no call is made before it returns.           *)
MayCall == client \in {"running", "synced"}

TypeOK ==
    /\ gobj \in [Locks -> {"none", "live", "freed"}]
    /\ lockObj \in [Locks -> Objs \cup {NULL}]
    /\ signals \in [Locks -> SUBSET {"locked", "finished"}]
    /\ emitted \in [Locks -> Nat]
    /\ proxy \in [Objs -> {"none", "live", "destroyed"}]
    /\ listener \in [Objs -> Locks \cup {NULL}]
    /\ client \in {"running", "syncing", "synced"} \cup Dead
    /\ toServer \in Seq(Messages(Requests))
    /\ toClient \in Seq(Messages(Events))
    /\ connected \in BOOLEAN
    /\ res \in [Objs -> {"none", "denied", "locked", "revoked", "gone", "stranded"}]
    /\ session \in {"open", "locked"}
    /\ holder \in Objs \cup {NULL, Other}
    /\ perr \in {NULL, "invalid_destroy", "invalid_unlock", "invalid_object"}

(* mutant: gtk_session_lock_lock_init() leaves lock_obj unset *)
InitUnset ==
    /\ gobj = [l \in Locks |-> "none"]
    /\ lockObj = [l \in Locks |-> Other]
    /\ signals = [l \in Locks |-> {}]
    /\ emitted = [l \in Locks |-> 0]
    /\ proxy = [o \in Objs |-> "none"]
    /\ listener = [o \in Objs |-> NULL]
    /\ client = "running"
    /\ toServer = <<>> /\ toClient = <<>>
    /\ connected = TRUE
    /\ res = [o \in Objs |-> "none"]
    /\ session = "open" /\ holder = NULL
    /\ perr = NULL

Init ==
    /\ gobj = [l \in Locks |-> "none"]
    /\ lockObj = [l \in Locks |-> NULL]
    /\ signals = [l \in Locks |-> {}]
    /\ emitted = [l \in Locks |-> 0]
    /\ proxy = [o \in Objs |-> "none"]
    /\ listener = [o \in Objs |-> NULL]
    /\ client = "running"
    /\ toServer = <<>> /\ toClient = <<>>
    /\ connected = TRUE
    /\ res = [o \in Objs |-> "none"]
    /\ \/ session = "open" /\ holder = NULL
       \/ session = "locked" /\ holder = Other
    /\ perr = NULL

-----------------------------------------------------------------------------
(* The library, called by the application.                                 *)

(* A request is buffered behind every earlier one; nothing is synced any   *)
(* more.                                                                   *)
Send(op, o) ==
    /\ toServer' = Append(toServer, Msg(op, o))
    /\ client' = "running"

(* gtk_session_lock_prepare_lock(): NULL without a manager.  Whether one is*)
(* bound after init_if_needed is decided in module Registry (Call) and open*)
(* here.                                                                   *)
PrepareLock(l) ==
    /\ MayCall /\ gobj[l] = "none"
    /\ \/ gobj' = [gobj EXCEPT ![l] = "live"]
       \/ UNCHANGED gobj
    /\ UNCHANGED <<lockObj, signals, emitted, proxyVars, client, queueVars, serverVars>>

(* mutant: the listener is not added *)
LockWithoutListener(l) ==
    /\ MayCall /\ gobj[l] = "live"
    /\ \E o \in Objs :
        /\ proxy[o] = "none"
        /\ lockObj' = [lockObj EXCEPT ![l] = o]
        /\ proxy' = [proxy EXCEPT ![o] = "live"]
        /\ Send("lock", o)
    /\ UNCHANGED <<gobj, signals, emitted, listener, toClient, serverVars>>

(* gtk_session_lock_lock_lock(): whatever lock_obj held is overwritten.    *)
Lock(l) ==
    /\ MayCall /\ gobj[l] = "live"
    /\ \E o \in Objs :
        /\ proxy[o] = "none"
        /\ lockObj' = [lockObj EXCEPT ![l] = o]
        /\ proxy' = [proxy EXCEPT ![o] = "live"]
        /\ listener' = [listener EXCEPT ![o] = l]
        /\ Send("lock", o)
    /\ UNCHANGED <<gobj, signals, emitted, toClient, serverVars>>

(* The two destructors of the protocol free the proxy and, in the code,    *)
(* are only reached with a lock_obj; without one the call does nothing.    *)
SendDestructor(op, l) ==
    /\ MayCall /\ gobj[l] = "live"
    /\ IF lockObj[l] = NULL
       THEN UNCHANGED <<lockObj, proxy, toServer, client>>
       ELSE /\ proxy' = [proxy EXCEPT ![lockObj[l]] = "destroyed"]
            /\ lockObj' = [lockObj EXCEPT ![l] = NULL]
            /\ Send(op, lockObj[l])
    /\ UNCHANGED <<gobj, signals, emitted, listener, toClient, serverVars>>

(* mutant: lock_obj is cleared, the protocol object forgotten *)
DestroyWithoutRequest(l) ==
    /\ MayCall /\ gobj[l] = "live"
    /\ lockObj' = [lockObj EXCEPT ![l] = NULL]
    /\ UNCHANGED <<gobj, signals, emitted, proxyVars, client, queueVars, serverVars>>

(* mutant: lock_obj is not cleared *)
DestroyKeepingPointer(l) ==
    /\ MayCall /\ gobj[l] = "live" /\ lockObj[l] # NULL
    /\ proxy' = [proxy EXCEPT ![lockObj[l]] = "destroyed"]
    /\ Send("destroy", lockObj[l])
    /\ UNCHANGED <<appVars, listener, toClient, serverVars>>

(* gtk_session_lock_lock_destroy() *)
Destroy(l) == SendDestructor("destroy", l)

(* mutant: the plain destructor is used for both *)
UnlockByDestroy(l) == SendDestructor("destroy", l)

(* mutant: lock_obj is cleared and the request forgotten *)
UnlockWithoutRequest(l) == DestroyWithoutRequest(l)

(* mutant: unlocking tells the application that the lock is finished *)
UnlockAndTell(l) ==
    /\ MayCall /\ gobj[l] = "live" /\ lockObj[l] # NULL
    /\ proxy' = [proxy EXCEPT ![lockObj[l]] = "destroyed"]
    /\ lockObj' = [lockObj EXCEPT ![l] = NULL]
    /\ Send("unlock_and_destroy", lockObj[l])
    /\ signals' = [signals EXCEPT ![l] = @ \cup {"finished"}]
    /\ emitted' = [emitted EXCEPT ![l] = @ + 1]
    /\ UNCHANGED <<gobj, listener, toClient, serverVars>>

(* gtk_session_lock_lock_unlock_and_destroy() *)
UnlockAndDestroy(l) == SendDestructor("unlock_and_destroy", l)

(* g_object_unref() on the last reference: the class has no dispose and no *)
(* finalize, so the proxy and its listener stay.                           *)
Unref(l) ==
    /\ MayCall /\ gobj[l] = "live"
    /\ gobj' = [gobj EXCEPT ![l] = "freed"]
    /\ lockObj' = [lockObj EXCEPT ![l] = NULL]
    /\ UNCHANGED <<signals, emitted, proxyVars, client, queueVars, serverVars>>

(* mutant: flush instead of a round trip *)
SyncByFlush ==
    /\ MayCall
    /\ client' = "synced"
    /\ UNCHANGED <<appVars, proxyVars, queueVars, serverVars>>

(* mutant: wait for an answer that was never asked for *)
SyncWithoutRequest ==
    /\ MayCall
    /\ client' = "syncing"
    /\ UNCHANGED <<appVars, proxyVars, queueVars, serverVars>>

(* gdk_display_sync(): a wl_display.sync, then dispatch until it answers.  *)
Sync ==
    /\ MayCall
    /\ toServer' = Append(toServer, Msg("sync", NULL))
    /\ client' = "syncing"
    /\ UNCHANGED <<appVars, proxyVars, toClient, serverVars>>

(* The main loop is left and the process ends; what the compositor has not *)
(* read yet may be lost (Hangup).                                          *)
Exit ==
    /\ MayCall
    /\ client' = "exited"
    /\ UNCHANGED <<appVars, proxyVars, queueVars, serverVars>>

Crash ==
    /\ Alive
    /\ client' = "crashed"
    /\ UNCHANGED <<appVars, proxyVars, queueVars, serverVars>>

-----------------------------------------------------------------------------
(* Events dispatched by the main loop or inside a sync.                    *)

(* libwayland drops the events of a destroyed proxy and those nobody       *)
(* listens to.  A handler whose GObject has been freed reads freed memory: *)
(* it may crash or go unnoticed.                                           *)
Emit(o, sig) ==
    LET l == listener[o] IN
    \/ /\ proxy[o] # "live" \/ l = NULL
       /\ UNCHANGED <<signals, emitted, client>>
    \/ /\ proxy[o] = "live" /\ l # NULL /\ gobj[l] = "live"
       /\ signals' = [signals EXCEPT ![l] = @ \cup {sig}]
       /\ emitted' = [emitted EXCEPT ![l] = @ + 1]
       /\ UNCHANGED client
    \/ /\ proxy[o] = "live" /\ l # NULL /\ gobj[l] = "freed"
       /\ client' \in {client, "crashed"}
       /\ UNCHANGED <<signals, emitted>>

Dispatching(ev, o) ==
    /\ Alive /\ toClient # <<>> /\ Head(toClient) = Msg(ev, o)
    /\ toClient' = Tail(toClient)

(* mutant: the two entries of lock_listener are swapped *)
HandleLockedSwapped(o) ==
    /\ Dispatching("locked", o) /\ Emit(o, "finished")
    /\ UNCHANGED <<gobj, lockObj, proxyVars, toServer, serverVars>>

HandleLocked(o) ==
    /\ Dispatching("locked", o)
    /\ Emit(o, "locked")
    /\ UNCHANGED <<gobj, lockObj, proxyVars, toServer, serverVars>>

(* mutant: the two entries of lock_listener are swapped *)
HandleFinishedSwapped(o) ==
    /\ Dispatching("finished", o) /\ Emit(o, "locked")
    /\ UNCHANGED <<gobj, lockObj, proxyVars, toServer, serverVars>>

HandleFinished(o) ==
    /\ Dispatching("finished", o)
    /\ Emit(o, "finished")
    /\ UNCHANGED <<gobj, lockObj, proxyVars, toServer, serverVars>>

(* gdk_display_sync() returns. *)
HandleDone ==
    /\ Dispatching("done", NULL)
    /\ client' = "synced"
    /\ UNCHANGED <<appVars, proxyVars, toServer, serverVars>>

-----------------------------------------------------------------------------
(* The compositor, as the protocol describes it.                           *)

Arrived(m) == connected /\ toServer # <<>> /\ Head(toServer) = m
Reading(op, o) == Arrived(Msg(op, o)) /\ toServer' = Tail(toServer)

(* The client is gone: its objects vanish, a session it held stays locked. *)
Drop(o) ==
    CASE res[o] = "none"   -> "none"
      [] res[o] = "locked" -> "stranded"
      [] OTHER             -> "gone"

Disconnect ==
    /\ connected' = FALSE
    /\ toServer' = <<>> /\ toClient' = <<>>
    /\ res' = [o \in Objs |-> Drop(o)]
    /\ holder' = IF holder \in Objs THEN NULL ELSE holder
    /\ UNCHANGED session

(* A protocol error is fatal to the client; GDK aborts the process.        *)
PostError(err) ==
    /\ perr' = err
    /\ client' = IF Alive THEN "killed" ELSE client
    /\ Disconnect
    /\ UNCHANGED <<appVars, proxyVars>>

Grant(o) ==
    /\ Reading("lock", o) /\ holder = NULL
    /\ res' = [res EXCEPT ![o] = "locked"]
    /\ session' = "locked" /\ holder' = o
    /\ toClient' = Append(toClient, Msg("locked", o))
    /\ UNCHANGED <<appVars, proxyVars, client, connected, perr>>

(* Somebody else holds the lock, or the compositor's policy says no.       *)
Deny(o) ==
    /\ Reading("lock", o)
    /\ res' = [res EXCEPT ![o] = "denied"]
    /\ toClient' = Append(toClient, Msg("finished", o))
    /\ UNCHANGED <<appVars, proxyVars, client, connected, session, holder, perr>>

(* destroy is for a lock that was never granted.  No object gets a second  *)
(* destructor (HandleIntegrity), so none is read on an object that is gone.*)
HandleDestroy(o) ==
    \/ /\ Reading("destroy", o) /\ res[o] = "denied"
       /\ res' = [res EXCEPT ![o] = "gone"]
       /\ UNCHANGED <<appVars, proxyVars, client, toClient, connected, session, holder, perr>>
    \/ /\ Arrived(Msg("destroy", o)) /\ res[o] \in {"locked", "revoked"}
       /\ PostError("invalid_destroy")

(* unlock_and_destroy is for a lock that was granted at some time; only    *)
(* its holder opens the session.                                           *)
HandleUnlock(o) ==
    \/ /\ Reading("unlock_and_destroy", o) /\ res[o] = "locked"
       /\ res' = [res EXCEPT ![o] = "gone"]
       /\ session' = "open" /\ holder' = NULL
       /\ UNCHANGED <<appVars, proxyVars, client, toClient, connected, perr>>
    \/ /\ Reading("unlock_and_destroy", o) /\ res[o] = "revoked"
       /\ res' = [res EXCEPT ![o] = "gone"]
       /\ UNCHANGED <<appVars, proxyVars, client, toClient, connected, session, holder, perr>>
    \/ /\ Arrived(Msg("unlock_and_destroy", o)) /\ res[o] = "denied"
       /\ PostError("invalid_unlock")

HandleSync ==
    /\ Reading("sync", NULL)
    /\ toClient' = Append(toClient, Msg("done", NULL))
    /\ UNCHANGED <<appVars, proxyVars, client, serverVars>>

(* finished may follow locked at any time: the compositor has its own way  *)
(* to unlock, or takes the lock away and leaves the session locked.        *)
Revoke(o) ==
    /\ connected /\ res[o] = "locked"
    /\ res' = [res EXCEPT ![o] = "revoked"]
    /\ session' \in {"open", "locked"} /\ holder' = NULL
    /\ toClient' = Append(toClient, Msg("finished", o))
    /\ UNCHANGED <<appVars, proxyVars, client, toServer, connected, perr>>

(* The process has ended; unread requests may be lost with it.             *)
Hangup ==
    /\ connected /\ client \in Dead
    /\ Disconnect
    /\ UNCHANGED <<appVars, proxyVars, client, perr>>

OtherLocks ==
    /\ holder = NULL
    /\ session' = "locked" /\ holder' = Other
    /\ UNCHANGED <<appVars, proxyVars, client, queueVars, connected, res, perr>>

OtherUnlocks ==
    /\ holder = Other
    /\ session' = "open" /\ holder' = NULL
    /\ UNCHANGED <<appVars, proxyVars, client, queueVars, connected, res, perr>>

-----------------------------------------------------------------------------
Dispatch == HandleDone \/ \E o \in Objs : HandleLocked(o) \/ HandleFinished(o)

Serve == \/ HandleSync
         \/ \E o \in Objs : Grant(o) \/ Deny(o) \/ HandleDestroy(o) \/ HandleUnlock(o)

Compositor == \/ Serve \/ Hangup \/ OtherLocks \/ OtherUnlocks
              \/ \E o \in Objs : Revoke(o)

(* The functions of the header in any order, on objects the application    *)
(* owns.  Setting the GObject property `lock-obj' is not among them.       *)
AnyApp ==
    \/ \E l \in Locks : \/ PrepareLock(l) \/ Lock(l) \/ Destroy(l)
                        \/ UnlockAndDestroy(l) \/ Unref(l)
    \/ Sync \/ Exit \/ Crash

(* The documented order.  A lock is locked once and cannot be reused; it   *)
(* is unlocked after `locked'; it is destroyed after `finished', by the    *)
(* destructor the protocol wants for a lock that was never granted; the    *)
(* process exits after a sync.  The reference is dropped only afterwards:  *)
(* no document asks for that, it is an assumption of this module.          *)

Unused(l) == lockObj[l] = NULL /\ \A o \in Objs : listener[o] # l
MayUnlock(l) == "locked" \in signals[l]
MayDestroy(l) == "finished" \in signals[l] /\ "locked" \notin signals[l]
MayExit == client = "synced" /\ \A l \in Locks : lockObj[l] = NULL

DocumentedApp ==
    \/ \E l \in Locks : \/ PrepareLock(l)
                        \/ Unused(l) /\ Lock(l)
                        \/ MayUnlock(l) /\ UnlockAndDestroy(l)
                        \/ MayDestroy(l) /\ Destroy(l)
                        \/ lockObj[l] = NULL /\ Unref(l)
    \/ Sync
    \/ MayExit /\ Exit
    \/ Crash

AnyNext == AnyApp \/ Dispatch \/ Compositor
Next == DocumentedApp \/ Dispatch \/ Compositor

(* The main loop keeps dispatching, the compositor keeps reading and       *)
(* notices a closed connection.  Nothing obliges the application, another  *)
(* client, or the compositor's policy, to do anything.                     *)
Fairness == WF_vars(Dispatch) /\ WF_vars(Serve) /\ WF_vars(Hangup)

AnySpec == Init /\ [][AnyNext]_vars
Spec == Init /\ [][Next]_vars
FairSpec == Spec /\ Fairness

-----------------------------------------------------------------------------
(* Properties of any application.                                          *)

(* A lock that has a lock_obj has one that is live and reports back to     *)
(* this lock, so no call can reach a freed proxy or another lock's proxy,  *)
(* and every destructor in flight is the last request on its object.       *)
(* (The overwriting in lock() and the NULLing in the destructors.)         *)
HandleIntegrity ==
    /\ \A l \in Locks : lockObj[l] # NULL =>
            proxy[lockObj[l]] = "live" /\ listener[lockObj[l]] = l
    /\ \A i, j \in 1..Len(toServer) :
            i < j /\ toServer[i].obj = toServer[j].obj /\ toServer[i].obj # NULL
            => toServer[i].op = "lock" /\ toServer[j].op # "lock"

-----------------------------------------------------------------------------
(* Properties of a documented application.                                 *)

(* The session lock protocol is never violated, whatever the compositor's  *)
(* policy and however events and calls cross on the wire.                  *)
NoProtocolError == perr = NULL

(* No event handler runs on a freed GtkSessionLockLock.                    *)
ListenerIsAlive ==
    \A o \in Objs : proxy[o] = "live" => listener[o] \in Locks /\ gobj[listener[o]] = "live"

(* A lock that told `locked', and not `finished', really holds the locked  *)
(* session, unless `finished' is on its way or the client is gone.         *)
LockedIsTrue ==
    \A l \in Locks :
        /\ connected /\ lockObj[l] # NULL /\ signals[l] = {"locked"}
        /\ \A i \in 1..Len(toClient) : toClient[i] # Msg("finished", lockObj[l])
        => session = "locked" /\ holder = lockObj[l]

(* While the client lives, a session it holds can be unlocked: a lock the  *)
(* application still has owns the protocol object, or the unlock is sent.  *)
Unlockable ==
    Alive /\ holder \in Objs =>
        \/ \E l \in Locks : gobj[l] = "live" /\ lockObj[l] = holder
        \/ \E i \in 1..Len(toServer) : toServer[i] = Msg("unlock_and_destroy", holder)

(* Only a crash leaves a locked session behind: an application that ends   *)
(* after unlock and sync does not.                                         *)
StrandedOnlyByCrash ==
    (\E o \in Objs : res[o] = "stranded") => client = "crashed"

(* A lock that has told `finished' emits nothing any more, and whatever it *)
(* emits before that it emits for the first time (gtk_session_lock_lock_   *)
(* locked, _finished): neither a revoke that crosses the application's     *)
(* calls nor a second protocol object makes it repeat itself.              *)
FinishedIsLast ==
    [][\A l \in Locks : emitted'[l] # emitted[l] =>
            "finished" \notin signals[l] /\ signals'[l] # signals[l]]_vars

(* Every lock() is answered by `locked' or `finished' unless the client    *)
(* dies or gives the lock up first.                                        *)
LockIsAnswered ==
    \A l \in Locks :
        lockObj[l] # NULL ~> signals[l] # {} \/ lockObj[l] = NULL \/ ~Alive

(* What a lock() or a sync waits for never gets lost: as long as a lock has*)
(* not told anything, and as long as a sync blocks, the request or its     *)
(* answer is on the wire.                                                  *)
AnswerIsDue ==
    /\ \A l \in Locks : Alive /\ lockObj[l] # NULL /\ signals[l] = {} =>
        \/ \E i \in 1..Len(toServer) : toServer[i] = Msg("lock", lockObj[l])
        \/ \E i \in 1..Len(toClient), ev \in {"locked", "finished"} : toClient[i] = Msg(ev, lockObj[l])
    /\ client = "syncing" =>
        \/ \E i \in 1..Len(toServer) : toServer[i] = Msg("sync", NULL)
        \/ \E i \in 1..Len(toClient) : toClient[i] = Msg("done", NULL)

(* An unlock sent by the holder opens the session, even though the         *)
(* application may end after it; only a crash can lose it, or a lock that  *)
(* the compositor takes away first.                                        *)
UnlockTakesEffect ==
    \A o \in Objs :
        (\E i \in 1..Len(toServer) : toServer[i] = Msg("unlock_and_destroy", o)) /\ holder = o
            ~> session = "open" \/ client = "crashed" \/ res[o] = "revoked"

(* README.md, step 6: "If you receive the `finished` signal, the session   *)
(* could not be locked."                                                   *)
FinishedMeansLockFailed ==
    \A l \in Locks : "finished" \in signals[l] => "locked" \notin signals[l]

(* The blocking sync before exit returns.                                  *)
SyncReturns == client = "syncing" ~> client # "syncing"
=============================================================================

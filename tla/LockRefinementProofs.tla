----------------------- MODULE LockRefinementProofs -----------------------
(***************************************************************************)
(* SessionLock implements LockService for every set of locks and of        *)
(* protocol objects.  Besides LockInv, which says what is on the wire, the *)
(* mapping needs the signals of objects that are destroyed already: they   *)
(* too agree with the compositor's record.  The lock surfaces that share   *)
(* the connection (LockSurface) are invisible to the service: with them it *)
(* is still implemented.                                                   *)
(***************************************************************************)
EXTENDS LockRefinement, DocumentedSurfaceProofs

ToldMatchesRecord ==
    \A o \in Objs : listener[o] # NULL =>
        /\ "locked" \in signals[listener[o]] => res[o] \in {"locked", "revoked", "gone", "stranded"}
        /\ "finished" \in signals[listener[o]] => res[o] \in {"denied", "revoked", "gone"}

(* A client that is gone holds nothing any more.                           *)
HeldOnline == \A o \in Objs : res[o] = "locked" => connected

RefinementInv == LockInv /\ ToldMatchesRecord /\ HeldOnline

-----------------------------------------------------------------------------
(* The invariant.                                                          *)

LEMMA Facts ==
    LockInv =>
        /\ LockTypes /\ NULL \notin Objs \cup Locks /\ Other \notin Objs \cup Locks \cup {NULL}
        /\ \A o, p \in Objs : listener[o] = listener[p] /\ listener[o] # NULL => o = p
        /\ \A o \in Objs : proxy[o] = "none" <=> listener[o] = NULL
  BY ConstantsAssumption DEF LockInv, WireInv, HandleInv, Ownership

(* A signal is emitted on a live object, for an answer that stands.        *)
LEMMA SignalIsTrue ==
    ASSUME LockInv, NEW o \in Objs, NEW ev \in {"locked", "finished"}, Dispatching(ev, o), Emit(o, ev)
    PROVE  \/ UNCHANGED signals
           \/ /\ proxy[o] = "live" /\ listener[o] \in Locks
              /\ signals' = [signals EXCEPT ![listener[o]] = @ \cup {ev}]
              /\ ev = "locked" => res[o] \in {"locked", "revoked"} /\ signals[listener[o]] = {}
              /\ ev = "finished" => \/ res[o] = "denied" /\ signals[listener[o]] = {}
                                    \/ res[o] = "revoked" /\ signals[listener[o]] = {"locked"}
<1>1. connected /\ ObjectsAgree /\ LockTypes /\ ev \in Events
  BY RunningIsConnected DEF Dispatching, Events
<1>2. Posted(ev, o)
  BY <1>1, DispatchTakes
<1>3. RecordMatchesWire(o) /\ SignalsMatchRecord(o)
  BY <1>1 DEF ObjectsAgree
<1> SUFFICES ASSUME proxy[o] = "live", signals' # signals
             PROVE  /\ listener[o] \in Locks
                    /\ signals' = [signals EXCEPT ![listener[o]] = @ \cup {ev}]
                    /\ ev = "locked" => res[o] \in {"locked", "revoked"} /\ signals[listener[o]] = {}
                    /\ ev = "finished" => \/ res[o] = "denied" /\ signals[listener[o]] = {}
                                          \/ res[o] = "revoked" /\ signals[listener[o]] = {"locked"}
  BY DEF Emit
<1>4. listener[o] \in Locks /\ signals[listener[o]] \subseteq {"locked", "finished"}
  BY <1>1, Facts DEF LockTypes
<1>5. signals' = [signals EXCEPT ![listener[o]] = @ \cup {ev}]
  BY DEF Emit
<1>6. "finished" \notin signals[listener[o]]
  BY <1>1, <1>2, <1>3 DEF SignalsMatchRecord
<1>7. CASE ev = "locked"
  <2>1. res[o] \in {"locked", "revoked"} /\ "locked" \notin signals[listener[o]]
    BY <1>2, <1>3, <1>7 DEF RecordMatchesWire, SignalsMatchRecord
  <2> QED BY <1>4, <1>5, <1>6, <1>7, <2>1
<1>8. CASE ev = "finished"
  <2>1. res[o] \in {"denied", "revoked"}
    BY <1>2, <1>3, <1>8 DEF RecordMatchesWire
  <2>2. ~Posted("locked", o)
    <3>1. /\ Len(toClient) \in Nat /\ Len(toClient) > 0 /\ toClient[1] = Msg("finished", o)
      BY <1>1, <1>8, DispatchingFirst DEF Dispatching
    <3> SUFFICES ASSUME NEW i \in 1..Len(toClient), toClient[i] = Msg("locked", o) PROVE FALSE
      BY DEF Posted
    <3>2. i # 1 /\ 1 \in 1..Len(toClient) /\ 1 < i
      BY <3>1, MsgFields
    <3>3. toClient[1] = Msg("finished", o) /\ {"locked", "finished"} \subseteq Events
      BY <3>1 DEF Events
    <3> QED BY <3>2, <3>3 DEF LockInv, EventsOrdered
  <2>3. "locked" \in signals[listener[o]] <=> res[o] = "revoked"
    BY <1>3, <2>1, <2>2 DEF SignalsMatchRecord
  <2> QED BY <1>4, <1>5, <1>6, <1>8, <2>1, <2>3
<1> QED BY <1>7, <1>8

LEMMA RefinementInit == Init => RefinementInv
  BY LockInit DEF Init, RefinementInv, ToldMatchesRecord, HeldOnline

(* The records of the objects, when nothing is told.                       *)
LEMMA RecordMoves ==
    ASSUME LockTypes, ToldMatchesRecord, UNCHANGED <<signals, listener>>, NEW o \in Objs, NEW r,
           res' = [res EXCEPT ![o] = r],
           \/ res[o] = "none"
           \/ res[o] = "denied" /\ r = "gone"
           \/ res[o] \in {"locked", "revoked"} /\ r \in {"revoked", "gone"}
    PROVE  ToldMatchesRecord'
  BY DEF LockTypes, ToldMatchesRecord

LEMMA RefinementStep == RefinementInv /\ [Next]_vars => RefinementInv'
<1> SUFFICES ASSUME RefinementInv, [Next]_vars PROVE RefinementInv'
  OBVIOUS
<1>a. LockInv /\ LockInv' /\ LockTypes /\ ToldMatchesRecord
  BY LockStep, Facts DEF RefinementInv
<1>c. HeldOnline'
  <2>1. ASSUME UNCHANGED <<res, connected>> PROVE HeldOnline'
    BY <2>1 DEF RefinementInv, HeldOnline
  <2>2. ASSUME connected' = connected, connected PROVE HeldOnline'
    BY <2>2 DEF HeldOnline
  <2>3. ASSUME res' = [o \in Objs |-> Drop(o)] PROVE HeldOnline'
    BY <2>3 DEF HeldOnline, Drop
  <2>4. CASE DocumentedApp
    BY <2>1, <2>4 DEF DocumentedApp, PrepareLock, Lock, Destroy, UnlockAndDestroy, SendDestructor, Unref,
                      Sync, Exit, Crash, serverVars
  <2>5. CASE Dispatch
    BY <2>1, <2>5 DEF Dispatch, HandleLocked, HandleFinished, HandleDone, serverVars
  <2>6. CASE Serve
    BY <2>2, <2>3, <2>6 DEF Serve, HandleSync, Grant, Deny, HandleDestroy, HandleUnlock, Reading, Arrived,
                            PostError, Disconnect, serverVars
  <2>7. CASE Hangup \/ OtherLocks \/ OtherUnlocks \/ \E o \in Objs : Revoke(o)
    BY <2>1, <2>2, <2>3, <2>7 DEF Hangup, Disconnect, OtherLocks, OtherUnlocks, Revoke
  <2>8. CASE UNCHANGED vars
    BY <2>1, <2>8 DEF vars, serverVars
  <2> QED BY <2>4, <2>5, <2>6, <2>7, <2>8 DEF Next, Compositor
<1> SUFFICES ToldMatchesRecord'
  BY <1>a, <1>c DEF RefinementInv
<1>b. ASSUME UNCHANGED <<signals, listener, res>> PROVE ToldMatchesRecord'
  BY <1>a, <1>b DEF ToldMatchesRecord
<1>1. ASSUME NEW l \in Locks, Unused(l), Lock(l) PROVE ToldMatchesRecord'
  <2>1. signals[l] = {}
    BY <1>a, <1>1 DEF LockInv, Ownership, Unused
  <2>2. UNCHANGED <<signals, res>> /\ \E o \in Objs : listener' = [listener EXCEPT ![o] = l]
    BY <1>1 DEF Lock, serverVars
  <2> QED BY <1>a, <2>1, <2>2 DEF ToldMatchesRecord, LockTypes
<1>2. CASE DocumentedApp
  BY <1>b, <1>1, <1>2 DEF DocumentedApp, PrepareLock, Destroy, UnlockAndDestroy, SendDestructor, Unref,
                          Sync, Exit, Crash, appVars, proxyVars, serverVars
<1>3. ASSUME NEW o \in Objs, NEW ev \in {"locked", "finished"}, Dispatching(ev, o), Emit(o, ev),
             UNCHANGED <<proxyVars, serverVars>>
      PROVE  ToldMatchesRecord'
  <2>1. UNCHANGED <<listener, res>>
    BY <1>3 DEF proxyVars, serverVars
  <2>2. CASE UNCHANGED signals
    BY <1>b, <2>1, <2>2
  <2>3. CASE ~UNCHANGED signals
    <3>1. /\ listener[o] \in Locks /\ listener[o] # NULL
          /\ signals' = [signals EXCEPT ![listener[o]] = @ \cup {ev}]
          /\ ev = "locked" => res[o] \in {"locked", "revoked"}
          /\ ev = "finished" => res[o] \in {"denied", "revoked"}
      BY <1>a, <1>3, <2>3, SignalIsTrue, Facts
    <3>2. \A q \in Objs : listener[q] # NULL /\ q # o => listener[q] \in Locks /\ signals'[listener[q]] = signals[listener[q]]
      BY <1>a, <3>1, Facts DEF LockTypes
    <3>3. signals'[listener[o]] = signals[listener[o]] \cup {ev}
      BY <1>a, <3>1 DEF LockTypes
    <3> QED BY <1>a, <2>1, <3>1, <3>2, <3>3 DEF ToldMatchesRecord
  <2> QED BY <2>2, <2>3
<1>4. CASE Dispatch
  BY <1>b, <1>3, <1>4 DEF Dispatch, HandleLocked, HandleFinished, HandleDone, appVars, proxyVars, serverVars
<1>5. ASSUME NEW o \in Objs, Grant(o) \/ Deny(o) PROVE ToldMatchesRecord'
  <2>1. Arrived(Msg("lock", o))
    BY <1>5 DEF Grant, Deny, Reading
  <2>2. res[o] = "none"
    <3>1. connected /\ Sent("lock", o)
      BY <1>a, <2>1, ArrivedIsSent DEF Requests
    <3> QED BY <1>a, <3>1 DEF LockInv, ObjectsAgree, RecordMatchesWire
  <2> QED BY <1>a, <1>5, <2>2, RecordMoves DEF Grant, Deny, appVars, proxyVars
<1>6. ASSUME NEW err, PostError(err) PROVE ToldMatchesRecord'
  BY <1>a, <1>6 DEF PostError, Disconnect, Drop, ToldMatchesRecord, appVars, proxyVars, LockTypes
<1>7. ASSUME NEW o \in Objs, HandleDestroy(o) \/ HandleUnlock(o) PROVE ToldMatchesRecord'
  BY <1>a, <1>6, <1>7, RecordMoves DEF HandleDestroy, HandleUnlock, appVars, proxyVars
<1>8. ASSUME NEW o \in Objs, Revoke(o) PROVE ToldMatchesRecord'
  BY <1>a, <1>8, RecordMoves DEF Revoke, appVars, proxyVars
<1>9. CASE Hangup
  BY <1>a, <1>9 DEF Hangup, Disconnect, Drop, ToldMatchesRecord, appVars, proxyVars, LockTypes
<1>10. CASE HandleSync \/ OtherLocks \/ OtherUnlocks \/ UNCHANGED vars
  BY <1>b, <1>10 DEF HandleSync, OtherLocks, OtherUnlocks, vars, appVars, proxyVars, serverVars
<1> QED
  BY <1>a, <1>2, <1>4, <1>5, <1>7, <1>8, <1>9, <1>10 DEF Next, Compositor, Serve

-----------------------------------------------------------------------------
(* The mapping.                                                            *)

LEMMA TheObject ==
    ASSUME LockInv, NEW l \in Locks, NEW o \in Objs, listener[o] = l
    PROVE  HasObj(l) /\ ObjOf(l) = o /\ phaseBar[l] = PhaseOfRes(res[o])
<1>1. HasObj(l)
  BY DEF HasObj
<1>2. \A p \in Objs : listener[p] = l => p = o
  BY Facts
<1>3. ObjOf(l) = o
  BY <1>2 DEF ObjOf
<1> QED BY <1>1, <1>3 DEF phaseBar

LEMMA ObjectOfLock ==
    ASSUME NEW l \in Locks, HasObj(l)
    PROVE  ObjOf(l) \in Objs /\ listener[ObjOf(l)] = l
  BY DEF HasObj, ObjOf

LEMMA SameRecords ==
    ASSUME UNCHANGED <<listener, res, connected>> PROVE phaseBar' = phaseBar
  BY DEF phaseBar, HasObj, ObjOf, PhaseOfRes

LEMMA SameOwner ==
    ASSUME UNCHANGED <<listener, holder>> PROVE ownerBar' = ownerBar
  BY DEF ownerBar

(* One object's record changes, and the phase of its lock with it.         *)
LEMMA OneMoves ==
    ASSUME LockInv, UNCHANGED <<listener, connected>>, NEW o \in Objs, NEW r, res' = [res EXCEPT ![o] = r],
           listener[o] \in Locks
    PROVE  /\ phaseBar[listener[o]] = PhaseOfRes(res[o])
           /\ phaseBar' = [phaseBar EXCEPT ![listener[o]] = PhaseOfRes(r)]
<1>1. LockTypes /\ res'[o] = r /\ \A p \in Objs : p # o => res'[p] = res[p]
  BY Facts DEF LockTypes
<1>2. \A l \in Locks : (HasObj(l)' <=> HasObj(l)) /\ ObjOf(l)' = ObjOf(l)
  BY DEF HasObj, ObjOf
<1>3. \A s : PhaseOfRes(s)' = PhaseOfRes(s)
  BY DEF PhaseOfRes
<1>4. ASSUME NEW l \in Locks, l # listener[o] PROVE phaseBar'[l] = phaseBar[l]
  <2>1. CASE HasObj(l)
    <3>1. ObjOf(l) \in Objs /\ ObjOf(l) # o
      BY <1>4, <2>1, ObjectOfLock
    <3> QED BY <1>1, <1>2, <1>3, <2>1, <3>1 DEF phaseBar
  <2>2. CASE ~HasObj(l)
    BY <1>2, <2>2 DEF phaseBar
  <2> QED BY <2>1, <2>2
<1>5. phaseBar[listener[o]] = PhaseOfRes(res[o]) /\ HasObj(listener[o]) /\ ObjOf(listener[o]) = o
  BY TheObject
<1>6. phaseBar'[listener[o]] = PhaseOfRes(r)
  BY <1>1, <1>2, <1>3, <1>5 DEF phaseBar
<1> QED BY <1>4, <1>5, <1>6 DEF phaseBar

LEMMA MappedInit == Init => Service!Init
  BY ConstantsAssumption DEF Init, Service!Init, phaseBar, ownerBar, HasObj

-----------------------------------------------------------------------------
(* Every step is one of the service's, or none.                            *)

LEMMA Phases ==
    /\ PhaseOfRes("none") = IF connected THEN "asked" ELSE "over"
    /\ PhaseOfRes("denied") = "refused" /\ PhaseOfRes("locked") = "held" /\ PhaseOfRes("revoked") = "taken"
    /\ PhaseOfRes("gone") = "over" /\ PhaseOfRes("stranded") = "stranded"
  BY DEF PhaseOfRes

LEMMA MappedLock ==
    ASSUME LockInv, NEW l \in Locks, Unused(l), Lock(l)
    PROVE  Service!Ask(l)
<1>1. PICK o \in Objs : proxy[o] = "none" /\ listener' = [listener EXCEPT ![o] = l]
  BY DEF Lock
<1>2. /\ connected /\ ObjectsAgree /\ LockTypes /\ UNCHANGED <<signals, connected, res, holder, session>>
  BY RunningIsConnected DEF Lock, serverVars
<1>3. res[o] = "none" /\ listener[o] = NULL /\ holder # o
  <2>1. res[o] = "none"
    BY <1>1, <1>2 DEF ObjectsAgree, RecordMatchesWire
  <2> QED BY <1>1, <1>2, <2>1, Facts DEF LockInv, HolderMatchesRecord
<1>4. listener'[o] = l /\ \A p \in Objs : p # o => listener'[p] = listener[p]
  BY <1>1, <1>2 DEF LockTypes
<1>5. ~HasObj(l) /\ phaseBar[l] = "idle"
  BY DEF Unused, HasObj, phaseBar
<1>6. phaseBar'[l] = "asked"
  <2>1. HasObj(l)' /\ ObjOf(l)' = o
    <3>1. \A p \in Objs : listener'[p] = l => p = o
      BY <1>4, <1>5 DEF HasObj
    <3> QED BY <1>4, <3>1 DEF HasObj, ObjOf
  <2> QED BY <1>2, <1>3, <2>1 DEF phaseBar, PhaseOfRes
<1>7. ASSUME NEW k \in Locks, k # l PROVE phaseBar'[k] = phaseBar[k]
  <2>1. \A p \in Objs : listener'[p] = k <=> listener[p] = k
    BY <1>3, <1>4, <1>7, Facts
  <2>2. (HasObj(k)' <=> HasObj(k)) /\ ObjOf(k)' = ObjOf(k)
    BY <2>1 DEF HasObj, ObjOf
  <2>3. \A s : PhaseOfRes(s)' = PhaseOfRes(s)
    BY <1>2 DEF PhaseOfRes
  <2> QED BY <1>2, <2>2, <2>3 DEF phaseBar
<1>8. phaseBar' = [phaseBar EXCEPT ![l] = "asked"]
  BY <1>6, <1>7 DEF phaseBar
<1>9. ownerBar' = ownerBar
  BY <1>2, <1>3, <1>4 DEF ownerBar
<1> QED BY <1>2, <1>5, <1>8, <1>9 DEF Service!Ask, Service!Move

LEMMA MappedSignal ==
    ASSUME LockInv, NEW o \in Objs, NEW ev \in {"locked", "finished"}, Dispatching(ev, o), Emit(o, ev),
           UNCHANGED <<gobj, lockObj, proxyVars, toServer, serverVars>>
    PROVE  [Service!Next]_(Service!vars)
<1>1. UNCHANGED <<listener, res, connected, holder, session>>
  BY DEF proxyVars, serverVars
<1>2. phaseBar' = phaseBar /\ ownerBar' = ownerBar
  BY <1>1, SameRecords, SameOwner
<1>3. CASE UNCHANGED signals
  BY <1>1, <1>2, <1>3 DEF Service!vars
<1>4. CASE ~UNCHANGED signals
  <2> DEFINE l == listener[o]
  <2>1. /\ l \in Locks /\ signals' = [signals EXCEPT ![l] = @ \cup {ev}]
        /\ ev = "locked" => res[o] \in {"locked", "revoked"} /\ signals[l] = {}
        /\ ev = "finished" => \/ res[o] = "denied" /\ signals[l] = {}
                              \/ res[o] = "revoked" /\ signals[l] = {"locked"}
    BY <1>4, SignalIsTrue
  <2>2. phaseBar[l] = PhaseOfRes(res[o])
    BY <2>1, TheObject
  <2>3. CASE ev = "locked"
    <3>1. phaseBar[l] \in {"held", "taken"} /\ signals' = [signals EXCEPT ![l] = {"locked"}]
      BY <2>1, <2>2, <2>3, Phases
    <3>2. Service!TellLocked(l)
      BY <1>1, <1>2, <2>1, <2>3, <3>1 DEF Service!TellLocked
    <3> QED BY <2>1, <3>2 DEF Service!Next
  <2>4. CASE ev = "finished"
    <3>1. \/ phaseBar[l] = "refused" /\ signals[l] = {}
          \/ phaseBar[l] = "taken" /\ signals[l] = {"locked"}
      BY <2>1, <2>2, <2>4, Phases
    <3>2. Service!TellFinished(l)
      BY <1>1, <1>2, <2>1, <2>4, <3>1 DEF Service!TellFinished
    <3> QED BY <2>1, <3>2 DEF Service!Next
  <2> QED BY <2>3, <2>4
<1> QED BY <1>3, <1>4

(* An object the compositor reads about belongs to a lock.                 *)
LEMMA ReadObject ==
    ASSUME LockInv, NEW op \in Requests, NEW o \in Objs, Arrived(Msg(op, o))
    PROVE  connected /\ Sent(op, o) /\ listener[o] \in Locks /\ RecordMatchesWire(o)
<1>1. LockTypes /\ connected /\ Sent(op, o)
  BY Facts, ArrivedIsSent
<1>2. proxy[o] # "none"
  BY <1>1 DEF LockInv, WireInv, HandleInv, WireMatchesProxy
<1> QED BY <1>1, <1>2, Facts DEF LockTypes, LockInv, ObjectsAgree

LEMMA MappedAnswer ==
    ASSUME LockInv, NEW o \in Objs, Grant(o) \/ Deny(o)
    PROVE  \E l \in Locks : Service!Grant(l) \/ Service!Refuse(l)
<1> DEFINE l == listener[o]
<1>1. /\ Arrived(Msg("lock", o)) /\ UNCHANGED <<signals, listener, connected>>
  BY DEF Grant, Deny, Reading, appVars, proxyVars
<1>2. connected /\ l \in Locks /\ res[o] = "none"
  BY <1>1, ReadObject DEF Requests, RecordMatchesWire
<1>3. CASE Grant(o)
  <2>1. /\ res' = [res EXCEPT ![o] = "locked"] /\ holder = NULL /\ holder' = o /\ session' = "locked"
    BY <1>3 DEF Grant
  <2>2. phaseBar[l] = "asked" /\ phaseBar' = [phaseBar EXCEPT ![l] = "held"]
    <3>1. phaseBar[l] = PhaseOfRes(res[o]) /\ phaseBar' = [phaseBar EXCEPT ![l] = PhaseOfRes("locked")]
      BY <1>1, <1>2, <2>1, OneMoves
    <3> QED BY <1>1, <1>2, <2>1, <3>1, Phases
  <2>3. ownerBar = NULL /\ ownerBar' = l
    BY <1>1, <2>1, Facts DEF ownerBar
  <2>4. Service!Grant(l)
    BY <1>1, <2>1, <2>2, <2>3 DEF Service!Grant, Service!Move
  <2> QED BY <1>2, <2>4
<1>4. CASE Deny(o)
  <2>1. res' = [res EXCEPT ![o] = "denied"] /\ UNCHANGED <<holder, session>>
    BY <1>4 DEF Deny
  <2>2. phaseBar[l] = "asked" /\ phaseBar' = [phaseBar EXCEPT ![l] = "refused"]
    <3>1. phaseBar[l] = PhaseOfRes(res[o]) /\ phaseBar' = [phaseBar EXCEPT ![l] = PhaseOfRes("denied")]
      BY <1>1, <1>2, <2>1, OneMoves
    <3> QED BY <1>1, <1>2, <2>1, <3>1, Phases
  <2>3. Service!Refuse(l)
    BY <1>1, <2>1, <2>2, SameOwner DEF Service!Refuse, Service!Move
  <2> QED BY <1>2, <2>3
<1> QED BY <1>3, <1>4

LEMMA MappedDestructor ==
    ASSUME LockInv, NEW o \in Objs, HandleDestroy(o) \/ HandleUnlock(o)
    PROVE  \E l \in Locks : Service!Release(l) \/ Service!Retire(l)
<1> DEFINE l == listener[o]
<1>1. PICK op \in {"destroy", "unlock_and_destroy"} :
        Arrived(Msg(op, o)) /\ (op = "destroy" <=> HandleDestroy(o)) /\ (op # "destroy" <=> HandleUnlock(o))
  <2>1. HandleDestroy(o) => Arrived(Msg("destroy", o))
    BY DEF HandleDestroy, Reading
  <2>2. HandleUnlock(o) => Arrived(Msg("unlock_and_destroy", o))
    BY DEF HandleUnlock, Reading
  <2>3. ~(Arrived(Msg("destroy", o)) /\ Arrived(Msg("unlock_and_destroy", o)))
    BY MsgFields DEF Arrived
  <2> QED BY <2>1, <2>2, <2>3
<1>2. connected /\ l \in Locks /\ Sent(op, o) /\ RecordMatchesWire(o)
  BY <1>1, ReadObject DEF Requests
<1>3. CASE HandleDestroy(o)
  <2>1. res[o] = "denied"
    BY <1>1, <1>2, <1>3 DEF RecordMatchesWire
  <2>2. /\ res' = [res EXCEPT ![o] = "gone"]
        /\ UNCHANGED <<signals, listener, connected, session, holder>>
    BY <1>3, <2>1 DEF HandleDestroy, appVars, proxyVars
  <2>3. phaseBar[l] = "refused" /\ phaseBar' = [phaseBar EXCEPT ![l] = "over"]
    <3>1. phaseBar[l] = PhaseOfRes(res[o]) /\ phaseBar' = [phaseBar EXCEPT ![l] = PhaseOfRes("gone")]
      BY <1>2, <2>1, <2>2, OneMoves
    <3> QED BY <1>2, <2>1, <2>2, <3>1, Phases
  <2>4. Service!Retire(l)
    BY <2>2, <2>3, SameOwner DEF Service!Retire, Service!Move
  <2> QED BY <1>2, <2>4
<1>4. CASE HandleUnlock(o)
  <2>1. res[o] \in {"locked", "revoked"}
    BY <1>1, <1>2, <1>4 DEF RecordMatchesWire
  <2>2. /\ res' = [res EXCEPT ![o] = "gone"] /\ UNCHANGED <<signals, listener, connected>>
        /\ res[o] = "locked" => session' = "open" /\ holder' = NULL
        /\ res[o] = "revoked" => UNCHANGED <<session, holder>>
    BY <1>4, <2>1 DEF HandleUnlock, appVars, proxyVars
  <2>3. phaseBar[l] = PhaseOfRes(res[o]) /\ phaseBar' = [phaseBar EXCEPT ![l] = "over"]
    <3>1. phaseBar[l] = PhaseOfRes(res[o]) /\ phaseBar' = [phaseBar EXCEPT ![l] = PhaseOfRes("gone")]
      BY <1>2, <2>2, OneMoves
    <3> QED BY <3>1, Phases
  <2>4. CASE res[o] = "locked"
    <3>1. ownerBar' = NULL
      BY <2>2, <2>4, Facts DEF ownerBar
    <3>2. Service!Release(l)
      BY <2>2, <2>3, <2>4, <3>1, Phases DEF Service!Release, Service!Move
    <3> QED BY <1>2, <3>2
  <2>5. CASE res[o] = "revoked"
    <3>1. Service!Retire(l)
      BY <2>2, <2>3, <2>5, SameOwner, Phases DEF Service!Retire, Service!Move
    <3> QED BY <1>2, <3>1
  <2> QED BY <2>1, <2>4, <2>5
<1> QED BY <1>3, <1>4

LEMMA MappedRevoke ==
    ASSUME LockInv, NEW o \in Objs, Revoke(o)
    PROVE  \E l \in Locks : Service!Take(l)
<1> DEFINE l == listener[o]
<1>1. /\ connected /\ res[o] = "locked" /\ res' = [res EXCEPT ![o] = "revoked"]
      /\ session' \in {"open", "locked"} /\ holder' = NULL
      /\ UNCHANGED <<signals, listener, connected>>
  BY DEF Revoke, appVars, proxyVars
<1>2. l \in Locks
  <2>1. proxy[o] # "none"
    BY <1>1 DEF LockInv, ObjectsAgree, RecordMatchesWire
  <2> QED BY <2>1, Facts DEF LockTypes
<1>3. phaseBar[l] = "held" /\ phaseBar' = [phaseBar EXCEPT ![l] = "taken"]
  <2>1. phaseBar[l] = PhaseOfRes(res[o]) /\ phaseBar' = [phaseBar EXCEPT ![l] = PhaseOfRes("revoked")]
    BY <1>1, <1>2, OneMoves
  <2> QED BY <1>1, <1>2, <2>1, Phases
<1>4. ownerBar' = NULL
  BY <1>1, Facts DEF ownerBar
<1>5. Service!Take(l)
  BY <1>1, <1>3, <1>4 DEF Service!Take, Service!Move
<1> QED BY <1>2, <1>5

LEMMA MappedHangup ==
    ASSUME LockInv, Hangup
    PROVE  Service!Die
<1>1. /\ connected /\ connected' = FALSE /\ res' = [o \in Objs |-> Drop(o)]
      /\ holder' = (IF holder \in Objs THEN NULL ELSE holder)
      /\ UNCHANGED <<signals, listener, session>>
  BY DEF Hangup, Disconnect, appVars, proxyVars
<1>2. \A l \in Locks : (HasObj(l)' <=> HasObj(l)) /\ ObjOf(l)' = ObjOf(l)
  BY <1>1 DEF HasObj, ObjOf
<1>3. ASSUME NEW l \in Locks
      PROVE  phaseBar'[l] = CASE phaseBar[l] = "idle" -> "idle"
                              [] phaseBar[l] = "held" -> "stranded"
                              [] OTHER -> "over"
  <2>1. CASE ~HasObj(l)
    BY <1>2, <2>1 DEF phaseBar
  <2>2. CASE HasObj(l)
    <3>1. PICK o \in Objs : o = ObjOf(l) /\ listener[o] = l
      BY <2>2, ObjectOfLock
    <3>2. phaseBar[l] = PhaseOfRes(res[o]) /\ \A s : res'[o] = s => phaseBar'[l] = PhaseOfRes(s)'
      BY <1>2, <2>2, <3>1 DEF phaseBar
    <3>3. res[o] \in {"none", "denied", "locked", "revoked", "gone", "stranded"} /\ res'[o] = Drop(o)
      BY <1>1, Facts DEF LockTypes
    <3>4. PhaseOfRes("none")' = "over" /\ PhaseOfRes("gone")' = "over" /\ PhaseOfRes("stranded")' = "stranded"
      BY <1>1 DEF PhaseOfRes
    <3>5. /\ res[o] = "none" => Drop(o) = "none"
          /\ res[o] = "locked" => Drop(o) = "stranded"
          /\ res[o] \notin {"none", "locked"} => Drop(o) = "gone"
      BY DEF Drop
    <3> QED BY <1>1, <3>2, <3>3, <3>4, <3>5, Phases
  <2> QED BY <2>1, <2>2
<1>4. phaseBar' = [l \in Locks |-> CASE phaseBar[l] = "idle" -> "idle"
                                     [] phaseBar[l] = "held" -> "stranded"
                                     [] OTHER -> "over"]
  BY <1>3 DEF phaseBar
<1>5. ownerBar' = IF ownerBar \in Locks THEN NULL ELSE ownerBar
  <2>1. CASE holder \in Objs
    <3>1. proxy[holder] # "none"
      BY <1>1, <2>1 DEF LockInv, ObjectsAgree, RecordMatchesWire, HolderMatchesRecord
    <3>2. listener[holder] \in Locks
      BY <2>1, <3>1, Facts DEF LockTypes
    <3> QED BY <1>1, <2>1, <3>2, Facts DEF ownerBar
  <2>2. CASE holder \notin Objs
    BY <1>1, <2>2, Facts DEF ownerBar, LockTypes
  <2> QED BY <2>1, <2>2
<1> QED BY <1>1, <1>4, <1>5 DEF Service!Die

LEMMA MappedOthers ==
    ASSUME LockInv, OtherLocks \/ OtherUnlocks
    PROVE  Service!OthersMove
<1>1. UNCHANGED <<signals, listener, res, connected>>
  BY DEF OtherLocks, OtherUnlocks, appVars, proxyVars
<1>2. phaseBar' = phaseBar
  BY <1>1, SameRecords
<1> QED BY <1>1, <1>2, Facts DEF OtherLocks, OtherUnlocks, ownerBar, Service!OthersMove

LEMMA MappedStep == LockInv /\ [Next]_vars => [Service!Next]_(Service!vars)
<1> SUFFICES ASSUME LockInv, [Next]_vars PROVE [Service!Next]_(Service!vars)
  OBVIOUS
<1>1. ASSUME UNCHANGED <<signals, listener, res, connected, holder, session>>
      PROVE  UNCHANGED Service!vars
  BY <1>1, SameRecords, SameOwner DEF Service!vars
<1>2. CASE DocumentedApp
  <2>1. ASSUME NEW l \in Locks, Unused(l), Lock(l) PROVE Service!Next
    BY <2>1, MappedLock DEF Service!Next
  <2> QED BY <1>1, <1>2, <2>1 DEF DocumentedApp, PrepareLock, Destroy, UnlockAndDestroy, SendDestructor,
                                  Unref, Sync, Exit, Crash, appVars, proxyVars, serverVars
<1>3. CASE Dispatch
  <2>1. CASE HandleDone
    BY <1>1, <2>1 DEF HandleDone, appVars, proxyVars, serverVars
  <2>2. ASSUME NEW o \in Objs, HandleLocked(o) \/ HandleFinished(o) PROVE [Service!Next]_(Service!vars)
    BY <2>2, MappedSignal DEF HandleLocked, HandleFinished
  <2> QED BY <1>3, <2>1, <2>2 DEF Dispatch
<1>4. CASE Compositor
  <2>1. CASE HandleSync
    BY <1>1, <2>1 DEF HandleSync, appVars, proxyVars, serverVars
  <2>2. ASSUME NEW o \in Objs, Grant(o) \/ Deny(o) \/ HandleDestroy(o) \/ HandleUnlock(o) PROVE Service!Next
    BY <2>2, MappedAnswer, MappedDestructor DEF Service!Next
  <2>3. ASSUME NEW o \in Objs, Revoke(o) PROVE Service!Next
    BY <2>3, MappedRevoke DEF Service!Next
  <2>4. CASE Hangup \/ OtherLocks \/ OtherUnlocks
    BY <2>4, MappedHangup, MappedOthers DEF Service!Next
  <2> QED BY <1>4, <2>1, <2>2, <2>3, <2>4 DEF Compositor, Serve
<1>5. CASE UNCHANGED vars
  BY <1>1, <1>5 DEF vars, appVars, proxyVars, serverVars
<1> QED BY <1>2, <1>3, <1>4, <1>5 DEF Next

LEMMA PromisesOfRefinement ==
    ASSUME RefinementInv PROVE ServiceInvariant
<1>1. LockInv /\ LockTypes /\ ToldMatchesRecord
  BY Facts DEF RefinementInv
<1>2. ASSUME NEW l \in Locks, HasObj(l)
      PROVE  \E o \in Objs : listener[o] = l /\ phaseBar[l] = PhaseOfRes(res[o])
  BY <1>1, <1>2, ObjectOfLock, TheObject
<1>3. Service!TypeOK
  <2>1. \A l \in Locks : phaseBar[l] \in {"idle", "asked", "refused", "held", "taken", "over", "stranded"}
    <3> SUFFICES ASSUME NEW l \in Locks
                 PROVE  phaseBar[l] \in {"idle", "asked", "refused", "held", "taken", "over", "stranded"}
      OBVIOUS
    <3>1. CASE HasObj(l)
      <4>1. PICK o \in Objs : phaseBar[l] = PhaseOfRes(res[o])
        BY <1>2, <3>1
      <4>2. res[o] \in {"none", "denied", "locked", "revoked", "gone", "stranded"}
        BY <1>1 DEF LockTypes
      <4> QED BY <4>1, <4>2, Phases
    <3> QED BY <3>1 DEF phaseBar
  <2>2. ownerBar \in Locks \cup {NULL, Other}
    BY <1>1, Facts DEF ownerBar, LockTypes
  <2> QED BY <1>1, <2>1, <2>2 DEF Service!TypeOK, LockTypes, phaseBar
<1>4. ASSUME NEW l \in Locks PROVE phaseBar[l] = "held" <=> ownerBar = l
  <2>1. ASSUME phaseBar[l] = "held" PROVE ownerBar = l
    <3>1. HasObj(l)
      BY <2>1 DEF phaseBar
    <3>2. PICK o \in Objs : listener[o] = l /\ PhaseOfRes(res[o]) = "held"
      BY <1>2, <2>1, <3>1
    <3>3. res[o] = "locked"
      BY <1>1, <3>2, Phases DEF LockTypes
    <3>4. holder = o
      BY <1>1, <3>3 DEF RefinementInv, HeldOnline, LockInv, HolderMatchesRecord
    <3> QED BY <3>2, <3>4 DEF ownerBar
  <2>2. ASSUME ownerBar = l PROVE phaseBar[l] = "held"
    <3>1. holder \in Objs /\ listener[holder] = l
      BY <1>1, <2>2, Facts DEF ownerBar, LockTypes
    <3>2. res[holder] = "locked"
      BY <1>1, <3>1 DEF LockInv, HolderMatchesRecord
    <3> QED BY <1>1, <3>1, <3>2, TheObject, Phases
  <2> QED BY <2>1, <2>2
<1>5. ownerBar # NULL => session = "locked"
  BY <1>1, Facts DEF ownerBar, LockInv, HolderMatchesRecord
<1>6. ASSUME NEW l \in Locks
      PROVE  /\ "locked" \in signals[l] => phaseBar[l] \in {"held", "taken", "over", "stranded"}
             /\ "finished" \in signals[l] => phaseBar[l] \in {"refused", "taken", "over"}
  <2> SUFFICES ASSUME signals[l] # {}
               PROVE  /\ "locked" \in signals[l] => phaseBar[l] \in {"held", "taken", "over", "stranded"}
                      /\ "finished" \in signals[l] => phaseBar[l] \in {"refused", "taken", "over"}
    OBVIOUS
  <2>1. PICK o \in Objs : listener[o] = l
    BY <1>1 DEF LockInv, Ownership
  <2>2. phaseBar[l] = PhaseOfRes(res[o])
    BY <1>1, <2>1, TheObject
  <2>3. /\ "locked" \in signals[l] => res[o] \in {"locked", "revoked", "gone", "stranded"}
        /\ "finished" \in signals[l] => res[o] \in {"denied", "revoked", "gone"}
    BY <1>1, <2>1, Facts DEF ToldMatchesRecord
  <2> QED BY <2>2, <2>3, Phases
<1> QED BY <1>3, <1>4, <1>5, <1>6 DEF ServiceInvariant, Service!ServiceInv, Service!HolderIsExclusive,
                                      Service!HeldIsLocked, Service!ToldIsTrue

(* Whatever a documented application and the compositor do, the library is *)
(* an instance of the abstract lock service: each step of session-lock.c   *)
(* and of the wire is one step of the service, or invisible to it.         *)
THEOREM TheServiceIsImplemented == Spec => ImplementsService
<1> QED BY MappedInit, MappedStep, LockInvHolds, PTL DEF Spec, ImplementsService, Service!Spec

(* The service's promises, read in the library's state: one holder, a      *)
(* locked session for as long as it holds, and nothing signalled that has  *)
(* not happened.                                                           *)
THEOREM TheServiceIsKept == Spec => []ServiceInvariant
<1> QED BY RefinementInit, RefinementStep, PromisesOfRefinement, PTL DEF Spec

-----------------------------------------------------------------------------
(* The same with lock surfaces on the same connection.                     *)

LEMMA SurfacesRefine ==
    ASSUME DocumentedInv, RefinementInv, [SurfaceNext]_allVars
    PROVE  RefinementInv' /\ [Service!Next]_(Service!vars)
<1>1. CASE LockSide(LeavingApp)
  <2>1. LockInv /\ Next
    BY <1>1 DEF RefinementInv, LockSide, LeavingApp, Next
  <2> QED BY <2>1, RefinementStep, MappedStep
<1>2. CASE DocumentedSurfaceApp \/ SurfaceEnv \/ UNCHANGED allVars
  <2>1. UNCHANGED <<appVars, proxyVars, serverVars>>
    BY <1>2, SurfacesPassBy DEF allVars, vars
  <2>2. UNCHANGED <<signals, listener, res, connected, holder, session>>
    BY <2>1 DEF appVars, proxyVars, serverVars
  <2>3. LockInv'
    BY DocumentedStep DEF DocumentedInv
  <2>4. RefinementInv'
    BY <2>2, <2>3 DEF RefinementInv, ToldMatchesRecord, HeldOnline
  <2> QED BY <2>2, <2>4, SameRecords, SameOwner DEF Service!vars
<1> QED BY <1>1, <1>2 DEF SurfaceNext

LEMMA SurfacesRefineInit == SurfaceInit => DocumentedInv /\ RefinementInv /\ Service!Init
  BY DocumentedInitial, RefinementInit, MappedInit DEF SurfaceInit

(* However windows are prepared, shown, resized, hidden and destroyed on   *)
(* the connection, what the locks do is what the abstract service does:    *)
(* lock-surface.c never takes, grants or gives up a lock, and reads no     *)
(* event of one.                                                           *)
THEOREM TheServiceIsImplementedWithSurfaces == SurfaceSpec => ImplementsService
<1>1. DocumentedInv /\ RefinementInv /\ [SurfaceNext]_allVars
        => DocumentedInv' /\ RefinementInv' /\ [Service!Next]_(Service!vars)
  BY SurfacesRefine, DocumentedStep
<1> QED BY <1>1, SurfacesRefineInit, PTL DEF SurfaceSpec, ImplementsService, Service!Spec

(* ... and the promises of the service hold in its state.                  *)
THEOREM TheServiceIsKeptWithSurfaces == SurfaceSpec => []ServiceInvariant
<1>1. DocumentedInv /\ RefinementInv /\ [SurfaceNext]_allVars => DocumentedInv' /\ RefinementInv'
  BY SurfacesRefine, DocumentedStep
<1> QED BY <1>1, SurfacesRefineInit, PromisesOfRefinement, PTL DEF SurfaceSpec
=============================================================================

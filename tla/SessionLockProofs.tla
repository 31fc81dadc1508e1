------------------------- MODULE SessionLockProofs -------------------------
(***************************************************************************)
(* Theorems about SessionLock for every set of locks and of protocol       *)
(* objects, checked by TLAPS.                                              *)
(***************************************************************************)
EXTENDS SessionLock, TLAPS

(* A documented application only makes calls that any application may.     *)
LEMMA DocumentedIsAny == [Next]_vars => [AnyNext]_vars
  BY DEF Next, AnyNext, DocumentedApp, AnyApp

(* The queues stay queues of requests and of events when a message is      *)
(* added or taken.                                                         *)
LEMMA SentTypes ==
    ASSUME TypeOK, NEW op \in Requests, NEW o \in Objs \cup {NULL}
    PROVE  Append(toServer, Msg(op, o)) \in Seq(Messages(Requests))
  BY DEF TypeOK, Msg, Messages

LEMMA PostedTypes ==
    ASSUME TypeOK, NEW ev \in Events, NEW o \in Objs \cup {NULL}
    PROVE  Append(toClient, Msg(ev, o)) \in Seq(Messages(Events))
  BY DEF TypeOK, Msg, Messages

LEMMA TakenTypes ==
    ASSUME TypeOK
    PROVE  /\ toServer # <<>> => Tail(toServer) \in Seq(Messages(Requests))
           /\ toClient # <<>> => Tail(toClient) \in Seq(Messages(Events))
           /\ <<>> \in Seq(Messages(Requests)) /\ <<>> \in Seq(Messages(Events))
  BY DEF TypeOK

(* Emitting keeps the types of what has been emitted.                      *)
LEMMA EmittedTypes ==
    ASSUME signals \in [Locks -> SUBSET {"locked", "finished"}], emitted \in [Locks -> Nat],
           NEW o \in Objs, listener[o] \in Locks \cup {NULL},
           NEW sig \in {"locked", "finished"}, Emit(o, sig)
    PROVE  /\ signals' \in [Locks -> SUBSET {"locked", "finished"}]
           /\ emitted' \in [Locks -> Nat]
           /\ client' \in {client, "crashed"}
<1>1. CASE UNCHANGED <<signals, emitted>> /\ client' \in {client, "crashed"}
  BY <1>1
<1>2. ASSUME NEW l \in Locks,
             signals' = [signals EXCEPT ![l] = @ \cup {sig}],
             emitted' = [emitted EXCEPT ![l] = @ + 1],
             UNCHANGED client
      PROVE  /\ signals' \in [Locks -> SUBSET {"locked", "finished"}]
             /\ emitted' \in [Locks -> Nat]
             /\ client' \in {client, "crashed"}
  BY <1>2
<1> QED BY <1>1, <1>2 DEF Emit

-----------------------------------------------------------------------------
(* Type correctness.                                                       *)

LEMMA TypeInit == Init => TypeOK
  BY ConstantsAssumption DEF Init, TypeOK, Dead

LEMMA TypeStep == TypeOK /\ [AnyNext]_vars => TypeOK'
<1> SUFFICES ASSUME TypeOK, [AnyNext]_vars PROVE TypeOK'
  OBVIOUS
<1> USE ConstantsAssumption
<1> USE DEF TypeOK, appVars, proxyVars, queueVars, serverVars, Dead
<1>1. ASSUME NEW l \in Locks, PrepareLock(l) PROVE TypeOK'
  BY <1>1 DEF PrepareLock
<1>2. ASSUME NEW l \in Locks, Lock(l) PROVE TypeOK'
  <2>1. PICK o \in Objs : /\ lockObj' = [lockObj EXCEPT ![l] = o]
                          /\ proxy' = [proxy EXCEPT ![o] = "live"]
                          /\ listener' = [listener EXCEPT ![o] = l]
                          /\ Send("lock", o)
    BY <1>2 DEF Lock
  <2>2. Append(toServer, Msg("lock", o)) \in Seq(Messages(Requests))
    BY SentTypes DEF Requests
  <2> QED BY <1>2, <2>1, <2>2 DEF Lock, Send
<1>3. ASSUME NEW l \in Locks, NEW op \in Requests, SendDestructor(op, l) PROVE TypeOK'
  <2>1. CASE lockObj[l] = NULL
    BY <1>3, <2>1 DEF SendDestructor
  <2>2. CASE lockObj[l] # NULL
    <3>1. Append(toServer, Msg(op, lockObj[l])) \in Seq(Messages(Requests))
      BY SentTypes
    <3> QED BY <1>3, <2>2, <3>1 DEF SendDestructor, Send
  <2> QED BY <2>1, <2>2
<1>4. ASSUME NEW l \in Locks, Unref(l) PROVE TypeOK'
  BY <1>4 DEF Unref
<1>5. ASSUME Sync \/ Exit \/ Crash PROVE TypeOK'
  <2>1. Append(toServer, Msg("sync", NULL)) \in Seq(Messages(Requests))
    BY SentTypes DEF Requests
  <2> QED BY <1>5, <2>1 DEF Sync, Exit, Crash
<1>6. ASSUME Dispatch PROVE TypeOK'
  <2>1. CASE HandleDone
    BY <2>1, TakenTypes DEF HandleDone, Dispatching
  <2>2. ASSUME NEW o \in Objs, HandleLocked(o) PROVE TypeOK'
    <3>1. Emit(o, "locked") /\ Dispatching("locked", o)
          /\ UNCHANGED <<gobj, lockObj, proxyVars, toServer, serverVars>>
      BY <2>2 DEF HandleLocked
    <3> QED BY <3>1, TakenTypes, EmittedTypes DEF Dispatching
  <2>3. ASSUME NEW o \in Objs, HandleFinished(o) PROVE TypeOK'
    <3>1. Emit(o, "finished") /\ Dispatching("finished", o)
          /\ UNCHANGED <<gobj, lockObj, proxyVars, toServer, serverVars>>
      BY <2>3 DEF HandleFinished
    <3> QED BY <3>1, TakenTypes, EmittedTypes DEF Dispatching
  <2> QED BY <1>6, <2>1, <2>2, <2>3 DEF Dispatch
<1>7. ASSUME Disconnect PROVE /\ connected' \in BOOLEAN /\ res' \in [Objs -> {"none", "gone", "stranded"}]
                              /\ toServer' = <<>> /\ toClient' = <<>>
                              /\ holder' \in Objs \cup {NULL, Other}
                              /\ session' = session
  BY <1>7 DEF Disconnect, Drop
<1>8. ASSUME NEW err \in {"invalid_destroy", "invalid_unlock", "invalid_object"}, PostError(err)
      PROVE TypeOK'
  BY <1>7, <1>8, TakenTypes DEF PostError
<1>9. ASSUME Serve PROVE TypeOK'
  <2>1. CASE HandleSync
    BY <2>1, TakenTypes, PostedTypes DEF HandleSync, Reading, Arrived, Events
  <2>2. ASSUME NEW o \in Objs, Grant(o) PROVE TypeOK'
    BY <2>2, TakenTypes, PostedTypes DEF Grant, Reading, Arrived, Events
  <2>3. ASSUME NEW o \in Objs, Deny(o) PROVE TypeOK'
    BY <2>3, TakenTypes, PostedTypes DEF Deny, Reading, Arrived, Events
  <2>4. ASSUME NEW o \in Objs, HandleDestroy(o) PROVE TypeOK'
    BY <2>4, <1>8, TakenTypes DEF HandleDestroy, Reading, Arrived
  <2>5. ASSUME NEW o \in Objs, HandleUnlock(o) PROVE TypeOK'
    BY <2>5, <1>8, TakenTypes DEF HandleUnlock, Reading, Arrived
  <2> QED BY <1>9, <2>1, <2>2, <2>3, <2>4, <2>5 DEF Serve
<1>10. ASSUME Compositor PROVE TypeOK'
  <2>1. CASE Hangup
    BY <2>1, <1>7, TakenTypes DEF Hangup
  <2>2. CASE OtherLocks \/ OtherUnlocks
    BY <2>2 DEF OtherLocks, OtherUnlocks
  <2>3. ASSUME NEW o \in Objs, Revoke(o) PROVE TypeOK'
    BY <2>3, TakenTypes, PostedTypes DEF Revoke, Events
  <2> QED BY <1>9, <1>10, <2>1, <2>2, <2>3 DEF Compositor
<1>11. CASE UNCHANGED vars
  BY <1>11 DEF vars
<1> QED
  BY <1>1, <1>2, <1>3, <1>4, <1>5, <1>6, <1>10, <1>11
     DEF AnyNext, AnyApp, Destroy, UnlockAndDestroy, Requests

(* Every variable of SessionLock keeps its type, whatever order the        *)
(* application calls the library in.                                       *)
THEOREM TypeCorrect == AnySpec => []TypeOK
<1>1. Init => TypeOK
  BY TypeInit
<1>2. TypeOK /\ [AnyNext]_vars => TypeOK'
  BY TypeStep
<1> QED
  BY <1>1, <1>2, PTL DEF AnySpec

-----------------------------------------------------------------------------
(* What is on the wire.  Lock surfaces send their requests and get their   *)
(* events over the same connection (LockSurface), so what follows asks of  *)
(* the two queues no more than that they are queues: messages of other     *)
(* protocols may stand between those of the locks.                         *)

LockTypes ==
    /\ gobj \in [Locks -> {"none", "live", "freed"}]
    /\ lockObj \in [Locks -> Objs \cup {NULL}]
    /\ signals \in [Locks -> SUBSET {"locked", "finished"}]
    /\ emitted \in [Locks -> Nat]
    /\ proxy \in [Objs -> {"none", "live", "destroyed"}]
    /\ listener \in [Objs -> Locks \cup {NULL}]
    /\ client \in {"running", "syncing", "synced"} \cup Dead
    /\ \E S : toServer \in Seq(S)
    /\ \E S : toClient \in Seq(S)
    /\ connected \in BOOLEAN
    /\ res \in [Objs -> {"none", "denied", "locked", "revoked", "gone", "stranded"}]
    /\ session \in {"open", "locked"}
    /\ holder \in Objs \cup {NULL, Other}

LEMMA TypesOfLocks == TypeOK => LockTypes
  BY DEF TypeOK, LockTypes

Sent(op, o)   == \E i \in 1..Len(toServer) : toServer[i] = Msg(op, o)
Posted(ev, o) == \E i \in 1..Len(toClient) : toClient[i] = Msg(ev, o)

(* The requests on one lock object are its lock and then one destructor.   *)
Ordered ==
    \A i, j \in 1..Len(toServer), p, q \in Requests, o \in Objs :
        i < j /\ toServer[i] = Msg(p, o) /\ toServer[j] = Msg(q, o)
        => p = "lock" /\ q # "lock"

LEMMA MsgFields ==
    \A op, o, p, q : /\ Msg(op, o).op = op /\ Msg(op, o).obj = o
                     /\ Msg(op, o) = Msg(p, q) <=> op = p /\ o = q
  BY DEF Msg

LEMMA AppendIndices ==
    ASSUME NEW S, NEW q \in Seq(S), NEW e
    PROVE  /\ \E T : Append(q, e) \in Seq(T)
           /\ Len(Append(q, e)) = Len(q) + 1 /\ Len(q) \in Nat
           /\ \A i \in 1..Len(q) : Append(q, e)[i] = q[i]
           /\ Append(q, e)[Len(q) + 1] = e
<1> DEFINE T == S \cup {e}
<1>1. q \in Seq(T) /\ e \in T
  OBVIOUS
<1> HIDE DEF T
<1>2. Append(q, e) \in Seq(T)
  BY <1>1
<1>3. /\ Len(Append(q, e)) = Len(q) + 1 /\ Len(q) \in Nat
      /\ \A i \in 1..Len(q) : Append(q, e)[i] = q[i]
      /\ Append(q, e)[Len(q) + 1] = e
  BY <1>1
<1> QED BY <1>2, <1>3

LEMMA TailIndices ==
    ASSUME NEW S, NEW q \in Seq(S), q # <<>>
    PROVE  /\ \E T : Tail(q) \in Seq(T)
           /\ Len(q) \in Nat /\ Len(q) > 0 /\ Len(Tail(q)) = Len(q) - 1
           /\ Head(q) = q[1]
           /\ \A i \in 1..Len(q) - 1 : Tail(q)[i] = q[i + 1]
<1>1. Tail(q) \in Seq(S)
  OBVIOUS
<1> QED BY <1>1

(* The queues, position by position: what is sent or posted comes last,    *)
(* what is read or dispatched was first.                                   *)
LEMMA Sending ==
    ASSUME LockTypes, NEW m, toServer' = Append(toServer, m)
    PROVE  /\ \E S : toServer' \in Seq(S)
           /\ Len(toServer') = Len(toServer) + 1 /\ Len(toServer) \in Nat
           /\ \A i \in 1..Len(toServer) : toServer'[i] = toServer[i]
           /\ toServer'[Len(toServer) + 1] = m
<1>1. PICK S : toServer \in Seq(S)
  BY DEF LockTypes
<1>2. \E T : Append(toServer, m) \in Seq(T)
  BY <1>1, AppendIndices
<1>3. \E T : toServer' \in Seq(T)
  BY <1>2
<1> QED BY <1>1, <1>3, AppendIndices

LEMMA Posting ==
    ASSUME LockTypes, NEW m, toClient' = Append(toClient, m)
    PROVE  /\ \E S : toClient' \in Seq(S)
           /\ Len(toClient') = Len(toClient) + 1 /\ Len(toClient) \in Nat
           /\ \A i \in 1..Len(toClient) : toClient'[i] = toClient[i]
           /\ toClient'[Len(toClient) + 1] = m
<1>1. PICK S : toClient \in Seq(S)
  BY DEF LockTypes
<1>2. \E T : Append(toClient, m) \in Seq(T)
  BY <1>1, AppendIndices
<1>3. \E T : toClient' \in Seq(T)
  BY <1>2
<1> QED BY <1>1, <1>3, AppendIndices

LEMMA TakingFirst ==
    ASSUME LockTypes, toServer # <<>>, toServer' = Tail(toServer)
    PROVE  /\ \E S : toServer' \in Seq(S)
           /\ Len(toServer) \in Nat /\ Len(toServer) > 0 /\ Len(toServer') = Len(toServer) - 1
           /\ Head(toServer) = toServer[1]
           /\ \A i \in 1..Len(toServer) - 1 : toServer'[i] = toServer[i + 1]
<1>1. PICK S : toServer \in Seq(S)
  BY DEF LockTypes
<1> QED BY <1>1, TailIndices

LEMMA DispatchingFirst ==
    ASSUME LockTypes, toClient # <<>>, toClient' = Tail(toClient)
    PROVE  /\ \E S : toClient' \in Seq(S)
           /\ Len(toClient) \in Nat /\ Len(toClient) > 0 /\ Len(toClient') = Len(toClient) - 1
           /\ Head(toClient) = toClient[1]
           /\ \A i \in 1..Len(toClient) - 1 : toClient'[i] = toClient[i + 1]
<1>1. PICK S : toClient \in Seq(S)
  BY DEF LockTypes
<1> QED BY <1>1, TailIndices

(* The types that any application keeps on a connection it shares.         *)
LEMMA LockTypesStep == LockTypes /\ [AnyNext]_vars => LockTypes'
<1> SUFFICES ASSUME LockTypes, [AnyNext]_vars PROVE LockTypes'
  OBVIOUS
<1> USE ConstantsAssumption
<1> USE DEF appVars, proxyVars, queueVars, serverVars
<1> DEFINE Requested == \E S : toServer' \in Seq(S)
           Answered  == \E S : toClient' \in Seq(S)
<1>a. /\ toServer' = toServer => Requested
      /\ toClient' = toClient => Answered
      /\ toServer' = <<>> => Requested
      /\ toClient' = <<>> => Answered
  <2>1. \E S : <<>> \in Seq(S)
    <3>1. <<>> \in Seq({})
      OBVIOUS
    <3> QED BY <3>1
  <2>2. toServer' = <<>> => Requested
    BY <2>1
  <2>3. toClient' = <<>> => Answered
    BY <2>1
  <2> QED BY <2>2, <2>3 DEF LockTypes
<1>b. /\ \A op, o : Send(op, o) => Requested
      /\ \A op, o : Reading(op, o) => Requested
      /\ \A ev, o : Dispatching(ev, o) => Answered
      /\ \A m : toClient' = Append(toClient, m) => Answered
      /\ Sync => Requested
  BY Sending, Posting, TakingFirst, DispatchingFirst
  DEF Send, Reading, Arrived, Dispatching, Sync
<1> HIDE DEF Requested, Answered
<1>c. Requested /\ Answered
  <2>1. CASE AnyApp
    BY <1>a, <1>b, <2>1
    DEF AnyApp, PrepareLock, Lock, Destroy, UnlockAndDestroy, SendDestructor, Unref, Sync, Exit, Crash
  <2>2. CASE Dispatch
    BY <1>a, <1>b, <2>2 DEF Dispatch, HandleDone, HandleLocked, HandleFinished
  <2>3. CASE Compositor
    BY <1>a, <1>b, <2>3
    DEF Compositor, Serve, HandleSync, Grant, Deny, HandleDestroy, HandleUnlock, PostError, Disconnect,
        Hangup, OtherLocks, OtherUnlocks, Revoke
  <2>4. CASE UNCHANGED vars
    BY <1>a, <2>4 DEF vars
  <2> QED BY <2>1, <2>2, <2>3, <2>4 DEF AnyNext
<1>1. ASSUME NEW l \in Locks, PrepareLock(l) PROVE LockTypes'
  BY <1>1, <1>c DEF LockTypes, PrepareLock, Requested, Answered
<1>2. ASSUME NEW l \in Locks, Lock(l) PROVE LockTypes'
  <2>1. PICK o \in Objs : /\ lockObj' = [lockObj EXCEPT ![l] = o]
                          /\ proxy' = [proxy EXCEPT ![o] = "live"]
                          /\ listener' = [listener EXCEPT ![o] = l]
                          /\ client' = "running"
    BY <1>2 DEF Lock, Send
  <2> QED BY <1>2, <1>c, <2>1 DEF LockTypes, Lock, Requested, Answered
<1>3. ASSUME NEW l \in Locks, NEW op, SendDestructor(op, l) PROVE LockTypes'
  BY <1>3, <1>c DEF LockTypes, SendDestructor, Send, Requested, Answered
<1>4. ASSUME NEW l \in Locks, Unref(l) PROVE LockTypes'
  BY <1>4, <1>c DEF LockTypes, Unref, Requested, Answered
<1>5. ASSUME Sync \/ Exit \/ Crash PROVE LockTypes'
  BY <1>5, <1>c DEF LockTypes, Sync, Exit, Crash, Dead, Requested, Answered
<1>6. ASSUME Dispatch PROVE LockTypes'
  <2>1. ASSUME NEW o \in Objs, NEW sig \in {"locked", "finished"}, Emit(o, sig),
               UNCHANGED <<gobj, lockObj, proxyVars, toServer, serverVars>>
        PROVE  LockTypes'
    BY <2>1, <1>c, EmittedTypes DEF LockTypes, Dead, Requested, Answered
  <2>2. CASE HandleDone
    BY <2>2, <1>c DEF LockTypes, HandleDone, Requested, Answered
  <2> QED BY <1>6, <2>1, <2>2 DEF Dispatch, HandleLocked, HandleFinished
<1>7. ASSUME Disconnect, UNCHANGED <<appVars, proxyVars>>,
             client' = client \/ client' = "killed"
      PROVE  LockTypes'
  BY <1>7, <1>c DEF LockTypes, Disconnect, Drop, Dead, Requested, Answered
<1>8. ASSUME Compositor PROVE LockTypes'
  <2>1. CASE HandleSync
    BY <2>1, <1>c DEF LockTypes, HandleSync, Requested, Answered
  <2>2. ASSUME NEW o \in Objs, Grant(o) \/ Deny(o) \/ Revoke(o) PROVE LockTypes'
    BY <2>2, <1>c DEF LockTypes, Grant, Deny, Revoke, Requested, Answered
  <2>3. ASSUME NEW o \in Objs, HandleDestroy(o) \/ HandleUnlock(o) PROVE LockTypes'
    BY <2>3, <1>c, <1>7 DEF LockTypes, HandleDestroy, HandleUnlock, PostError, Requested, Answered
  <2>4. CASE Hangup
    BY <2>4, <1>7 DEF Hangup
  <2>5. CASE OtherLocks \/ OtherUnlocks
    BY <2>5, <1>c DEF LockTypes, OtherLocks, OtherUnlocks, Requested, Answered
  <2> QED BY <1>8, <2>1, <2>2, <2>3, <2>4, <2>5 DEF Compositor, Serve
<1>9. CASE UNCHANGED vars
  BY <1>9, <1>c DEF LockTypes, vars, Requested, Answered
<1> QED BY <1>1, <1>2, <1>3, <1>4, <1>5, <1>6, <1>8, <1>9 DEF AnyNext, AnyApp, Destroy, UnlockAndDestroy

(* Sending adds one message.                                               *)
LEMMA SendAdds ==
    ASSUME LockTypes, NEW op \in Requests, NEW o \in Objs \cup {NULL},
           toServer' = Append(toServer, Msg(op, o))
    PROVE  \A p \in Requests, q \in Objs \cup {NULL} :
               Sent(p, q)' <=> Sent(p, q) \/ (p = op /\ q = o)
<1>1. /\ Len(toServer') = Len(toServer) + 1 /\ Len(toServer) \in Nat
      /\ \A i \in 1..Len(toServer) : toServer'[i] = toServer[i]
      /\ toServer'[Len(toServer) + 1] = Msg(op, o)
  BY Sending
<1> QED BY <1>1, MsgFields DEF Sent

LEMMA PostAdds ==
    ASSUME LockTypes, NEW ev \in Events, NEW o \in Objs \cup {NULL},
           toClient' = Append(toClient, Msg(ev, o))
    PROVE  \A p \in Events, q \in Objs \cup {NULL} :
               Posted(p, q)' <=> Posted(p, q) \/ (p = ev /\ q = o)
<1>1. /\ Len(toClient') = Len(toClient) + 1 /\ Len(toClient) \in Nat
      /\ \A i \in 1..Len(toClient) : toClient'[i] = toClient[i]
      /\ toClient'[Len(toClient) + 1] = Msg(ev, o)
  BY Posting
<1> QED BY <1>1, MsgFields DEF Posted

(* Reading takes one message; it leaves no second one like it, and nothing *)
(* on an object whose destructor is read.                                  *)
LEMMA ReadTakes ==
    ASSUME LockTypes, NEW op \in Requests, NEW o \in Objs \cup {NULL}, Reading(op, o)
    PROVE  /\ Sent(op, o)
           /\ \A p, q : Sent(p, q)' => Sent(p, q)
           /\ \A p, q : Sent(p, q) => Sent(p, q)' \/ (p = op /\ q = o)
           /\ Ordered /\ o # NULL => ~Sent(op, o)' /\ (op # "lock" => \A p \in Requests : ~Sent(p, o)')
           /\ Ordered => Ordered'
<1>1. /\ Len(toServer) \in Nat /\ Len(toServer) > 0 /\ Len(toServer') = Len(toServer) - 1
      /\ toServer[1] = Msg(op, o)
      /\ \A i \in 1..Len(toServer) - 1 : toServer'[i] = toServer[i + 1]
  BY TakingFirst DEF Reading, Arrived
<1>2. \A i \in 1..Len(toServer') : i + 1 \in 1..Len(toServer) /\ toServer'[i] = toServer[i + 1] /\ 1 < i + 1
  BY <1>1
<1>3. \A i \in 1..Len(toServer) : i = 1 \/ (i - 1 \in 1..Len(toServer') /\ toServer[i] = toServer'[i - 1])
  BY <1>1
<1>4. Sent(op, o) /\ 1 \in 1..Len(toServer)
  BY <1>1 DEF Sent
<1>5. \A p, q : Sent(p, q)' => Sent(p, q)
  BY <1>2 DEF Sent
<1>6. \A p, q : Sent(p, q) => Sent(p, q)' \/ (p = op /\ q = o)
  BY <1>3, <1>1, MsgFields DEF Sent
<1>7. ASSUME Ordered, o # NULL, NEW p \in Requests, Sent(p, o)' PROVE op = "lock" /\ p # "lock"
  BY <1>1, <1>2, <1>4, <1>7, MsgFields DEF Ordered, Sent
<1>8. ASSUME Ordered PROVE Ordered'
  <2> SUFFICES ASSUME NEW i \in 1..Len(toServer'), NEW j \in 1..Len(toServer'), i < j,
                      NEW p \in Requests, NEW q \in Requests, NEW x \in Objs,
                      toServer'[i] = Msg(p, x), toServer'[j] = Msg(q, x)
               PROVE  p = "lock" /\ q # "lock"
    BY DEF Ordered
  <2>1. i + 1 < j + 1 /\ i + 1 \in 1..Len(toServer) /\ j + 1 \in 1..Len(toServer)
    BY <1>2
  <2> QED BY <1>2, <1>8, <2>1 DEF Ordered
<1> QED BY <1>4, <1>5, <1>6, <1>7, <1>8

LEMMA DispatchTakes ==
    ASSUME LockTypes, NEW ev \in Events, NEW o \in Objs \cup {NULL}, Dispatching(ev, o)
    PROVE  /\ Posted(ev, o)
           /\ \A p, q : Posted(p, q)' => Posted(p, q)
           /\ \A p, q : Posted(p, q) => Posted(p, q)' \/ (p = ev /\ q = o)
<1>1. /\ Len(toClient) \in Nat /\ Len(toClient) > 0 /\ Len(toClient') = Len(toClient) - 1
      /\ toClient[1] = Msg(ev, o)
      /\ \A i \in 1..Len(toClient) - 1 : toClient'[i] = toClient[i + 1]
  BY DispatchingFirst DEF Dispatching
<1>2. \A i \in 1..Len(toClient') : i + 1 \in 1..Len(toClient) /\ toClient'[i] = toClient[i + 1]
  BY <1>1
<1>3. \A i \in 1..Len(toClient) : i = 1 \/ (i - 1 \in 1..Len(toClient') /\ toClient[i] = toClient'[i - 1])
  BY <1>1
<1>4. Posted(ev, o)
  BY <1>1 DEF Posted
<1>5. ASSUME NEW p, NEW q, Posted(p, q)' PROVE Posted(p, q)
  <2>1. PICK i \in 1..Len(toClient') : toClient'[i] = Msg(p, q)
    BY <1>5 DEF Posted
  <2> QED BY <1>2, <2>1 DEF Posted
<1>6. ASSUME NEW p, NEW q, Posted(p, q) PROVE Posted(p, q)' \/ (p = ev /\ q = o)
  <2>1. PICK i \in 1..Len(toClient) : toClient[i] = Msg(p, q)
    BY <1>6 DEF Posted
  <2>2. CASE i = 1
    BY <1>1, <2>1, <2>2, MsgFields
  <2>3. CASE i # 1
    <3>1. i - 1 \in 1..Len(toClient') /\ toClient'[i - 1] = Msg(p, q)
      BY <1>3, <2>1, <2>3
    <3> QED BY <3>1 DEF Posted
  <2> QED BY <2>2, <2>3
<1> QED BY <1>4, <1>5, <1>6

(* An empty wire carries nothing.                                          *)
LEMMA EmptyWire ==
    ASSUME toServer = <<>> PROVE Ordered /\ \A p, q : ~Sent(p, q)
  BY DEF Ordered, Sent

-----------------------------------------------------------------------------
(* Handles of any application.                                             *)

OwnsLive == \A l \in Locks : lockObj[l] # NULL => proxy[lockObj[l]] = "live" /\ listener[lockObj[l]] = l

(* Nothing is sent on an object before lock(), no destructor while the     *)
(* proxy lives.                                                            *)
WireMatchesProxy ==
    \A o \in Objs :
        /\ proxy[o] = "none" => \A op \in Requests : ~Sent(op, o)
        /\ proxy[o] = "live" => ~Sent("destroy", o) /\ ~Sent("unlock_and_destroy", o)
        /\ ~Sent("sync", o)

HandleInv == LockTypes /\ OwnsLive /\ WireMatchesProxy /\ Ordered

LEMMA SendOrdered ==
    ASSUME LockTypes, Ordered, NEW op \in Requests, NEW o \in Objs \cup {NULL},
           toServer' = Append(toServer, Msg(op, o)),
           o # NULL => /\ op # "lock"
                       /\ \A p \in Requests : Sent(p, o) => p = "lock"
                    \/ \A p \in Requests : ~Sent(p, o)
    PROVE  Ordered'
<1>1. /\ Len(toServer') = Len(toServer) + 1 /\ Len(toServer) \in Nat
      /\ \A i \in 1..Len(toServer) : toServer'[i] = toServer[i]
      /\ toServer'[Len(toServer) + 1] = Msg(op, o)
  BY Sending
<1> SUFFICES ASSUME NEW i \in 1..Len(toServer'), NEW j \in 1..Len(toServer'), i < j,
                    NEW p \in Requests, NEW q \in Requests, NEW x \in Objs,
                    toServer'[i] = Msg(p, x), toServer'[j] = Msg(q, x)
             PROVE  p = "lock" /\ q # "lock"
  BY DEF Ordered
<1>2. CASE j \in 1..Len(toServer)
  BY <1>1, <1>2 DEF Ordered
<1>3. CASE j = Len(toServer) + 1
  <2>1. i \in 1..Len(toServer) /\ toServer[i] = Msg(p, x) /\ q = op /\ x = o
    BY <1>1, <1>3, MsgFields
  <2>2. Sent(p, o) /\ o # NULL
    BY <2>1, ConstantsAssumption DEF Sent
  <2> QED BY <2>1, <2>2
<1> QED BY <1>1, <1>2, <1>3

LEMMA HandleInit == Init => HandleInv
  BY TypeInit, TypesOfLocks, EmptyWire DEF Init, HandleInv, OwnsLive, WireMatchesProxy

(* A step of the compositor or of the dispatcher only takes requests off   *)
(* the wire.                                                               *)
LEMMA TakingKeepsHandles ==
    ASSUME HandleInv, LockTypes', UNCHANGED proxyVars,
           lockObj' = lockObj \/ (\E l \in Locks : lockObj' = [lockObj EXCEPT ![l] = NULL]),
           Ordered', \A p, q : Sent(p, q)' => Sent(p, q)
    PROVE  HandleInv'
<1>1. proxy' = proxy /\ listener' = listener
  BY DEF proxyVars
<1>2. OwnsLive'
  BY <1>1 DEF HandleInv, LockTypes, OwnsLive
<1>3. WireMatchesProxy'
  BY <1>1 DEF HandleInv, WireMatchesProxy
<1> QED BY <1>2, <1>3 DEF HandleInv

LEMMA HandleStep == HandleInv /\ [AnyNext]_vars => HandleInv'
<1> SUFFICES ASSUME HandleInv, [AnyNext]_vars PROVE HandleInv'
  OBVIOUS
<1>t. LockTypes /\ LockTypes'
  BY LockTypesStep DEF HandleInv
<1>1. ASSUME toServer' = toServer, UNCHANGED proxyVars,
             lockObj' = lockObj \/ \E l \in Locks : lockObj' = [lockObj EXCEPT ![l] = NULL]
      PROVE HandleInv'
  <2>1. Ordered' /\ \A p, q : Sent(p, q)' => Sent(p, q)
    BY <1>1 DEF HandleInv, Ordered, Sent
  <2> QED BY <1>t, <1>1, <2>1, TakingKeepsHandles
<1>2. ASSUME NEW op \in Requests, NEW o \in Objs \cup {NULL}, Reading(op, o),
             UNCHANGED proxyVars, lockObj' = lockObj
      PROVE HandleInv'
  <2>1. Ordered' /\ \A p, q : Sent(p, q)' => Sent(p, q)
    BY <1>t, <1>2, ReadTakes DEF HandleInv
  <2> QED BY <1>t, <1>2, <2>1, TakingKeepsHandles
<1>3. ASSUME Disconnect, UNCHANGED proxyVars, lockObj' = lockObj PROVE HandleInv'
  <2>1. Ordered' /\ \A p, q : ~Sent(p, q)'
    BY <1>3, EmptyWire DEF Disconnect, Ordered, Sent
  <2> QED BY <1>t, <1>3, <2>1, TakingKeepsHandles
<1>4. ASSUME NEW l \in Locks, Lock(l) PROVE HandleInv'
  <2>1. PICK o \in Objs : /\ proxy[o] = "none"
                          /\ lockObj' = [lockObj EXCEPT ![l] = o]
                          /\ proxy' = [proxy EXCEPT ![o] = "live"]
                          /\ listener' = [listener EXCEPT ![o] = l]
                          /\ Send("lock", o)
    BY <1>4 DEF Lock
  <2>2. toServer' = Append(toServer, Msg("lock", o)) /\ "lock" \in Requests
    BY <2>1 DEF Send, Requests
  <2>3. \A p \in Requests : ~Sent(p, o)
    BY <2>1 DEF HandleInv, WireMatchesProxy
  <2>4. Ordered'
    BY <1>t, <2>2, <2>3, SendOrdered DEF HandleInv
  <2>5. \A p \in Requests, q \in Objs \cup {NULL} : Sent(p, q)' <=> Sent(p, q) \/ (p = "lock" /\ q = o)
    BY <1>t, <2>2, SendAdds
  <2>6. OwnsLive'
    BY <1>t, <2>1, ConstantsAssumption DEF HandleInv, OwnsLive, LockTypes
  <2>7. WireMatchesProxy'
    <3> SUFFICES ASSUME NEW q \in Objs
                 PROVE /\ proxy'[q] = "none" => \A op \in Requests : ~Sent(op, q)'
                       /\ proxy'[q] = "live" => ~Sent("destroy", q)' /\ ~Sent("unlock_and_destroy", q)'
                       /\ ~Sent("sync", q)'
      BY DEF WireMatchesProxy
    <3>1. CASE q = o
      BY <1>t, <2>1, <2>3, <2>5, <3>1 DEF LockTypes, Requests
    <3>2. CASE q # o
      BY <1>t, <2>1, <2>5, <3>2 DEF HandleInv, WireMatchesProxy, LockTypes, Requests
    <3> QED BY <3>1, <3>2
  <2> QED BY <1>t, <2>4, <2>6, <2>7 DEF HandleInv
<1>5. ASSUME NEW l \in Locks, NEW op \in {"destroy", "unlock_and_destroy"}, SendDestructor(op, l)
      PROVE HandleInv'
  <2>1. CASE lockObj[l] = NULL
    BY <1>1, <1>5, <2>1 DEF SendDestructor, proxyVars
  <2>2. CASE lockObj[l] # NULL
    <3> DEFINE o == lockObj[l]
    <3>1. /\ o \in Objs /\ proxy[o] = "live" /\ listener[o] = l
          /\ proxy' = [proxy EXCEPT ![o] = "destroyed"] /\ listener' = listener
          /\ lockObj' = [lockObj EXCEPT ![l] = NULL]
          /\ toServer' = Append(toServer, Msg(op, o))
          /\ op \in Requests /\ op # "lock"
      BY <1>t, <1>5, <2>2 DEF SendDestructor, Send, HandleInv, OwnsLive, LockTypes, Requests
    <3>2. \A p \in Requests : Sent(p, o) => p = "lock"
      BY <3>1 DEF HandleInv, WireMatchesProxy, Requests
    <3>3. Ordered'
      BY <1>t, <3>1, <3>2, SendOrdered DEF HandleInv
    <3>4. \A p \in Requests, q \in Objs \cup {NULL} : Sent(p, q)' <=> Sent(p, q) \/ (p = op /\ q = o)
      BY <1>t, <3>1, SendAdds
    <3>5. OwnsLive'
      BY <1>t, <3>1 DEF HandleInv, OwnsLive, LockTypes
    <3>6. WireMatchesProxy'
      <4> SUFFICES ASSUME NEW q \in Objs
                   PROVE /\ proxy'[q] = "none" => \A p \in Requests : ~Sent(p, q)'
                         /\ proxy'[q] = "live" => ~Sent("destroy", q)' /\ ~Sent("unlock_and_destroy", q)'
                         /\ ~Sent("sync", q)'
        BY DEF WireMatchesProxy
      <4>1. CASE q = o
        BY <1>t, <3>1, <3>4, <4>1 DEF HandleInv, WireMatchesProxy, LockTypes, Requests
      <4>2. CASE q # o
        BY <1>t, <3>1, <3>4, <4>2 DEF HandleInv, WireMatchesProxy, LockTypes, Requests
      <4> QED BY <4>1, <4>2
    <3> QED BY <1>t, <3>3, <3>5, <3>6 DEF HandleInv
  <2> QED BY <2>1, <2>2
<1>6. CASE Sync
  <2>1. /\ toServer' = Append(toServer, Msg("sync", NULL)) /\ "sync" \in Requests
        /\ UNCHANGED proxyVars /\ lockObj' = lockObj
    BY <1>6 DEF Sync, Requests, appVars
  <2>2. Ordered'
    BY <1>t, <2>1, SendOrdered DEF HandleInv
  <2>3. \A p \in Requests, q \in Objs : Sent(p, q)' <=> Sent(p, q)
    BY <1>t, <2>1, SendAdds, ConstantsAssumption
  <2> QED BY <1>t, <2>1, <2>2, <2>3 DEF HandleInv, OwnsLive, WireMatchesProxy, proxyVars, Requests
<1>7. CASE AnyApp
  <2>1. ASSUME NEW l \in Locks, PrepareLock(l) \/ Unref(l) PROVE HandleInv'
    BY <1>1, <2>1 DEF PrepareLock, Unref, queueVars
  <2>2. CASE Exit \/ Crash
    BY <1>1, <2>2 DEF Exit, Crash, queueVars, appVars
  <2> QED BY <1>4, <1>5, <1>6, <1>7, <2>1, <2>2 DEF AnyApp, Destroy, UnlockAndDestroy
<1>8. CASE Dispatch
  BY <1>1, <1>8 DEF Dispatch, HandleDone, HandleLocked, HandleFinished, appVars
<1>9. CASE Compositor
  <2>1. CASE HandleSync
    BY <1>2, <2>1 DEF HandleSync, Requests, appVars
  <2>2. ASSUME NEW o \in Objs, Grant(o) \/ Deny(o) PROVE HandleInv'
    BY <1>2, <2>2 DEF Grant, Deny, Requests, appVars
  <2>3. ASSUME NEW err, PostError(err) PROVE HandleInv'
    BY <1>3, <2>3 DEF PostError, appVars
  <2>4. ASSUME NEW o \in Objs, HandleDestroy(o) PROVE HandleInv'
    BY <1>2, <2>3, <2>4 DEF HandleDestroy, Requests, appVars
  <2>5. ASSUME NEW o \in Objs, HandleUnlock(o) PROVE HandleInv'
    BY <1>2, <2>3, <2>5 DEF HandleUnlock, Requests, appVars
  <2>6. CASE Hangup
    BY <1>3, <2>6 DEF Hangup, appVars
  <2>7. CASE OtherLocks \/ OtherUnlocks
    BY <1>1, <2>7 DEF OtherLocks, OtherUnlocks, appVars, queueVars
  <2>8. ASSUME NEW o \in Objs, Revoke(o) PROVE HandleInv'
    BY <1>1, <2>8 DEF Revoke, appVars
  <2> QED BY <1>9, <2>1, <2>2, <2>4, <2>5, <2>6, <2>7, <2>8 DEF Compositor, Serve
<1>10. CASE UNCHANGED vars
  BY <1>1, <1>10 DEF vars, appVars, queueVars
<1> QED BY <1>7, <1>8, <1>9, <1>10 DEF AnyNext

(* The handles of session-lock.c never dangle and never cross, and no      *)
(* request follows a destructor, whatever the application calls.           *)
THEOREM HandlesAreSound == AnySpec => []HandleIntegrity
<1>1. TypeOK /\ HandleInv => HandleIntegrity
  <2> SUFFICES ASSUME TypeOK, HandleInv, NEW i \in 1..Len(toServer), NEW j \in 1..Len(toServer),
                      i < j, toServer[i].obj = toServer[j].obj, toServer[i].obj # NULL
               PROVE  toServer[i].op = "lock" /\ toServer[j].op # "lock"
    BY DEF HandleIntegrity, HandleInv, OwnsLive
  <2>1. toServer[i] \in Messages(Requests) /\ toServer[j] \in Messages(Requests)
    BY DEF TypeOK
  <2>2. PICK p \in Requests, q \in Requests, o \in Objs : toServer[i] = Msg(p, o) /\ toServer[j] = Msg(q, o)
    BY <2>1 DEF Messages, Msg
  <2> QED BY <2>2, MsgFields DEF HandleInv, Ordered
<1>2. AnySpec => []HandleInv
  BY HandleInit, HandleStep, PTL DEF AnySpec
<1> QED
  BY <1>1, <1>2, TypeCorrect, PTL
-----------------------------------------------------------------------------
(***************************************************************************)
(* The safety properties of a documented application (Spec), ...           *)
(* for every set of locks and of protocol objects.                         *)
(*                                                                         *)
(* None of them is inductive: whether a request is legal depends on what   *)
(* the compositor has decided, which the application only learns from      *)
(* events that may still be on the wire.  LockInv says how the three       *)
(* agree: what was signalled, what is on its way in either direction, and  *)
(* the compositor's record of the object.                                  *)
(***************************************************************************)

(* A lock has one protocol object, and a live object has its lock.         *)
Ownership ==
    /\ \A o \in Objs : proxy[o] = "none" <=> listener[o] = NULL
    /\ \A o, p \in Objs : listener[o] = listener[p] /\ listener[o] # NULL => o = p
    /\ \A o \in Objs : proxy[o] = "live" => lockObj[listener[o]] = o
    /\ \A l \in Locks : lockObj[l] # NULL => gobj[l] = "live"
    /\ \A l \in Locks : signals[l] # {} => \E o \in Objs : listener[o] = l

(* Events on one object are locked, then finished, each at most once; and  *)
(* at most one answer to a sync is on its way.                             *)
EventsOrdered ==
    \A i, j \in 1..Len(toClient), p, q \in Events, o \in Objs \cup {NULL} :
        i < j /\ toClient[i] = Msg(p, o) /\ toClient[j] = Msg(q, o)
        => p = "locked" /\ q = "finished"

(* The compositor's record, against the requests and events on the wire.   *)
RecordMatchesWire(o) ==
    /\ proxy[o] = "none" => res[o] = "none"
    /\ proxy[o] = "destroyed" => res[o] # "none"
    /\ res[o] = "none" => \A ev \in Events : ~Posted(ev, o)
    /\ Sent("lock", o) => res[o] = "none"
    /\ Sent("destroy", o) => res[o] = "denied"
    /\ Sent("unlock_and_destroy", o) => res[o] \in {"locked", "revoked"}
    /\ Posted("locked", o) => res[o] \in {"locked", "revoked", "gone"}
    /\ Posted("finished", o) => res[o] \in {"denied", "revoked", "gone"}
    /\ ~Posted("done", o)
    /\ res[o] = "gone" => proxy[o] = "destroyed"
    /\ res[o] # "stranded"
    /\ res[o] = "locked" /\ proxy[o] = "destroyed" => Sent("unlock_and_destroy", o)
    /\ res[o] = "none" /\ proxy[o] = "live" => Sent("lock", o)

(* The signals of a lock, against the record of its live object.           *)
SignalsMatchRecord(o) ==
    proxy[o] = "live" =>
        LET sig == signals[listener[o]] IN
        /\ "locked" \in sig => res[o] \in {"locked", "revoked"} /\ ~Posted("locked", o)
        /\ "finished" \in sig => \A ev \in Events : ~Posted(ev, o)
        /\ "finished" \in sig => res[o] = IF "locked" \in sig THEN "revoked" ELSE "denied"
        /\ res[o] \in {"locked", "revoked"} => "locked" \in sig \/ Posted("locked", o)
        /\ res[o] \in {"denied", "revoked"} => "finished" \in sig \/ Posted("finished", o)

ObjectsAgree == connected => \A o \in Objs : RecordMatchesWire(o) /\ SignalsMatchRecord(o)

HolderMatchesRecord ==
    /\ connected => \A o \in Objs : res[o] = "locked" <=> holder = o
    /\ ~connected => holder \notin Objs /\ ~Alive
    /\ holder # NULL => session = "locked"

(* No request on a lock follows a sync until it is answered, so that the   *)
(* application is told when all it sent on its locks has been read.        *)
SyncLast ==
    \A i, j \in 1..Len(toServer), p \in Requests, o \in Objs \cup {NULL} :
        toServer[i] = Msg("sync", NULL) /\ toServer[j] = Msg(p, o) => j <= i

Silent == \A p \in Requests, o \in Objs \cup {NULL} : ~Sent(p, o)

SyncInv ==
    /\ SyncLast
    /\ MayCall => ~Sent("sync", NULL) /\ ~Posted("done", NULL)
    /\ Posted("done", NULL) => Silent
    /\ client \in {"synced", "exited"} => Silent
    /\ client = "syncing" => Sent("sync", NULL) \/ Posted("done", NULL)

Ending ==
    /\ client = "exited" => \A l \in Locks : lockObj[l] = NULL
    /\ (\E o \in Objs : res[o] = "stranded") => client = "crashed"
    /\ perr = NULL /\ client # "killed"

(* Only the answer to a sync is addressed to nobody.                       *)
EventsAddressed == \A ev \in {"locked", "finished"} : ~Posted(ev, NULL)

WireInv == HandleInv /\ EventsAddressed

LockInv ==
    /\ WireInv /\ Ownership /\ EventsOrdered /\ ObjectsAgree
    /\ HolderMatchesRecord /\ SyncInv /\ Ending

-----------------------------------------------------------------------------
(* What a step on the wire does to the invariant's parts.                  *)

LEMMA SameWires ==
    /\ toServer' = toServer => /\ \A p, q : Sent(p, q)' <=> Sent(p, q)
                               /\ SyncLast' <=> SyncLast
                               /\ Silent' <=> Silent
    /\ toClient' = toClient => /\ \A p, q : Posted(p, q)' <=> Posted(p, q)
                               /\ EventsOrdered' <=> EventsOrdered
  BY DEF Sent, Posted, SyncLast, Silent, EventsOrdered

LEMMA PostOrdered ==
    ASSUME LockTypes, EventsOrdered, NEW ev \in Events, NEW o \in Objs \cup {NULL},
           toClient' = Append(toClient, Msg(ev, o)),
           \/ \A p \in Events : ~Posted(p, o)
           \/ ev = "finished" /\ \A p \in Events : Posted(p, o) => p = "locked"
    PROVE  EventsOrdered'
<1>1. /\ Len(toClient') = Len(toClient) + 1 /\ Len(toClient) \in Nat
      /\ \A i \in 1..Len(toClient) : toClient'[i] = toClient[i]
      /\ toClient'[Len(toClient) + 1] = Msg(ev, o)
  BY Posting
<1> SUFFICES ASSUME NEW i \in 1..Len(toClient'), NEW j \in 1..Len(toClient'), i < j,
                    NEW p \in Events, NEW q \in Events, NEW x \in Objs \cup {NULL},
                    toClient'[i] = Msg(p, x), toClient'[j] = Msg(q, x)
             PROVE  p = "locked" /\ q = "finished"
  BY DEF EventsOrdered
<1>2. CASE j \in 1..Len(toClient)
  BY <1>1, <1>2 DEF EventsOrdered
<1>3. CASE j = Len(toClient) + 1
  <2>1. i \in 1..Len(toClient) /\ toClient[i] = Msg(p, x) /\ q = ev /\ x = o
    BY <1>1, <1>3, MsgFields
  <2>2. Posted(p, o)
    BY <2>1 DEF Posted
  <2> QED BY <2>1, <2>2
<1> QED BY <1>1, <1>2, <1>3

LEMMA DispatchOrdered ==
    ASSUME LockTypes, EventsOrdered, NEW ev \in Events, NEW o \in Objs \cup {NULL}, Dispatching(ev, o)
    PROVE  /\ EventsOrdered'
           /\ ~Posted(ev, o)'
           /\ ev # "locked" => \A p \in Events : ~Posted(p, o)'
<1>1. /\ Len(toClient) \in Nat /\ Len(toClient) > 0 /\ Len(toClient') = Len(toClient) - 1
      /\ toClient[1] = Msg(ev, o)
      /\ \A i \in 1..Len(toClient) - 1 : toClient'[i] = toClient[i + 1]
  BY DispatchingFirst DEF Dispatching
<1>2. \A i \in 1..Len(toClient') : i + 1 \in 1..Len(toClient) /\ toClient'[i] = toClient[i + 1] /\ 1 < i + 1
  BY <1>1
<1>3. EventsOrdered'
  <2> SUFFICES ASSUME NEW i \in 1..Len(toClient'), NEW j \in 1..Len(toClient'), i < j,
                      NEW p \in Events, NEW q \in Events, NEW x \in Objs \cup {NULL},
                      toClient'[i] = Msg(p, x), toClient'[j] = Msg(q, x)
               PROVE  p = "locked" /\ q = "finished"
    BY DEF EventsOrdered
  <2>1. i + 1 < j + 1 /\ i + 1 \in 1..Len(toClient) /\ j + 1 \in 1..Len(toClient)
    BY <1>2
  <2>2. toClient[i + 1] = Msg(p, x) /\ toClient[j + 1] = Msg(q, x)
    BY <1>2
  <2>3. EventsOrdered
    BY <1>2
  <2> QED BY <2>1, <2>2, <2>3 DEF EventsOrdered
<1>4. ASSUME NEW p \in Events, Posted(p, o)' PROVE ev = "locked" /\ p = "finished"
  <2>1. PICK i \in 1..Len(toClient') : toClient'[i] = Msg(p, o)
    BY <1>4 DEF Posted
  <2>2. 1 < i + 1 /\ 1 \in 1..Len(toClient) /\ i + 1 \in 1..Len(toClient) /\ toClient[i + 1] = Msg(p, o)
    BY <1>1, <1>2, <2>1
  <2> QED BY <1>1, <2>2, MsgFields DEF EventsOrdered
<1> QED BY <1>3, <1>4

(* Reading keeps a sync last; once it is read nothing is left.             *)
LEMMA ReadSyncLast ==
    ASSUME LockTypes, SyncInv, NEW op \in Requests, NEW o \in Objs \cup {NULL}, Reading(op, o)
    PROVE  /\ SyncLast'
           /\ op = "sync" /\ o = NULL => Silent'
           /\ ~Posted("done", NULL) /\ client \notin {"synced", "exited"}
<1>1. /\ Len(toServer) \in Nat /\ Len(toServer) > 0 /\ Len(toServer') = Len(toServer) - 1
      /\ toServer[1] = Msg(op, o)
      /\ \A i \in 1..Len(toServer) - 1 : toServer'[i] = toServer[i + 1]
  BY TakingFirst DEF Reading, Arrived
<1>2. \A i \in 1..Len(toServer') : i + 1 \in 1..Len(toServer) /\ toServer'[i] = toServer[i + 1] /\ i \in Nat
  BY <1>1
<1>3. SyncLast'
  <2> SUFFICES ASSUME NEW i \in 1..Len(toServer'), NEW j \in 1..Len(toServer'),
                      NEW p \in Requests, NEW x \in Objs \cup {NULL},
                      toServer'[i] = Msg("sync", NULL), toServer'[j] = Msg(p, x)
               PROVE  j <= i
    BY DEF SyncLast
  <2>1. j + 1 <= i + 1
    BY <1>2 DEF SyncInv, SyncLast
  <2> QED BY <1>2, <2>1
<1>4. ASSUME op = "sync", o = NULL PROVE Silent'
  <2> SUFFICES ASSUME NEW p \in Requests, NEW x \in Objs \cup {NULL},
                      NEW j \in 1..Len(toServer'), toServer'[j] = Msg(p, x)
               PROVE  FALSE
    BY DEF Silent, Sent
  <2>1. 1 \in 1..Len(toServer) /\ j + 1 \in 1..Len(toServer) /\ toServer[j + 1] = Msg(p, x)
    BY <1>1, <1>2
  <2>2. j + 1 <= 1
    BY <1>1, <1>4, <2>1 DEF SyncInv, SyncLast
  <2> QED BY <1>2, <2>2
<1>5. Sent(op, o)
  <2>1. 1 \in 1..Len(toServer)
    BY <1>1
  <2> QED BY <1>1, <2>1 DEF Sent
<1> QED BY <1>3, <1>4, <1>5 DEF SyncInv, Silent

LEMMA SendSyncLast ==
    ASSUME LockTypes, SyncInv, MayCall, NEW op \in Requests, NEW o \in Objs \cup {NULL},
           toServer' = Append(toServer, Msg(op, o))
    PROVE  SyncLast'
<1>1. /\ Len(toServer') = Len(toServer) + 1 /\ Len(toServer) \in Nat
      /\ \A i \in 1..Len(toServer) : toServer'[i] = toServer[i]
      /\ toServer'[Len(toServer) + 1] = Msg(op, o)
  BY Sending
<1>2. \A i \in 1..Len(toServer) : toServer[i] # Msg("sync", NULL)
  BY DEF SyncInv, Sent
<1>3. \A i \in 1..Len(toServer') : i \in 1..Len(toServer) \/ i = Len(toServer) + 1
  BY <1>1
<1> SUFFICES ASSUME NEW i \in 1..Len(toServer'), NEW j \in 1..Len(toServer'), toServer'[i] = Msg("sync", NULL)
             PROVE  j <= i
  BY DEF SyncLast
<1>4. i = Len(toServer) + 1
  BY <1>1, <1>2, <1>3
<1> QED BY <1>1, <1>4

(* An object that a step leaves alone still agrees with the compositor.    *)
LEMMA Frame ==
    ASSUME NEW q \in Objs, RecordMatchesWire(q), SignalsMatchRecord(q),
           proxy'[q] = proxy[q], res'[q] = res[q], listener'[q] = listener[q],
           proxy[q] = "live" => signals'[listener[q]] = signals[listener[q]],
           \A p \in Requests : Sent(p, q)' <=> Sent(p, q),
           \A p \in Events : Posted(p, q)' <=> Posted(p, q)
    PROVE  RecordMatchesWire(q)' /\ SignalsMatchRecord(q)'
<1>1. RecordMatchesWire(q)'
  BY DEF RecordMatchesWire, Requests, Events
<1>2. SignalsMatchRecord(q)'
  BY DEF SignalsMatchRecord, Requests, Events
<1> QED BY <1>1, <1>2

(* While the application runs, the connection stands.                      *)
LEMMA RunningIsConnected ==
    LockInv /\ (Alive \/ MayCall) => connected /\ Alive /\ ObjectsAgree /\ LockTypes /\ client \notin Dead
  BY DEF LockInv, HolderMatchesRecord, Alive, MayCall, WireInv, HandleInv, Dead, LockTypes


-----------------------------------------------------------------------------
LEMMA LockInit == Init => LockInv
<1> SUFFICES ASSUME Init PROVE LockInv
  OBVIOUS
<1> USE ConstantsAssumption
<1>1. \A p, q : ~Sent(p, q) /\ ~Posted(p, q)
  BY DEF Init, Sent, Posted
<1>2. WireInv
  BY <1>1, HandleInit DEF WireInv, EventsAddressed
<1>3. Ownership
  BY DEF Init, Ownership
<1>4. EventsOrdered /\ SyncLast
  BY DEF Init, EventsOrdered, SyncLast
<1>5. ObjectsAgree
  BY <1>1 DEF Init, ObjectsAgree, RecordMatchesWire, SignalsMatchRecord
<1>6. HolderMatchesRecord
  BY DEF Init, HolderMatchesRecord
<1>7. SyncInv
  BY <1>1, <1>4 DEF Init, SyncInv
<1>8. Ending
  BY DEF Init, Ending
<1> QED BY <1>2, <1>3, <1>4, <1>5, <1>6, <1>7, <1>8 DEF LockInv

(* A step that touches neither wire nor objects.                           *)
LEMMA QuietStep ==
    ASSUME LockInv, WireInv', Ownership', SyncInv', Ending',
           UNCHANGED <<proxyVars, queueVars, connected, res, signals>>,
           HolderMatchesRecord'
    PROVE  LockInv'
<1> USE DEF proxyVars, queueVars
<1>1. EventsOrdered'
  BY SameWires DEF LockInv
<1>2. ObjectsAgree'
  <2> SUFFICES ASSUME connected, NEW q \in Objs
               PROVE  RecordMatchesWire(q)' /\ SignalsMatchRecord(q)'
    BY DEF ObjectsAgree
  <2>1. RecordMatchesWire(q) /\ SignalsMatchRecord(q)
    BY DEF LockInv, ObjectsAgree
  <2> QED BY <2>1, Frame, SameWires
<1> QED BY <1>1, <1>2 DEF LockInv

(* lock() on a lock that was never locked.                                 *)
LEMMA LockKeepsInv ==
    ASSUME LockInv, WireInv', NEW l \in Locks, Unused(l), Lock(l)
    PROVE  LockInv'
<1> USE ConstantsAssumption
<1>a. LockInv /\ MayCall /\ connected /\ Alive /\ ObjectsAgree /\ LockTypes /\ client \notin Dead
  BY RunningIsConnected DEF Lock
<1>1. PICK o \in Objs : /\ proxy[o] = "none"
                        /\ lockObj' = [lockObj EXCEPT ![l] = o]
                        /\ proxy' = [proxy EXCEPT ![o] = "live"]
                        /\ listener' = [listener EXCEPT ![o] = l]
                        /\ Send("lock", o)
  BY DEF Lock
<1>2. /\ gobj' = gobj /\ signals' = signals /\ toClient' = toClient
      /\ connected' = connected /\ res' = res /\ session' = session /\ holder' = holder /\ perr' = perr
      /\ toServer' = Append(toServer, Msg("lock", o)) /\ client' = "running" /\ "lock" \in Requests
      /\ gobj[l] = "live" /\ lockObj[l] = NULL /\ \A q \in Objs : listener[q] # l
  BY <1>1 DEF Lock, Send, serverVars, Requests, Unused
<1>3. \A p \in Requests, q \in Objs \cup {NULL} : Sent(p, q)' <=> Sent(p, q) \/ (p = "lock" /\ q = o)
  BY <1>a, <1>2, SendAdds
<1>4. (\A p, q : Posted(p, q)' <=> Posted(p, q)) /\ EventsOrdered'
  BY <1>2, SameWires DEF LockInv
<1>5. \A p \in Requests : ~Sent(p, o)
  BY <1>1 DEF LockInv, WireInv, HandleInv, WireMatchesProxy
<1>6. Ownership'
  <2>1. /\ proxy \in [Objs -> {"none", "live", "destroyed"}] /\ listener \in [Objs -> Locks \cup {NULL}]
        /\ lockObj \in [Locks -> Objs \cup {NULL}]
    BY <1>a DEF LockTypes
  <2> QED BY <1>1, <1>2, <2>1 DEF LockInv, Ownership
<1>7. ObjectsAgree'
  <2> SUFFICES ASSUME NEW q \in Objs PROVE RecordMatchesWire(q)' /\ SignalsMatchRecord(q)'
    BY DEF ObjectsAgree
  <2>0. RecordMatchesWire(q) /\ SignalsMatchRecord(q)
    BY <1>a DEF ObjectsAgree
  <2>1. CASE q # o
    <3>1. proxy'[q] = proxy[q] /\ listener'[q] = listener[q]
      BY <1>a, <1>1, <2>1 DEF LockTypes
    <3> QED BY <1>2, <1>3, <1>4, <2>0, <2>1, <3>1, Frame
  <2>2. CASE q = o
    <3>1. proxy'[o] = "live" /\ listener'[o] = l /\ signals'[l] = {} /\ res'[o] = "none" /\ res[o] = "none"
      BY <1>a, <1>1, <1>2, <2>0, <2>2 DEF LockInv, Ownership, RecordMatchesWire, LockTypes
    <3>2. \A p \in Events : ~Posted(p, o)'
      BY <1>4, <2>0, <2>2, <3>1 DEF RecordMatchesWire
    <3>3. RecordMatchesWire(o)'
      BY <1>3, <1>5, <3>1, <3>2 DEF RecordMatchesWire, Requests, Events
    <3>4. SignalsMatchRecord(o)'
      BY <3>1 DEF SignalsMatchRecord
    <3> QED BY <2>2, <3>3, <3>4
  <2> QED BY <2>1, <2>2
<1>8. HolderMatchesRecord'
  BY <1>a, <1>2 DEF LockInv, HolderMatchesRecord
<1>9. SyncInv'
  <2>1. SyncLast'
    BY <1>a, <1>2, SendSyncLast DEF LockInv
  <2>2. ~Sent("sync", NULL)' /\ ~Posted("done", NULL)'
    BY <1>a, <1>3, <1>4 DEF LockInv, SyncInv, Requests
  <2> QED BY <1>2, <2>1, <2>2 DEF SyncInv
<1>10. Ending'
  BY <1>a, <1>2 DEF LockInv, Ending, MayCall
<1> QED BY <1>4, <1>6, <1>7, <1>8, <1>9, <1>10 DEF LockInv

(* A destructor that the compositor's record of the object allows.         *)
LEMMA DestructorKeepsInv ==
    ASSUME LockInv, WireInv', NEW l \in Locks, NEW op \in {"destroy", "unlock_and_destroy"},
           SendDestructor(op, l),
           lockObj[l] # NULL =>
               res[lockObj[l]] \in IF op = "destroy" THEN {"denied"} ELSE {"locked", "revoked"}
    PROVE  LockInv'
<1> USE ConstantsAssumption
<1>a. LockInv /\ MayCall /\ connected /\ Alive /\ ObjectsAgree /\ LockTypes /\ client \notin Dead
  BY RunningIsConnected DEF SendDestructor
<1>0. CASE lockObj[l] = NULL
  <2>1. UNCHANGED vars
    BY <1>0 DEF SendDestructor, vars, appVars, proxyVars, queueVars
  <2> QED BY <2>1, QuietStep, SameWires DEF LockInv, Ownership, SyncInv, Ending, HolderMatchesRecord,
             vars, appVars, serverVars, proxyVars, queueVars, MayCall, Alive
<1>1. CASE lockObj[l] # NULL
  <2>1. PICK o \in Objs :
        /\ lockObj[l] = o /\ o # NULL /\ proxy[o] = "live" /\ listener[o] = l
        /\ res[o] \in IF op = "destroy" THEN {"denied"} ELSE {"locked", "revoked"}
    BY <1>a, <1>1 DEF LockInv, WireInv, HandleInv, OwnsLive, LockTypes
  <2>2. /\ lockObj' = [lockObj EXCEPT ![l] = NULL] /\ proxy' = [proxy EXCEPT ![o] = "destroyed"]
        /\ listener' = listener /\ gobj' = gobj /\ signals' = signals /\ toClient' = toClient
        /\ connected' = connected /\ res' = res /\ session' = session /\ holder' = holder /\ perr' = perr
        /\ toServer' = Append(toServer, Msg(op, o)) /\ client' = "running" /\ op \in Requests
    BY <1>1, <2>1 DEF SendDestructor, Send, serverVars, Requests
  <2>3. \A p \in Requests, q \in Objs \cup {NULL} : Sent(p, q)' <=> Sent(p, q) \/ (p = op /\ q = o)
    BY <1>a, <2>1, <2>2, SendAdds
  <2>4. (\A p, q : Posted(p, q)' <=> Posted(p, q)) /\ EventsOrdered'
    BY <2>2, SameWires DEF LockInv
  <2>5. ~Sent("destroy", o) /\ ~Sent("unlock_and_destroy", o)
    BY <2>1 DEF LockInv, WireInv, HandleInv, WireMatchesProxy
  <2>6. Ownership'
    <3>1. \A q \in Objs : proxy'[q] = "live" => proxy[q] = "live" /\ q # o
      BY <1>a, <2>1, <2>2 DEF LockTypes
    <3>2. \A q \in Objs : proxy'[q] = "live" => listener[q] # l
      BY <2>1, <3>1, <1>a DEF LockInv, Ownership
    <3>3. \A q \in Objs : proxy'[q] = "none" <=> proxy[q] = "none"
      BY <1>a, <2>1, <2>2 DEF LockTypes
    <3>4. \A q \in Objs : proxy'[q] = "live" => listener[q] \in Locks /\ lockObj'[listener[q]] = q
      BY <1>a, <2>2, <3>1, <3>2 DEF LockInv, Ownership, LockTypes
    <3>5. \A k \in Locks : lockObj'[k] # NULL => lockObj[k] # NULL
      BY <1>a, <2>2 DEF LockTypes
    <3> QED BY <2>2, <3>3, <3>4, <3>5 DEF LockInv, Ownership
  <2>7. ObjectsAgree'
    <3> SUFFICES ASSUME NEW q \in Objs PROVE RecordMatchesWire(q)' /\ SignalsMatchRecord(q)'
      BY DEF ObjectsAgree
    <3>0. RecordMatchesWire(q) /\ SignalsMatchRecord(q)
      BY <1>a DEF ObjectsAgree
    <3>1. CASE q # o
      <4>1. proxy'[q] = proxy[q]
        BY <1>a, <2>2, <3>1 DEF LockTypes
      <4> QED BY <2>2, <2>3, <2>4, <3>0, <3>1, <4>1, Frame
    <3>2. CASE q = o
      <4>1. proxy'[o] = "destroyed" /\ res'[o] = res[o]
        BY <1>a, <2>1, <2>2 DEF LockTypes
      <4>2. RecordMatchesWire(o)'
        BY <2>1, <2>3, <2>4, <2>5, <3>0, <3>2, <4>1 DEF RecordMatchesWire, Requests, Events
      <4>3. SignalsMatchRecord(o)'
        BY <4>1 DEF SignalsMatchRecord
      <4> QED BY <3>2, <4>2, <4>3
    <3> QED BY <3>1, <3>2
  <2>8. HolderMatchesRecord'
    BY <1>a, <2>2 DEF LockInv, HolderMatchesRecord
  <2>9. SyncInv'
    <3>1. SyncLast'
      BY <1>a, <2>1, <2>2, SendSyncLast DEF LockInv
    <3>2. ~Sent("sync", NULL)' /\ ~Posted("done", NULL)'
      BY <1>a, <2>1, <2>3, <2>4 DEF LockInv, SyncInv, Requests
    <3> QED BY <2>2, <3>1, <3>2 DEF SyncInv
  <2>10. Ending'
    BY <1>a, <2>2 DEF LockInv, Ending, MayCall
  <2> QED BY <2>4, <2>6, <2>7, <2>8, <2>9, <2>10 DEF LockInv
<1> QED BY <1>0, <1>1

LEMMA SyncKeepsInv == LockInv /\ WireInv' /\ Sync => LockInv'
<1> SUFFICES ASSUME LockInv, WireInv', Sync PROVE LockInv'
  OBVIOUS
<1> USE ConstantsAssumption
<1>a. LockInv /\ MayCall /\ connected /\ Alive /\ ObjectsAgree /\ LockTypes /\ client \notin Dead
  BY RunningIsConnected DEF Sync
<1>1. /\ toServer' = Append(toServer, Msg("sync", NULL)) /\ "sync" \in Requests /\ client' = "syncing"
      /\ UNCHANGED <<gobj, lockObj, signals, proxy, listener, toClient, connected, res, session, holder, perr>>
  BY DEF Sync, Requests, appVars, proxyVars, serverVars
<1>2. \A p \in Requests, q \in Objs : Sent(p, q)' <=> Sent(p, q)
  BY <1>a, <1>1, SendAdds
<1>3. (\A p, q : Posted(p, q)' <=> Posted(p, q)) /\ EventsOrdered'
  BY <1>1, SameWires DEF LockInv
<1>4. Ownership' /\ Ending' /\ HolderMatchesRecord'
  BY <1>a, <1>1 DEF LockInv, Ownership, Ending, HolderMatchesRecord, MayCall
<1>5. ObjectsAgree'
  <2> SUFFICES ASSUME NEW q \in Objs PROVE RecordMatchesWire(q)' /\ SignalsMatchRecord(q)'
    BY DEF ObjectsAgree
  <2> QED BY <1>a, <1>1, <1>2, <1>3, Frame DEF ObjectsAgree
<1>6. SyncLast'
  BY <1>a, <1>1, SendSyncLast DEF LockInv
<1>7. ~Posted("done", NULL)'
  BY <1>a, <1>3 DEF LockInv, SyncInv
<1>8. SyncInv'
  <2>1. Sent("sync", NULL)'
    BY <1>a, <1>1, SendAdds
  <2> QED BY <1>1, <1>6, <1>7, <2>1 DEF SyncInv, MayCall
<1> QED BY <1>3, <1>4, <1>5, <1>8 DEF LockInv

(* The other steps of a documented application.                            *)
LEMMA OtherCallsKeepInv ==
    ASSUME LockInv, WireInv',
           \/ \E l \in Locks : PrepareLock(l) \/ (lockObj[l] = NULL /\ Unref(l))
           \/ MayExit /\ Exit
           \/ Crash
    PROVE  LockInv'
<1> USE ConstantsAssumption
<1>a. LockInv /\ connected /\ Alive /\ ObjectsAgree /\ LockTypes /\ client \notin Dead
  BY RunningIsConnected DEF PrepareLock, Unref, Exit, Crash
<1>1. UNCHANGED <<proxy, listener, toServer, toClient, connected, res, signals, session, holder, perr>>
  BY DEF PrepareLock, Unref, Exit, Crash, appVars, proxyVars, queueVars, serverVars
<1>2. /\ lockObj' = lockObj \/ \E l \in Locks : lockObj[l] = NULL /\ lockObj' = [lockObj EXCEPT ![l] = NULL]
      /\ \/ gobj' = gobj
         \/ \E l \in Locks : gobj[l] = "none" /\ gobj' = [gobj EXCEPT ![l] = "live"]
         \/ \E l \in Locks : lockObj[l] = NULL /\ gobj' = [gobj EXCEPT ![l] = "freed"]
      /\ \/ client' = client
         \/ client' = "exited" /\ client = "synced" /\ lockObj' = lockObj
            /\ \A l \in Locks : lockObj[l] = NULL
         \/ client' = "crashed"
  BY DEF PrepareLock, Unref, Exit, Crash, MayExit, appVars
<1>3. lockObj' = lockObj
  BY <1>a, <1>2 DEF LockTypes
<1>4. \A l \in Locks : lockObj[l] # NULL => gobj'[l] = "live"
  BY <1>a, <1>2 DEF LockInv, Ownership, LockTypes
<1>5. Ownership'
  BY <1>1, <1>3, <1>4 DEF LockInv, Ownership
<1>6. HolderMatchesRecord' /\ Ending'
  BY <1>a, <1>1, <1>2, <1>3 DEF LockInv, HolderMatchesRecord, Ending, Dead
<1>7. SyncInv'
  <2>1. SyncLast' /\ (MayCall' => MayCall) /\ toServer' = toServer
    BY <1>1, <1>2, SameWires DEF LockInv, SyncInv, MayCall
  <2>2. /\ client' \in {"synced", "exited"} => client \in {"synced", "exited"}
        /\ client' = "syncing" => client = "syncing"
    BY <1>2
  <2> QED BY <1>1, <2>1, <2>2, SameWires DEF LockInv, SyncInv
<1> QED BY <1>1, <1>5, <1>6, <1>7, QuietStep DEF proxyVars, queueVars

-----------------------------------------------------------------------------
(* Dispatched events.                                                      *)

LEMMA DoneKeepsInv == LockInv /\ WireInv' /\ HandleDone => LockInv'
<1> SUFFICES ASSUME LockInv, WireInv', HandleDone PROVE LockInv'
  OBVIOUS
<1> USE ConstantsAssumption
<1>a. LockInv /\ connected /\ Alive /\ ObjectsAgree /\ LockTypes /\ client \notin Dead
  BY RunningIsConnected DEF HandleDone, Dispatching
<1>1. /\ Dispatching("done", NULL) /\ "done" \in Events /\ client' = "synced"
      /\ UNCHANGED <<gobj, lockObj, signals, proxy, listener, toServer, connected, res, session, holder, perr>>
  BY DEF HandleDone, Events, appVars, proxyVars, serverVars
<1>2. /\ Posted("done", NULL)
      /\ \A p, q : Posted(p, q)' => Posted(p, q)
      /\ \A p, q : Posted(p, q) => Posted(p, q)' \/ (p = "done" /\ q = NULL)
  BY <1>a, <1>1, DispatchTakes
<1>3. EventsOrdered' /\ ~Posted("done", NULL)'
  BY <1>a, <1>1, DispatchOrdered DEF LockInv
<1>4. Ownership' /\ Ending' /\ HolderMatchesRecord'
  BY <1>a, <1>1 DEF LockInv, Ownership, Ending, HolderMatchesRecord, Alive
<1>5. ObjectsAgree'
  <2> SUFFICES ASSUME NEW q \in Objs PROVE RecordMatchesWire(q)' /\ SignalsMatchRecord(q)'
    BY DEF ObjectsAgree
  <2>1. \A p \in Events : Posted(p, q)' <=> Posted(p, q)
    BY <1>2
  <2> QED BY <1>a, <1>1, <2>1, SameWires, Frame DEF ObjectsAgree
<1>6. Silent /\ Silent' /\ SyncLast'
  BY <1>a, <1>1, <1>2, SameWires DEF LockInv, SyncInv
<1>7. SyncInv'
  <2>1. ~Sent("sync", NULL)'
    BY <1>6 DEF Silent, Requests
  <2> QED BY <1>1, <1>3, <1>6, <2>1 DEF SyncInv
<1> QED BY <1>3, <1>4, <1>5, <1>7 DEF LockInv

(* What a lock tells is new, and comes before `finished'.                  *)
TellsNews ==
    \A l \in Locks : emitted'[l] # emitted[l] => "finished" \notin signals[l] /\ signals'[l] # signals[l]

LEMMA SignalKeepsInv ==
    ASSUME LockInv, WireInv', NEW o \in Objs, NEW ev \in {"locked", "finished"},
           Dispatching(ev, o), Emit(o, ev),
           UNCHANGED <<gobj, lockObj, proxyVars, toServer, serverVars>>
    PROVE  /\ LockInv'
           /\ TellsNews
<1> USE ConstantsAssumption
<1>a. LockInv /\ connected /\ Alive /\ ObjectsAgree /\ LockTypes /\ client \notin Dead
  BY RunningIsConnected DEF Dispatching
<1>1. /\ ev \in Events
      /\ UNCHANGED <<gobj, lockObj, proxy, listener, toServer, connected, res, session, holder, perr>>
  BY DEF Events, proxyVars, serverVars
<1>2. /\ Posted(ev, o)
      /\ \A p, q : Posted(p, q)' => Posted(p, q)
      /\ \A p, q : Posted(p, q) => Posted(p, q)' \/ (p = ev /\ q = o)
  BY <1>a, <1>1, DispatchTakes
<1>3. EventsOrdered' /\ ~Posted(ev, o)' /\ (ev # "locked" => \A p \in Events : ~Posted(p, o)')
  BY <1>a, <1>1, DispatchOrdered DEF LockInv
<1>4. \A p, q : Sent(p, q)' <=> Sent(p, q)
  BY <1>1, SameWires
<1>5. RecordMatchesWire(o) /\ SignalsMatchRecord(o)
  BY <1>a DEF ObjectsAgree
<1>6. \/ proxy[o] # "live" /\ signals' = signals /\ emitted' = emitted /\ client' = client
      \/ /\ proxy[o] = "live" /\ listener[o] \in Locks /\ client' = client
         /\ signals' = [signals EXCEPT ![listener[o]] = @ \cup {ev}]
         /\ emitted' = [emitted EXCEPT ![listener[o]] = @ + 1]
  <2>1. CASE proxy[o] = "live"
    <3>1. listener[o] \in Locks /\ lockObj[listener[o]] = o
      BY <1>a, <2>1 DEF LockInv, Ownership, LockTypes
    <3>2. gobj[listener[o]] = "live"
      BY <1>a, <3>1 DEF LockInv, Ownership
    <3> QED BY <2>1, <3>1, <3>2 DEF Emit
  <2>2. CASE proxy[o] # "live"
    BY <2>2 DEF Emit
  <2> QED BY <2>1, <2>2
<1>7. RecordMatchesWire(o)'
  BY <1>1, <1>2, <1>4, <1>5 DEF RecordMatchesWire
<1>8. SignalsMatchRecord(o)'
  <2> SUFFICES ASSUME proxy[o] = "live" PROVE SignalsMatchRecord(o)'
    BY <1>1 DEF SignalsMatchRecord
  <2>1. /\ signals'[listener[o]] = signals[listener[o]] \cup {ev}
        /\ listener'[o] = listener[o] /\ res'[o] = res[o] /\ "finished" \notin signals[listener[o]]
    BY <1>a, <1>1, <1>2, <1>5, <1>6 DEF SignalsMatchRecord, LockTypes
  <2>2. CASE ev = "locked"
    <3>1. res[o] \in {"locked", "revoked"} /\ ~Posted("locked", o)'
      BY <1>2, <1>3, <1>5, <2>2 DEF RecordMatchesWire
    <3>2. res[o] = "revoked" => Posted("finished", o)'
      BY <1>2, <1>5, <2>1, <2>2 DEF SignalsMatchRecord
    <3> QED BY <2>1, <2>2, <3>1, <3>2 DEF SignalsMatchRecord
  <2>3. CASE ev = "finished"
    <3>1. /\ res[o] \in {"denied", "revoked"} /\ ~Posted("locked", o)'
          /\ \A p \in Events : ~Posted(p, o)'
      <4>1. \A p \in Events : ~Posted(p, o)'
        BY <1>3, <2>3
      <4>2. res[o] \in {"denied", "revoked"}
        BY <1>2, <1>5, <2>3, <4>1 DEF RecordMatchesWire
      <4> QED BY <4>1, <4>2 DEF Events
    <3>2. "locked" \in signals[listener[o]] <=> res[o] = "revoked"
      BY <1>2, <1>5, <2>3, <3>1 DEF SignalsMatchRecord
    <3> QED BY <2>1, <2>3, <3>1, <3>2 DEF SignalsMatchRecord
  <2> QED BY <2>2, <2>3
<1>9. ObjectsAgree'
  <2> SUFFICES ASSUME NEW q \in Objs, q # o PROVE RecordMatchesWire(q)' /\ SignalsMatchRecord(q)'
    BY <1>7, <1>8 DEF ObjectsAgree
  <2>1. \A p \in Events : Posted(p, q)' <=> Posted(p, q)
    BY <1>2
  <2>2. proxy[q] = "live" => listener[q] \in Locks /\ listener[q] # listener[o]
    BY <1>a DEF LockInv, Ownership, LockTypes
  <2>3. proxy[q] = "live" => signals'[listener[q]] = signals[listener[q]]
    BY <1>a, <1>6, <2>2 DEF LockTypes
  <2> QED BY <1>a, <1>1, <1>4, <2>1, <2>3, Frame DEF ObjectsAgree
<1>10. \A l \in Locks : signals'[l] # {} => signals[l] # {} \/ l = listener[o]
  BY <1>a, <1>6 DEF LockTypes
<1>11. Ownership'
  BY <1>1, <1>10 DEF LockInv, Ownership
<1>12. HolderMatchesRecord' /\ Ending'
  BY <1>a, <1>1, <1>6 DEF LockInv, HolderMatchesRecord, Ending, Alive
<1>13. SyncInv'
  <2>1. SyncLast' /\ (Silent' <=> Silent) /\ (MayCall' <=> MayCall) /\ client' = client
    BY <1>1, <1>6, SameWires DEF LockInv, SyncInv, MayCall
  <2> QED BY <1>1, <1>2, <1>4, <2>1 DEF LockInv, SyncInv
<1>14. TellsNews
  <2> SUFFICES ASSUME NEW l \in Locks, emitted'[l] # emitted[l]
               PROVE  "finished" \notin signals[l] /\ signals'[l] # signals[l]
    BY DEF TellsNews
  <2>1. proxy[o] = "live" /\ l = listener[o] /\ signals'[l] = signals[l] \cup {ev}
    BY <1>a, <1>6 DEF LockTypes
  <2>2. ev \notin signals[l] /\ "finished" \notin signals[l]
    BY <1>1, <1>2, <1>5, <2>1 DEF SignalsMatchRecord
  <2> QED BY <2>1, <2>2
<1> QED BY <1>3, <1>9, <1>11, <1>12, <1>13, <1>14 DEF LockInv

-----------------------------------------------------------------------------
(* The compositor.                                                         *)

(* Where the requests that are due to be read come from.                   *)
LEMMA ArrivedIsSent ==
    ASSUME LockTypes, NEW op \in Requests, NEW o \in Objs \cup {NULL}, Arrived(Msg(op, o))
    PROVE  connected /\ Sent(op, o)
<1>1. Len(toServer) \in Nat /\ Len(toServer) > 0 /\ toServer[1] = Msg(op, o)
  BY TakingFirst DEF Arrived
<1>2. 1 \in 1..Len(toServer)
  BY <1>1
<1> QED BY <1>1, <1>2 DEF Arrived, Sent

(* A request on an object is read, and perhaps answered; the record of the *)
(* object changes with it.                                                 *)
LEMMA ReadKeepsInv ==
    ASSUME LockInv, WireInv', NEW op \in Requests, NEW o \in Objs, Reading(op, o),
           UNCHANGED <<appVars, proxyVars, client, connected, perr>>, HolderMatchesRecord',
           NEW r \in {"denied", "locked", "gone"}, res' = [res EXCEPT ![o] = r],
           EventsOrdered',
           \A p \in Events, q \in Objs \cup {NULL} : q # o => (Posted(p, q)' <=> Posted(p, q)),
           RecordMatchesWire(o)', SignalsMatchRecord(o)'
    PROVE  LockInv'
<1> USE ConstantsAssumption
<1>1. /\ LockInv /\ LockTypes /\ connected /\ ObjectsAgree /\ o # NULL
      /\ UNCHANGED <<gobj, lockObj, signals, proxy, listener, client, connected, perr>>
  BY DEF LockInv, WireInv, HandleInv, ObjectsAgree, Reading, Arrived, appVars, proxyVars
<1>2. /\ \A p, q : Sent(p, q)' => Sent(p, q)
      /\ \A p, q : Sent(p, q) => Sent(p, q)' \/ (p = op /\ q = o)
  BY <1>1, ReadTakes DEF LockInv, WireInv, HandleInv
<1>3. ObjectsAgree'
  <2> SUFFICES ASSUME NEW q \in Objs, q # o PROVE RecordMatchesWire(q)' /\ SignalsMatchRecord(q)'
    BY DEF ObjectsAgree
  <2>1. res'[q] = res[q]
    BY <1>1 DEF LockTypes
  <2>2. \A p \in Requests : Sent(p, q)' <=> Sent(p, q)
    BY <1>2
  <2> QED BY <1>1, <2>1, <2>2, Frame DEF ObjectsAgree
<1>4. Ownership'
  BY <1>1 DEF LockInv, Ownership
<1>5. Ending'
  <2>1. \A q \in Objs : res'[q] = "stranded" => res[q] = "stranded"
    BY <1>1 DEF LockTypes
  <2> QED BY <1>1, <2>1 DEF LockInv, Ending
<1>6. SyncInv'
  <2>1. SyncLast' /\ ~Posted("done", NULL) /\ client \notin {"synced", "exited"}
    BY <1>1, ReadSyncLast DEF LockInv
  <2>2. ~Posted("done", NULL)'
    BY <1>1, <2>1 DEF Events
  <2>3. MayCall' <=> MayCall
    BY <1>1 DEF MayCall
  <2> QED BY <1>1, <1>2, <2>1, <2>2, <2>3 DEF LockInv, SyncInv
<1> QED BY <1>3, <1>4, <1>5, <1>6 DEF LockInv

LEMMA AnswerKeepsInv ==
    ASSUME LockInv, WireInv', NEW o \in Objs, Grant(o) \/ Deny(o)
    PROVE  LockInv'
<1> USE ConstantsAssumption
<1>1. PICK ev \in {"locked", "finished"}, r \in {"denied", "locked"} :
        /\ ev = "locked" <=> r = "locked"
        /\ Reading("lock", o) /\ toClient' = Append(toClient, Msg(ev, o))
        /\ res' = [res EXCEPT ![o] = r]
        /\ \/ r = "locked" /\ holder = NULL /\ session' = "locked" /\ holder' = o
           \/ r = "denied" /\ UNCHANGED <<session, holder>>
        /\ UNCHANGED <<appVars, proxyVars, client, connected, perr>>
  BY DEF Grant, Deny
<1>2. /\ LockInv /\ LockTypes /\ connected /\ ObjectsAgree /\ o # NULL
      /\ ev \in Events /\ "lock" \in Requests
      /\ UNCHANGED <<gobj, lockObj, signals, proxy, listener, client, connected, perr>>
  BY <1>1 DEF LockInv, WireInv, HandleInv, ObjectsAgree, Reading, Arrived, appVars, proxyVars, Events, Requests
<1>3. /\ Sent("lock", o) /\ ~Sent("lock", o)'
      /\ \A p, q : Sent(p, q)' => Sent(p, q)
  BY <1>1, <1>2, ReadTakes DEF LockInv, WireInv, HandleInv
<1>4. RecordMatchesWire(o) /\ SignalsMatchRecord(o)
  BY <1>2 DEF ObjectsAgree
<1>5. /\ res[o] = "none" /\ proxy[o] = "live" /\ \A p \in Events : ~Posted(p, o)
      /\ ~Sent("destroy", o) /\ ~Sent("unlock_and_destroy", o)
  <2>1. proxy[o] # "none"
    BY <1>2, <1>3 DEF LockInv, WireInv, HandleInv, WireMatchesProxy
  <2>2. res[o] = "none" /\ proxy[o] # "destroyed"
    BY <1>3, <1>4 DEF RecordMatchesWire
  <2> QED BY <1>2, <1>4, <2>1, <2>2 DEF RecordMatchesWire, LockTypes
<1>6. \A p \in Events, q \in Objs \cup {NULL} : Posted(p, q)' <=> Posted(p, q) \/ (p = ev /\ q = o)
  BY <1>1, <1>2, PostAdds
<1>7. EventsOrdered'
  BY <1>1, <1>2, <1>5, PostOrdered DEF LockInv
<1>8. res'[o] = r
  BY <1>1, <1>2 DEF LockTypes
<1>9. RecordMatchesWire(o)'
  BY <1>1, <1>2, <1>3, <1>5, <1>6, <1>8 DEF RecordMatchesWire, Events
<1>10. SignalsMatchRecord(o)'
  <2>1. signals[listener[o]] \cap {"locked", "finished"} = {}
    BY <1>4, <1>5 DEF SignalsMatchRecord
  <2> QED BY <1>1, <1>2, <1>6, <1>8, <2>1 DEF SignalsMatchRecord, Events
<1>11. HolderMatchesRecord'
  <2>1. \A q \in Objs : res'[q] = "locked" <=> IF q = o THEN r = "locked" ELSE res[q] = "locked"
    BY <1>1, <1>2 DEF LockTypes
  <2> QED BY <1>1, <1>2, <1>5, <2>1 DEF LockInv, HolderMatchesRecord
<1> QED BY <1>1, <1>2, <1>6, <1>7, <1>9, <1>10, <1>11, ReadKeepsInv

(* The destructors are only read when they are legal, so they raise no     *)
(* protocol error.                                                         *)
LEMMA DestructorReadKeepsInv ==
    ASSUME LockInv, WireInv', NEW o \in Objs, HandleDestroy(o) \/ HandleUnlock(o)
    PROVE  LockInv'
<1> USE ConstantsAssumption
<1>1. LockInv /\ LockTypes /\ o # NULL /\ {"destroy", "unlock_and_destroy"} \subseteq Requests
  BY DEF LockInv, WireInv, HandleInv, Requests
<1>2. /\ Arrived(Msg("destroy", o)) => res[o] = "denied"
      /\ Arrived(Msg("unlock_and_destroy", o)) => res[o] \in {"locked", "revoked"}
  <2>1. \A op \in {"destroy", "unlock_and_destroy"} :
            Arrived(Msg(op, o)) => Sent(op, o) /\ RecordMatchesWire(o)
    BY <1>1, ArrivedIsSent DEF LockInv, ObjectsAgree
  <2> QED BY <2>1 DEF RecordMatchesWire
<1>3. PICK op \in {"destroy", "unlock_and_destroy"} :
        /\ Reading(op, o) /\ res' = [res EXCEPT ![o] = "gone"]
        /\ \/ res[o] = "locked" /\ session' = "open" /\ holder' = NULL
           \/ res[o] # "locked" /\ UNCHANGED <<session, holder>>
        /\ UNCHANGED <<appVars, proxyVars, client, toClient, connected, perr>>
  BY <1>2 DEF HandleDestroy, HandleUnlock, Reading
<1>4. /\ connected /\ ObjectsAgree /\ RecordMatchesWire(o)
      /\ UNCHANGED <<gobj, lockObj, signals, proxy, listener, client, connected, perr>>
  BY <1>1, <1>3 DEF LockInv, ObjectsAgree, Reading, Arrived, appVars, proxyVars
<1>5. Sent(op, o) /\ \A p \in Requests : ~Sent(p, o)'
  BY <1>1, <1>3, ReadTakes DEF LockInv, WireInv, HandleInv
<1>6. proxy[o] = "destroyed"
  BY <1>1, <1>5 DEF LockInv, WireInv, HandleInv, WireMatchesProxy, LockTypes
<1>7. (\A p, q : Posted(p, q)' <=> Posted(p, q)) /\ EventsOrdered'
  BY <1>3, SameWires DEF LockInv
<1>8. res'[o] = "gone"
  BY <1>1, <1>3 DEF LockTypes
<1>9. RecordMatchesWire(o)'
  BY <1>4, <1>5, <1>6, <1>7, <1>8 DEF RecordMatchesWire, Requests
<1>10. SignalsMatchRecord(o)'
  BY <1>4, <1>6 DEF SignalsMatchRecord
<1>11. HolderMatchesRecord'
  <2>1. \A q \in Objs : res'[q] = "locked" <=> q # o /\ res[q] = "locked"
    BY <1>1, <1>3 DEF LockTypes
  <2> QED BY <1>1, <1>3, <1>4, <2>1 DEF LockInv, HolderMatchesRecord
<1> QED BY <1>1, <1>3, <1>7, <1>9, <1>10, <1>11, ReadKeepsInv

LEMMA SyncReadKeepsInv == LockInv /\ WireInv' /\ HandleSync => LockInv'
<1> SUFFICES ASSUME LockInv, WireInv', HandleSync PROVE LockInv'
  OBVIOUS
<1> USE ConstantsAssumption
<1>1. /\ LockInv /\ LockTypes /\ connected /\ ObjectsAgree /\ "done" \in Events /\ "sync" \in Requests
      /\ Reading("sync", NULL) /\ toClient' = Append(toClient, Msg("done", NULL))
      /\ UNCHANGED <<gobj, lockObj, signals, proxy, listener, client, connected, res, session, holder, perr>>
  BY DEF LockInv, WireInv, HandleInv, ObjectsAgree, HandleSync, Reading, Arrived, Events, Requests,
         appVars, proxyVars, serverVars
<1>2. Silent' /\ ~Posted("done", NULL) /\ client \notin {"synced", "exited"} /\ Sent("sync", NULL)
  BY <1>1, ReadSyncLast, ReadTakes DEF LockInv
<1>3. /\ \A p, q : Sent(p, q)' => Sent(p, q)
      /\ \A p, q : Sent(p, q) => Sent(p, q)' \/ (p = "sync" /\ q = NULL)
  BY <1>1, ReadTakes
<1>4. \A p \in Events, q \in Objs \cup {NULL} : Posted(p, q)' <=> Posted(p, q) \/ (p = "done" /\ q = NULL)
  BY <1>1, PostAdds
<1>5. \A p \in Events : ~Posted(p, NULL)
  BY <1>1, <1>2 DEF LockInv, WireInv, EventsAddressed, Events
<1>6. EventsOrdered'
  BY <1>1, <1>5, PostOrdered DEF LockInv
<1>7. Ownership' /\ Ending' /\ HolderMatchesRecord'
  BY <1>1 DEF LockInv, Ownership, Ending, HolderMatchesRecord, Alive
<1>8. ObjectsAgree'
  <2> SUFFICES ASSUME NEW q \in Objs PROVE RecordMatchesWire(q)' /\ SignalsMatchRecord(q)'
    BY DEF ObjectsAgree
  <2>1. q # NULL /\ q \in Objs \cup {NULL}
    OBVIOUS
  <2>2. \A p : Sent(p, q)' <=> Sent(p, q)
    BY <1>3, <2>1
  <2>3. \A p \in Events : Posted(p, q)' <=> Posted(p, q)
    BY <1>4, <2>1
  <2> QED BY <1>1, <2>2, <2>3, Frame DEF ObjectsAgree
<1>9. SyncInv'
  <2>1. SyncLast' /\ ~MayCall
    BY <1>1, <1>2, ReadSyncLast DEF LockInv, SyncInv
  <2>2. ~MayCall'
    BY <1>1, <2>1 DEF MayCall
  <2>3. Posted("done", NULL)'
    BY <1>1, <1>4
  <2> QED BY <1>1, <1>2, <2>1, <2>2, <2>3 DEF SyncInv
<1> QED BY <1>6, <1>7, <1>8, <1>9 DEF LockInv

(* The compositor revokes a lock on its own account.                       *)
LEMMA RevokeKeepsInv ==
    ASSUME LockInv, WireInv', NEW o \in Objs, Revoke(o)
    PROVE  LockInv'
<1> USE ConstantsAssumption
<1>1. /\ LockInv /\ LockTypes /\ connected /\ ObjectsAgree /\ "finished" \in Events
      /\ res[o] = "locked" /\ res' = [res EXCEPT ![o] = "revoked"] /\ holder' = NULL
      /\ toClient' = Append(toClient, Msg("finished", o))
      /\ UNCHANGED <<gobj, lockObj, signals, proxy, listener, client, connected, toServer, perr>>
  BY DEF LockInv, WireInv, HandleInv, ObjectsAgree, Revoke, Events, appVars, proxyVars
<1>2. RecordMatchesWire(o) /\ SignalsMatchRecord(o)
  BY <1>1 DEF ObjectsAgree
<1>3. \A p \in Events : Posted(p, o) => p = "locked"
  BY <1>1, <1>2 DEF RecordMatchesWire, Events
<1>4. \A p \in Events, q \in Objs \cup {NULL} : Posted(p, q)' <=> Posted(p, q) \/ (p = "finished" /\ q = o)
  BY <1>1, PostAdds
<1>5. EventsOrdered'
  BY <1>1, <1>3, PostOrdered DEF LockInv
<1>6. \A p, q : Sent(p, q)' <=> Sent(p, q)
  BY <1>1, SameWires
<1>7. res'[o] = "revoked"
  BY <1>1 DEF LockTypes
<1>8. RecordMatchesWire(o)'
  BY <1>1, <1>2, <1>3, <1>4, <1>6, <1>7 DEF RecordMatchesWire, Events
<1>9. SignalsMatchRecord(o)'
  <2> SUFFICES ASSUME proxy[o] = "live" PROVE SignalsMatchRecord(o)'
    BY <1>1 DEF SignalsMatchRecord
  <2>1. "finished" \notin signals[listener[o]]
    BY <1>1, <1>2 DEF SignalsMatchRecord
  <2>2. "locked" \in signals[listener[o]] => ~Posted("locked", o)'
    BY <1>1, <1>2, <1>4 DEF SignalsMatchRecord, Events
  <2>3. "locked" \in signals[listener[o]] \/ Posted("locked", o)'
    BY <1>1, <1>2, <1>4 DEF SignalsMatchRecord, Events
  <2>4. Posted("finished", o)'
    BY <1>1, <1>4
  <2> QED BY <1>1, <1>7, <2>1, <2>2, <2>3, <2>4 DEF SignalsMatchRecord
<1>10. ObjectsAgree'
  <2> SUFFICES ASSUME NEW q \in Objs, q # o PROVE RecordMatchesWire(q)' /\ SignalsMatchRecord(q)'
    BY <1>8, <1>9 DEF ObjectsAgree
  <2>1. res'[q] = res[q] /\ \A p \in Events : Posted(p, q)' <=> Posted(p, q)
    BY <1>1, <1>4 DEF LockTypes
  <2> QED BY <1>1, <1>6, <2>1, Frame DEF ObjectsAgree
<1>11. HolderMatchesRecord'
  <2>1. \A q \in Objs : res'[q] = "locked" <=> q # o /\ res[q] = "locked"
    BY <1>1 DEF LockTypes
  <2> QED BY <1>1, <2>1 DEF LockInv, HolderMatchesRecord
<1>12. Ownership' /\ Ending'
  <2>1. \A q \in Objs : res'[q] = "stranded" => res[q] = "stranded"
    BY <1>1 DEF LockTypes
  <2> QED BY <1>1, <2>1 DEF LockInv, Ownership, Ending
<1>13. SyncInv'
  <2>1. /\ SyncLast' /\ (Silent' <=> Silent) /\ (MayCall' <=> MayCall)
        /\ Posted("done", NULL)' <=> Posted("done", NULL)
    BY <1>1, <1>4, SameWires DEF LockInv, SyncInv, MayCall, Events
  <2> QED BY <1>1, <1>6, <2>1 DEF LockInv, SyncInv
<1> QED BY <1>5, <1>10, <1>11, <1>12, <1>13 DEF LockInv

(* Only a crash ends a client that holds the session: one that exited has  *)
(* no lock left and had its unlocks read.                                  *)
LEMMA HangupKeepsInv ==
    ASSUME LockInv, WireInv', Hangup
    PROVE  LockInv'
<1> USE ConstantsAssumption
<1>1. /\ LockInv /\ LockTypes /\ connected /\ ObjectsAgree /\ client \in Dead
      /\ connected' = FALSE /\ toServer' = <<>> /\ toClient' = <<>>
      /\ res' = [q \in Objs |-> Drop(q)]
      /\ holder' = (IF holder \in Objs THEN NULL ELSE holder)
      /\ UNCHANGED <<gobj, lockObj, signals, proxy, listener, client, session, perr>>
  BY DEF LockInv, WireInv, HandleInv, ObjectsAgree, Hangup, Disconnect, appVars, proxyVars
<1>2. ASSUME NEW o \in Objs, res'[o] = "stranded" PROVE client = "crashed"
  <2>1. res[o] = "locked" /\ RecordMatchesWire(o)
    BY <1>1, <1>2 DEF Drop, ObjectsAgree
  <2>2. CASE client = "exited"
    <3>1. Silent /\ \A l \in Locks : lockObj[l] = NULL
      BY <1>1, <2>2 DEF LockInv, SyncInv, Ending
    <3>2. ~Sent("unlock_and_destroy", o)
      BY <3>1 DEF Silent, Requests
    <3>3. proxy[o] = "live"
      BY <1>1, <2>1, <3>2 DEF RecordMatchesWire, LockTypes
    <3>4. listener[o] \in Locks /\ lockObj[listener[o]] = o
      BY <1>1, <3>3 DEF LockInv, Ownership, LockTypes
    <3> QED BY <3>1, <3>4
  <2>3. client # "killed"
    BY <1>1 DEF LockInv, Ending
  <2> QED BY <1>1, <2>2, <2>3 DEF Dead
<1>3. Ending'
  BY <1>1, <1>2 DEF LockInv, Ending
<1>4. Ownership' /\ HolderMatchesRecord' /\ ObjectsAgree'
  BY <1>1 DEF LockInv, Ownership, HolderMatchesRecord, ObjectsAgree, Alive, Dead
<1>5. EventsOrdered' /\ SyncLast' /\ Silent' /\ \A p, q : ~Sent(p, q)' /\ ~Posted(p, q)'
  BY <1>1 DEF EventsOrdered, SyncLast, Silent, Sent, Posted
<1>6. SyncInv'
  BY <1>1, <1>5 DEF SyncInv, Dead
<1> QED BY <1>3, <1>4, <1>5, <1>6 DEF LockInv

LEMMA OthersKeepInv ==
    ASSUME LockInv, WireInv', OtherLocks \/ OtherUnlocks \/ UNCHANGED vars
    PROVE  LockInv'
<1> USE ConstantsAssumption
<1>1. /\ LockInv /\ LockTypes
      /\ UNCHANGED <<gobj, lockObj, signals, proxy, listener, client, toServer, toClient, connected, res, perr>>
      /\ \/ UNCHANGED <<session, holder>>
         \/ holder = NULL /\ holder' = Other /\ session' = "locked"
         \/ holder = Other /\ holder' = NULL /\ session' = "open"
  BY DEF LockInv, WireInv, HandleInv, OtherLocks, OtherUnlocks, vars, appVars, proxyVars, queueVars, serverVars
<1>2. HolderMatchesRecord'
  BY <1>1 DEF LockInv, HolderMatchesRecord, Alive
<1>3. Ownership' /\ Ending'
  BY <1>1 DEF LockInv, Ownership, Ending
<1>4. SyncInv'
  BY <1>1, SameWires DEF LockInv, SyncInv, MayCall
<1> QED BY <1>1, <1>2, <1>3, <1>4, QuietStep DEF proxyVars, queueVars

-----------------------------------------------------------------------------
LEMMA WireStep == WireInv /\ [AnyNext]_vars => WireInv'
<1> SUFFICES ASSUME WireInv, [AnyNext]_vars PROVE WireInv'
  OBVIOUS
<1> USE ConstantsAssumption
<1>a. LockTypes /\ EventsAddressed /\ HandleInv'
  BY HandleStep DEF WireInv, HandleInv
<1> SUFFICES EventsAddressed'
  BY <1>a DEF WireInv
<1>1. ASSUME toClient' = toClient \/ toClient' = <<>> PROVE EventsAddressed'
  BY <1>a, <1>1 DEF EventsAddressed, Posted
<1>2. ASSUME NEW ev \in Events, NEW o \in Objs \cup {NULL}, Dispatching(ev, o) PROVE EventsAddressed'
  BY <1>a, <1>2, DispatchTakes DEF EventsAddressed
<1>3. ASSUME NEW ev \in {"locked", "finished"}, NEW o \in Objs, toClient' = Append(toClient, Msg(ev, o))
      PROVE  EventsAddressed'
  <2>1. \A p \in Events, q \in Objs \cup {NULL} : Posted(p, q)' <=> Posted(p, q) \/ (p = ev /\ q = o)
    BY <1>a, <1>3, PostAdds DEF Events
  <2> QED BY <1>a, <2>1 DEF EventsAddressed, Events
<1>4. CASE HandleSync
  <2>1. \A p \in Events, q \in Objs \cup {NULL} : Posted(p, q)' <=> Posted(p, q) \/ (p = "done" /\ q = NULL)
    BY <1>a, <1>4, PostAdds DEF HandleSync, Events
  <2> QED BY <1>a, <2>1 DEF EventsAddressed, Events
<1>5. CASE AnyApp
  BY <1>1, <1>5 DEF AnyApp, PrepareLock, Lock, Destroy, UnlockAndDestroy, SendDestructor, Unref,
                    Sync, Exit, Crash, queueVars
<1>6. CASE Dispatch
  BY <1>2, <1>6 DEF Dispatch, HandleDone, HandleLocked, HandleFinished, Events
<1>7. ASSUME NEW o \in Objs, Grant(o) \/ Deny(o) \/ Revoke(o) PROVE EventsAddressed'
  BY <1>3, <1>7 DEF Grant, Deny, Revoke
<1>8. ASSUME NEW o \in Objs, HandleDestroy(o) \/ HandleUnlock(o) PROVE EventsAddressed'
  BY <1>1, <1>8 DEF HandleDestroy, HandleUnlock, PostError, Disconnect
<1>9. CASE Hangup \/ OtherLocks \/ OtherUnlocks \/ UNCHANGED vars
  BY <1>1, <1>9 DEF Hangup, Disconnect, OtherLocks, OtherUnlocks, vars, queueVars
<1> QED BY <1>4, <1>5, <1>6, <1>7, <1>8, <1>9 DEF AnyNext, Compositor, Serve

(* The documented order makes every destructor legal: `locked' was seen on *)
(* a granted lock, `finished' alone on a denied one.                       *)
LEMMA DocumentedDestructors ==
    ASSUME LockInv, NEW l \in Locks, MayCall, lockObj[l] # NULL
    PROVE  /\ MayUnlock(l) => res[lockObj[l]] \in {"locked", "revoked"}
           /\ MayDestroy(l) => res[lockObj[l]] = "denied"
<1>1. ObjectsAgree /\ connected /\ LockTypes
  BY RunningIsConnected
<1>2. PICK o \in Objs : lockObj[l] = o /\ proxy[o] = "live" /\ listener[o] = l
  BY <1>1 DEF LockInv, WireInv, HandleInv, OwnsLive, LockTypes
<1>3. SignalsMatchRecord(o)
  BY <1>1 DEF ObjectsAgree
<1> QED BY <1>2, <1>3 DEF SignalsMatchRecord, MayUnlock, MayDestroy

LEMMA LockStep == LockInv /\ [Next]_vars => LockInv'
<1> SUFFICES ASSUME LockInv, [Next]_vars PROVE LockInv'
  OBVIOUS
<1>a. WireInv'
  BY WireStep, DocumentedIsAny DEF LockInv
<1>1. ASSUME NEW l \in Locks, Unused(l), Lock(l) PROVE LockInv'
  BY <1>a, <1>1, LockKeepsInv
<1>2. ASSUME NEW l \in Locks, MayUnlock(l), UnlockAndDestroy(l) PROVE LockInv'
  BY <1>a, <1>2, DestructorKeepsInv, DocumentedDestructors DEF UnlockAndDestroy, SendDestructor
<1>3. ASSUME NEW l \in Locks, MayDestroy(l), Destroy(l) PROVE LockInv'
  BY <1>a, <1>3, DestructorKeepsInv, DocumentedDestructors DEF Destroy, SendDestructor
<1>4. CASE DocumentedApp
  BY <1>a, <1>1, <1>2, <1>3, <1>4, SyncKeepsInv, OtherCallsKeepInv DEF DocumentedApp
<1>5. CASE Dispatch
  <2>1. ASSUME NEW o \in Objs, HandleLocked(o) \/ HandleFinished(o) PROVE LockInv'
    BY <1>a, <2>1, SignalKeepsInv DEF HandleLocked, HandleFinished
  <2> QED BY <1>a, <1>5, <2>1, DoneKeepsInv DEF Dispatch
<1>6. CASE Compositor
  BY <1>a, <1>6, SyncReadKeepsInv, AnswerKeepsInv, DestructorReadKeepsInv, HangupKeepsInv, OthersKeepInv,
     RevokeKeepsInv DEF Compositor, Serve
<1>7. CASE UNCHANGED vars
  BY <1>a, <1>7, OthersKeepInv
<1> QED BY <1>4, <1>5, <1>6, <1>7 DEF Next

LEMMA LockInvHolds == Spec => []LockInv
  BY LockInit, LockStep, PTL DEF Spec

-----------------------------------------------------------------------------
(* What follows from the invariant, also for a wire that carries more.     *)
LEMMA LockGuarantees ==
    LockInv =>
        /\ NoProtocolError /\ ListenerIsAlive /\ LockedIsTrue
        /\ Unlockable /\ StrandedOnlyByCrash /\ AnswerIsDue
<1>1. LockInv => NoProtocolError
  BY DEF LockInv, Ending, NoProtocolError
<1>2. LockInv => ListenerIsAlive
  <2> SUFFICES ASSUME LockInv, NEW o \in Objs, proxy[o] = "live"
               PROVE  listener[o] \in Locks /\ gobj[listener[o]] = "live"
    BY DEF ListenerIsAlive
  <2>1. listener[o] \in Locks /\ lockObj[listener[o]] = o /\ o # NULL
    BY ConstantsAssumption DEF LockInv, WireInv, HandleInv, Ownership, LockTypes
  <2> QED BY <2>1 DEF LockInv, Ownership
<1>3. LockInv => LockedIsTrue
  <2> SUFFICES ASSUME LockInv, NEW l \in Locks, connected, lockObj[l] # NULL, signals[l] = {"locked"},
                      \A i \in 1..Len(toClient) : toClient[i] # Msg("finished", lockObj[l])
               PROVE  session = "locked" /\ holder = lockObj[l]
    BY DEF LockedIsTrue
  <2>1. PICK o \in Objs : lockObj[l] = o /\ proxy[o] = "live" /\ listener[o] = l /\ o # NULL
    BY DEF LockInv, WireInv, HandleInv, OwnsLive, LockTypes
  <2>2. SignalsMatchRecord(o) /\ ~Posted("finished", o)
    BY <2>1 DEF LockInv, ObjectsAgree, Posted
  <2>3. res[o] = "locked"
    BY <2>1, <2>2 DEF SignalsMatchRecord
  <2> QED BY <2>1, <2>3 DEF LockInv, HolderMatchesRecord
<1>4. LockInv => Unlockable
  <2> SUFFICES ASSUME LockInv, Alive, holder \in Objs, ~Sent("unlock_and_destroy", holder)
               PROVE  \E l \in Locks : gobj[l] = "live" /\ lockObj[l] = holder
    BY DEF Unlockable, Sent
  <2>1. LockTypes /\ RecordMatchesWire(holder) /\ res[holder] = "locked" /\ holder # NULL
    BY RunningIsConnected, ConstantsAssumption DEF LockInv, ObjectsAgree, HolderMatchesRecord
  <2>2. proxy[holder] = "live"
    BY <2>1 DEF RecordMatchesWire, LockTypes
  <2>3. listener[holder] \in Locks /\ lockObj[listener[holder]] = holder
    BY <2>1, <2>2 DEF LockInv, Ownership, LockTypes
  <2> QED BY <2>1, <2>3 DEF LockInv, Ownership
<1>5. LockInv => StrandedOnlyByCrash
  BY DEF LockInv, Ending, StrandedOnlyByCrash
<1>6. LockInv => AnswerIsDue
  <2>1. ASSUME LockInv, Alive, NEW l \in Locks, lockObj[l] # NULL, signals[l] = {}
        PROVE  Sent("lock", lockObj[l]) \/ \E ev \in {"locked", "finished"} : Posted(ev, lockObj[l])
    <3>1. PICK o \in Objs : lockObj[l] = o /\ proxy[o] = "live" /\ listener[o] = l
      BY <2>1 DEF LockInv, WireInv, HandleInv, OwnsLive, LockTypes
    <3>2. RecordMatchesWire(o) /\ SignalsMatchRecord(o) /\ LockTypes
      BY <2>1, RunningIsConnected DEF ObjectsAgree
    <3>3. res[o] \in {"none", "denied", "locked", "revoked"}
      BY <3>1, <3>2 DEF RecordMatchesWire, LockTypes
    <3>4. CASE res[o] = "none"
      BY <3>1, <3>2, <3>4 DEF RecordMatchesWire
    <3>5. CASE res[o] # "none"
      BY <2>1, <3>1, <3>2, <3>3, <3>5 DEF SignalsMatchRecord
    <3> QED BY <3>1, <3>4, <3>5
  <2>2. LockInv /\ client = "syncing" => Sent("sync", NULL) \/ Posted("done", NULL)
    BY DEF LockInv, SyncInv
  <2> QED BY <2>1, <2>2, Zenon DEF AnswerIsDue, Sent, Posted
<1> QED BY <1>1, <1>2, <1>3, <1>4, <1>5, <1>6

LEMMA NothingFollowsFinished ==
    ASSUME LockInv, Next
    PROVE  TellsNews
<1>1. WireInv'
  BY WireStep, DocumentedIsAny DEF LockInv
<1>2. ASSUME NEW o \in Objs, HandleLocked(o) \/ HandleFinished(o)
      PROVE  TellsNews
  BY <1>1, <1>2, SignalKeepsInv DEF HandleLocked, HandleFinished
<1>3. CASE HandleDone
  BY <1>3 DEF TellsNews, HandleDone, appVars
<1>4. CASE DocumentedApp
  BY <1>4 DEF TellsNews, DocumentedApp, PrepareLock, Lock, Destroy, UnlockAndDestroy, SendDestructor, Unref,
              Sync, Exit, Crash, appVars
<1>5. CASE Compositor
  BY <1>5 DEF TellsNews, Compositor, Serve, HandleSync, Grant, Deny, HandleDestroy, HandleUnlock, PostError,
              Hangup, OtherLocks, OtherUnlocks, Revoke, appVars
<1> QED BY <1>2, <1>3, <1>4, <1>5 DEF Next, Dispatch

-----------------------------------------------------------------------------
(* No call in the documented order is ever a protocol error, whatever the  *)
(* compositor decides and however late the application learns of it        *)
(* (destroy, unlock_and_destroy).                                          *)
THEOREM ProtocolIsKept == Spec => []NoProtocolError
  BY LockGuarantees, LockInvHolds, PTL

(* handle_locked and handle_finished never run on a freed lock.            *)
THEOREM ListenersAreAlive == Spec => []ListenerIsAlive
  BY LockGuarantees, LockInvHolds, PTL

(* A lock that signalled `locked' and has not been told otherwise really   *)
(* holds the locked session (session_lock_lock_handle_locked).             *)
THEOREM LockedSignalIsTrue == Spec => []LockedIsTrue
  BY LockGuarantees, LockInvHolds, PTL

(* While the application runs it can still unlock a session it holds, or   *)
(* has already asked to: no sequence of calls loses the object.            *)
THEOREM HeldSessionsAreUnlockable == Spec => []Unlockable
  BY LockGuarantees, LockInvHolds, PTL

(* A session is left locked for good by a crash only: the unlock, sync and *)
(* exit of the documentation never lose an unlock.                         *)
THEOREM ExitsLeaveNoLock == Spec => []StrandedOnlyByCrash
  BY LockGuarantees, LockInvHolds, PTL

(* The answers to lock() and to a sync never get lost: whoever waits for   *)
(* one has its request, or the answer, on the wire (lock, gdk_display_sync)*)
THEOREM AnswersAreDue == Spec => []AnswerIsDue
  BY LockGuarantees, LockInvHolds, PTL

(* Nothing is signalled after `finished', and nothing is signalled twice:  *)
(* every emission of handle_locked and handle_finished is news.            *)
THEOREM NothingAfterFinished == Spec => FinishedIsLast
<1>1. LockInv /\ [Next]_vars =>
        [TellsNews]_vars
  BY NothingFollowsFinished
<1> QED BY <1>1, LockInvHolds, PTL DEF Spec, FinishedIsLast, TellsNews
=============================================================================

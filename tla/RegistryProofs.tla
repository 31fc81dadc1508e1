--------------------------- MODULE RegistryProofs ---------------------------
(***************************************************************************)
(* Theorems about Registry for any number of registries, managers and      *)
(* monitors, however round trips are nested.                               *)
(***************************************************************************)
EXTENDS Registry, SequenceTheorems, TLAPS

Requests == [op : {"get_registry", "sync"}, reg : Nat] \cup [op : {"bind"}, reg : Nat, name : Nat]
Events   == [op : {"global"}, reg : Nat, global : Globals]
            \cup [op : {"global_remove"}, reg : Nat, name : Nat]
            \cup [op : {"done"}, reg : Nat] \cup [op : {"output"}]

ServerQueue ==
    /\ toServer \in Seq(Requests)
    /\ \A i \in 1..Len(toServer) : toServer[i].op \in {"get_registry", "sync"} => toServer[i].reg \in 1..made

(* A registry is read before the sync behind it.                           *)
RegistryFirst ==
    \A i \in 1..Len(toServer) : toServer[i].op = "sync" =>
        known >= 1 \/ \E j \in 1..i : toServer[j].op = "get_registry"

ClientQueue ==
    /\ toClient \in Seq(Events)
    /\ \A i \in 1..Len(toClient) : toClient[i].op = "done" => toClient[i].reg \in 1..made /\ known >= 1

(* So a round trip that has returned leaves a registry that is known.      *)
KnownOnceDone == fired # {} \/ has_initialized => known >= 1

(* Managers are announced in the order of their names, after the one the   *)
(* library holds.                                                          *)
InOrder ==
    /\ advertised # NULL => advertised.name = names
    /\ \A i \in 1..Len(toClient) : toClient[i].op = "global" =>
        /\ toClient[i].global.name <= names
        /\ lock_manager_global # NULL => lock_manager_global.name <= toClient[i].global.name
        /\ \A j \in 1..i : toClient[j].op = "global" => toClient[j].global.name <= toClient[i].global.name
    /\ lock_manager_global # NULL => lock_manager_global.name <= names

(* The manager on offer is held or announced.                              *)
HeldOrAnnounced ==
    known >= 1 /\ advertised # NULL =>
        \/ \E i \in 1..Len(toClient) : toClient[i].op = "global" /\ toClient[i].global.name = names
        \/ lock_manager_global # NULL /\ lock_manager_global.name = names

RegistryInv ==
    /\ RegistryTypeOK /\ ServerQueue /\ RegistryFirst /\ ClientQueue
    /\ KnownOnceDone /\ InOrder /\ HeldOrAnnounced

-----------------------------------------------------------------------------
(* The queues.                                                             *)

LEMMA Received ==
    ASSUME ClientQueue, NEW m, Receive(m)
    PROVE  /\ toClient' \in Seq(Events) /\ m = toClient[1] /\ m \in Events
           /\ Len(toClient) \in Nat \ {0} /\ Len(toClient') = Len(toClient) - 1
           /\ \A i \in 1..Len(toClient') : toClient'[i] = toClient[i + 1]
<1>1. toClient \in Seq(Events) /\ toClient # <<>> /\ toClient' = Tail(toClient) /\ m = Head(toClient)
  BY DEF ClientQueue, Receive
<1>2. Len(toClient) \in Nat \ {0}
  BY <1>1, EmptySeq
<1>3. Head(toClient) = toClient[1]
  BY <1>1
<1> QED BY <1>1, <1>2, <1>3, HeadTailProperties

LEMMA WasRead ==
    ASSUME ServerQueue, NEW m, Read(m)
    PROVE  /\ toServer' \in Seq(Requests) /\ m = toServer[1] /\ m \in Requests
           /\ Len(toServer) \in Nat \ {0} /\ Len(toServer') = Len(toServer) - 1
           /\ \A i \in 1..Len(toServer') : toServer'[i] = toServer[i + 1]
<1>1. toServer \in Seq(Requests) /\ toServer # <<>> /\ toServer' = Tail(toServer) /\ m = Head(toServer)
  BY DEF ServerQueue, Read
<1>2. Len(toServer) \in Nat \ {0}
  BY <1>1, EmptySeq
<1>3. Head(toServer) = toServer[1]
  BY <1>1
<1> QED BY <1>1, <1>2, <1>3, HeadTailProperties

LEMMA Appended ==
    ASSUME NEW S, NEW q \in Seq(S), NEW e \in S
    PROVE  /\ Append(q, e) \in Seq(S) /\ Len(Append(q, e)) = Len(q) + 1 /\ Len(q) \in Nat
           /\ \A i \in 1..Len(q) : Append(q, e)[i] = q[i]
           /\ Append(q, e)[Len(q) + 1] = e
  OBVIOUS

LEMMA MessageTypes ==
    /\ \A r, n \in Nat : GetRegistry(r) \in Requests /\ SyncRequest(r) \in Requests /\ Bind(r, n) \in Requests
    /\ \A r, n \in Nat : Done(r) \in Events /\ GlobalRemove(r, n) \in Events
    /\ \A r \in Nat, g \in Globals : Global(r, g) \in Events
    /\ Output \in Events
  BY DEF Requests, Events, GetRegistry, SyncRequest, Bind, Done, GlobalRemove, Global, Output

(* A broadcast to all registries the compositor knows.                     *)
LEMMA Broadcast ==
    ASSUME NEW S, NEW q \in Seq(S), NEW n \in Nat, NEW b, b \in [1..n -> S]
    PROVE  /\ q \o b \in Seq(S) /\ Len(q \o b) = Len(q) + n /\ Len(q) \in Nat
           /\ \A i \in 1..Len(q) : (q \o b)[i] = q[i]
           /\ \A i \in 1..n : (q \o b)[Len(q) + i] = b[i]
           /\ \A i \in 1..Len(q) + n : i \notin 1..Len(q) => i - Len(q) \in 1..n /\ (q \o b)[i] = b[i - Len(q)]
<1>1. b \in Seq(S) /\ Len(b) = n
  BY SeqDef
<1>2. Len(q) \in Nat
  OBVIOUS
<1>3. /\ q \o b \in Seq(S) /\ Len(q \o b) = Len(q) + Len(b)
      /\ \A i \in 1 .. Len(q) + Len(b) : (q \o b)[i] = IF i <= Len(q) THEN q[i] ELSE b[i - Len(q)]
  BY <1>1, ConcatProperties
<1>4. \A i \in 1..Len(q) : i \in 1 .. Len(q) + Len(b) /\ i <= Len(q)
  BY <1>1, <1>2
<1>5. \A i \in 1..n : Len(q) + i \in 1 .. Len(q) + Len(b) /\ ~(Len(q) + i <= Len(q)) /\ Len(q) + i - Len(q) = i
  BY <1>1, <1>2
<1>6. \A i \in 1..Len(q) + n : i \notin 1..Len(q) => i - Len(q) \in 1..n /\ ~(i <= Len(q))
  BY <1>1, <1>2
<1> QED BY <1>1, <1>2, <1>3, <1>4, <1>5, <1>6

-----------------------------------------------------------------------------
LEMMA RegistryInit == Init => RegistryInv
<1> SUFFICES ASSUME Init PROVE RegistryInv
  OBVIOUS
<1>1. toServer = <<>> /\ toClient = <<>> /\ Len(toServer) = 0 /\ Len(toClient) = 0
  BY DEF Init
<1>2. ServerQueue /\ ClientQueue
  BY <1>1 DEF ServerQueue, ClientQueue
<1>3. RegistryFirst /\ KnownOnceDone /\ HeldOrAnnounced
  BY <1>1 DEF Init, RegistryFirst, KnownOnceDone, HeldOrAnnounced
<1>4. InOrder
  BY <1>1, RegistryConstants DEF Init, InOrder
<1>5. advertised \in Globals \cup {NULL} /\ names \in 0..MaxGlobals
  <2>1. CASE advertised = NULL /\ names = 0
    BY <2>1, RegistryConstants
  <2>2. CASE names = 1 /\ \E v \in ServerVersions : advertised = [name |-> 1, version |-> v]
    BY <2>2, RegistryConstants DEF Globals
  <2> QED BY <2>1, <2>2 DEF Init
<1>6. waiting \in Seq(1..made)
  BY DEF Init
<1>7. /\ has_initialized \in BOOLEAN /\ fired \subseteq 1..made
      /\ lock_manager_global \in [name : 1..MaxGlobals, version : 1..ClientVersion] \cup {NULL}
  BY DEF Init
<1>8. made \in 0..MaxInits /\ known \in 0..made /\ outputs \in 0..MaxOutputs
  BY RegistryConstants DEF Init
<1>9. RegistryTypeOK
  BY <1>5, <1>6, <1>7, <1>8 DEF RegistryTypeOK
<1> QED BY <1>2, <1>3, <1>4, <1>9 DEF RegistryInv

-----------------------------------------------------------------------------
(* What becomes of each queue's part of the invariant.                     *)

LEMMA ServerKept ==
    ASSUME ServerQueue, RegistryFirst, made \in Nat, known \in Nat, made' = made, known' \in Nat,
           known' >= known, toServer' = toServer
    PROVE  ServerQueue' /\ RegistryFirst'
<1>1. ServerQueue'
  BY DEF ServerQueue
<1>2. RegistryFirst'
  BY DEF RegistryFirst
<1> QED BY <1>1, <1>2

LEMMA ServerRead ==
    ASSUME RegistryInv, NEW m, Read(m), made' = made, known' = known \/ known' >= 1,
           m.op = "get_registry" => known' >= 1
    PROVE  ServerQueue' /\ RegistryFirst'
<1>1. /\ toServer' \in Seq(Requests) /\ m = toServer[1]
      /\ Len(toServer) \in Nat \ {0} /\ Len(toServer') = Len(toServer) - 1
      /\ \A i \in 1..Len(toServer') : toServer'[i] = toServer[i + 1]
  BY WasRead DEF RegistryInv
<1>2. \A i \in 1..Len(toServer') : i + 1 \in 1..Len(toServer)
  BY <1>1
<1>3. ServerQueue'
  BY <1>1, <1>2 DEF RegistryInv, ServerQueue
<1>4. ASSUME NEW i \in 1..Len(toServer'), toServer'[i].op = "sync", ~(known' >= 1)
      PROVE  \E j \in 1..i : toServer'[j].op = "get_registry"
  <2>1. PICK j \in 1..(i + 1) : toServer[j].op = "get_registry"
    BY <1>1, <1>2, <1>4 DEF RegistryInv, RegistryFirst
  <2>2. j # 1
    BY <2>1, <1>1, <1>4
  <2>3. j - 1 \in 1..i /\ j - 1 \in 1..Len(toServer') /\ (j - 1) + 1 = j
    BY <2>1, <2>2, <1>1
  <2>4. toServer'[j - 1] = toServer[j]
    BY <2>3, <1>1
  <2> QED BY <2>1, <2>3, <2>4
<1> QED BY <1>3, <1>4 DEF RegistryFirst

LEMMA ServerGrows ==
    ASSUME RegistryInv, made' \in Nat, made' >= made, known' = known, NEW n \in Nat,
           toServer' \in Seq(Requests), Len(toServer') = Len(toServer) + n,
           \A i \in 1..Len(toServer) : toServer'[i] = toServer[i],
           \A i \in 1..Len(toServer) + n : i \notin 1..Len(toServer) =>
               /\ toServer'[i].op \in {"get_registry", "sync"} => toServer'[i].reg \in 1..made'
               /\ toServer'[i].op = "sync" => \E j \in 1..i : toServer'[j].op = "get_registry"
    PROVE  ServerQueue' /\ RegistryFirst'
<1>1. made \in Nat /\ Len(toServer) \in Nat
  BY RegistryConstants DEF RegistryInv, RegistryTypeOK, ServerQueue
<1>2. ServerQueue'
  BY <1>1 DEF RegistryInv, ServerQueue
<1>3. ASSUME NEW i \in 1..Len(toServer), toServer'[i].op = "sync", ~(known >= 1)
      PROVE  \E j \in 1..i : toServer'[j].op = "get_registry"
  <2>1. PICK j \in 1..i : toServer[j].op = "get_registry"
    BY <1>3 DEF RegistryInv, RegistryFirst
  <2>2. j \in 1..Len(toServer)
    BY <1>1, <2>1
  <2> QED BY <2>1, <2>2
<1>4. RegistryFirst'
  BY <1>3 DEF RegistryFirst
<1> QED BY <1>2, <1>4

ClientSide == ClientQueue /\ InOrder /\ HeldOrAnnounced

LEMMA ClientKept ==
    ASSUME RegistryInv, made' \in Nat, made' >= made,
           UNCHANGED <<toClient, known, advertised, names, lock_manager_global>>
    PROVE  ClientSide'
<1>1. made \in Nat
  BY RegistryConstants DEF RegistryInv, RegistryTypeOK
<1>2. ClientQueue'
  BY <1>1 DEF RegistryInv, ClientQueue
<1>3. InOrder' /\ HeldOrAnnounced'
  BY DEF RegistryInv, InOrder, HeldOrAnnounced
<1> QED BY <1>2, <1>3 DEF ClientSide

LEMMA ClientReceives ==
    ASSUME RegistryInv, NEW m, Receive(m), m.op # "global", made' \in Nat, made' >= made,
           UNCHANGED <<known, advertised, names, lock_manager_global>>
    PROVE  ClientSide'
<1>1. /\ toClient' \in Seq(Events) /\ m = toClient[1]
      /\ Len(toClient) \in Nat \ {0} /\ Len(toClient') = Len(toClient) - 1
      /\ \A i \in 1..Len(toClient') : toClient'[i] = toClient[i + 1]
  BY Received DEF RegistryInv
<1>2. \A i \in 1..Len(toClient') : i + 1 \in 1..Len(toClient) /\ \A j \in 1..i : j \in 1..Len(toClient') /\ j + 1 \in 1..(i + 1)
  BY <1>1
<1>3. made \in Nat
  BY RegistryConstants DEF RegistryInv, RegistryTypeOK
<1>4. ClientQueue'
  <2> SUFFICES ASSUME NEW i \in 1..Len(toClient'), toClient'[i].op = "done"
               PROVE  toClient'[i].reg \in 1..made' /\ known' >= 1
    BY <1>1 DEF ClientQueue
  <2>1. toClient'[i] = toClient[i + 1] /\ i + 1 \in 1..Len(toClient)
    BY <1>1, <1>2
  <2>2. toClient[i + 1].reg \in 1..made /\ known >= 1
    BY <2>1 DEF RegistryInv, ClientQueue
  <2> QED BY <1>3, <2>1, <2>2
<1>5. InOrder'
  BY <1>1, <1>2 DEF RegistryInv, InOrder
<1>6. HeldOrAnnounced'
  <2> SUFFICES ASSUME known >= 1, advertised # NULL, ~(lock_manager_global # NULL /\ lock_manager_global.name = names)
               PROVE  \E i \in 1..Len(toClient') : toClient'[i].op = "global" /\ toClient'[i].global.name = names
    BY DEF HeldOrAnnounced
  <2>1. PICK i \in 1..Len(toClient) : toClient[i].op = "global" /\ toClient[i].global.name = names
    BY DEF RegistryInv, HeldOrAnnounced
  <2>2. i # 1
    BY <1>1, <2>1
  <2>3. i - 1 \in 1..Len(toClient') /\ (i - 1) + 1 = i
    BY <1>1, <2>2
  <2> QED BY <1>1, <2>1, <2>3
<1> QED BY <1>4, <1>5, <1>6 DEF ClientSide

LEMMA ClientGrows ==
    ASSUME RegistryInv, made' = made, known' \in Nat, known' = known \/ known' >= 1, lock_manager_global' = lock_manager_global,
           names' \in Nat, names' >= names, advertised' # NULL => advertised'.name = names',
           NEW n \in Nat, toClient' \in Seq(Events), Len(toClient') = Len(toClient) + n,
           \A i \in 1..Len(toClient) : toClient'[i] = toClient[i],
           \A i \in 1..Len(toClient) + n : i \notin 1..Len(toClient) =>
               /\ toClient'[i].op = "done" => toClient'[i].reg \in 1..made /\ known' >= 1
               /\ toClient'[i].op = "global" => toClient'[i].global.name = names',
           known' >= 1 /\ advertised' # NULL =>
               \/ known >= 1 /\ advertised # NULL /\ names' = names
               \/ \E i \in 1..Len(toClient) + n : toClient'[i].op = "global" /\ toClient'[i].global.name = names'
    PROVE  ClientSide'
<1>1. /\ made \in Nat /\ known \in Nat /\ names \in Nat /\ Len(toClient) \in Nat
      /\ lock_manager_global # NULL => lock_manager_global.name \in Nat
  BY RegistryConstants DEF RegistryInv, RegistryTypeOK, ClientQueue
<1>2. ClientQueue'
  BY <1>1 DEF RegistryInv, ClientQueue
<1>3. ASSUME NEW i \in 1..Len(toClient'), toClient'[i].op = "global"
      PROVE  toClient'[i].global.name \in Nat
  BY <1>3, ElementOfSeq DEF Events, Globals
<1>4. ASSUME NEW i \in 1..Len(toClient), toClient'[i].op = "global"
      PROVE  /\ toClient'[i].global.name <= names'
             /\ lock_manager_global # NULL => lock_manager_global.name <= toClient'[i].global.name
             /\ \A j \in 1..i : toClient'[j].op = "global" => toClient'[j].global.name <= toClient'[i].global.name
  <2>1. i \in 1..Len(toClient') /\ \A j \in 1..i : j \in 1..Len(toClient)
    BY <1>1
  <2>2. toClient'[i].global.name \in Nat
    BY <2>1, <1>3, <1>4
  <2>3. /\ toClient'[i] = toClient[i] /\ toClient[i].global.name <= names
        /\ lock_manager_global # NULL => lock_manager_global.name <= toClient[i].global.name
        /\ \A j \in 1..i : toClient[j].op = "global" => toClient[j].global.name <= toClient[i].global.name
    BY <1>4 DEF RegistryInv, InOrder
  <2>4. \A j \in 1..i : toClient'[j] = toClient[j]
    BY <2>1
  <2>5. toClient'[i].global.name <= names'
    BY <1>1, <2>2, <2>3
  <2> QED BY <2>3, <2>4, <2>5
<1>5. ASSUME NEW i \in 1..Len(toClient'), toClient'[i].op = "global", i \notin 1..Len(toClient)
      PROVE  /\ toClient'[i].global.name = names'
             /\ \A j \in 1..i : toClient'[j].op = "global" => toClient'[j].global.name <= names'
  <2>1. toClient'[i].global.name = names'
    BY <1>5
  <2>2. ASSUME NEW j \in 1..i, toClient'[j].op = "global"
        PROVE  toClient'[j].global.name <= names'
    <3>1. CASE j \in 1..Len(toClient)
      BY <3>1, <2>2, <1>4
    <3>2. CASE j \notin 1..Len(toClient)
      <4>1. j \in 1..Len(toClient) + n
        BY <1>1, <1>5
      <4>2. toClient'[j].global.name = names'
        BY <3>2, <4>1, <2>2
      <4> QED BY <4>2
    <3> QED BY <3>1, <3>2
  <2> QED BY <2>1, <2>2
<1>6. InOrder'
  <2>1. lock_manager_global # NULL => lock_manager_global.name <= names /\ lock_manager_global.name <= names'
    BY <1>1 DEF RegistryInv, InOrder
  <2> QED BY <1>1, <1>4, <1>5, <2>1 DEF InOrder
<1>7. HeldOrAnnounced'
  <2>1. ASSUME known >= 1, advertised # NULL, names' = names
        PROVE  \/ \E i \in 1..Len(toClient') : toClient'[i].op = "global" /\ toClient'[i].global.name = names'
               \/ lock_manager_global # NULL /\ lock_manager_global.name = names'
    <3>1. CASE lock_manager_global # NULL /\ lock_manager_global.name = names
      BY <3>1, <2>1
    <3>2. CASE \E i \in 1..Len(toClient) : toClient[i].op = "global" /\ toClient[i].global.name = names
      <4>1. PICK i \in 1..Len(toClient) : toClient[i].op = "global" /\ toClient[i].global.name = names
        BY <3>2
      <4>2. i \in 1..Len(toClient')
        BY <1>1
      <4> QED BY <4>1, <4>2, <2>1
    <3> QED BY <2>1, <3>1, <3>2 DEF RegistryInv, HeldOrAnnounced
  <2> QED BY <2>1 DEF HeldOrAnnounced
<1> QED BY <1>2, <1>6, <1>7 DEF ClientSide

(* Binding a manager: names never go back, so the one just bound is the    *)
(* one on offer when the one before was.                                   *)
LEMMA ClientBinds ==
    ASSUME RegistryInv, NEW r, NEW g \in Globals, Receive(Global(r, g)), made' = made,
           UNCHANGED <<known, advertised, names>>,
           lock_manager_global' \in [name : {g.name}, version : Nat]
    PROVE  ClientSide'
<1> DEFINE m == Global(r, g)
<1>1. /\ toClient' \in Seq(Events) /\ m = toClient[1]
      /\ Len(toClient) \in Nat \ {0} /\ Len(toClient') = Len(toClient) - 1
      /\ \A i \in 1..Len(toClient') : toClient'[i] = toClient[i + 1]
  BY Received DEF RegistryInv
<1>2. \A i \in 1..Len(toClient') : i + 1 \in 1..Len(toClient) /\ \A j \in 1..i : j \in 1..Len(toClient') /\ j + 1 \in 1..(i + 1)
  BY <1>1
<1>3. m.op = "global" /\ m.global = g /\ g.name \in Nat
  BY RegistryConstants DEF Global, Globals
<1>4. lock_manager_global'.name = g.name
  OBVIOUS
<1>5. 1 \in 1..Len(toClient)
  BY <1>1
<1>6. g.name <= names /\ (lock_manager_global # NULL => lock_manager_global.name <= g.name)
  BY <1>1, <1>3, <1>5 DEF RegistryInv, InOrder
<1>7. ClientQueue'
  BY <1>1, <1>2 DEF RegistryInv, ClientQueue
<1>8. \A i \in 1..Len(toClient') : toClient'[i].op = "global" => g.name <= toClient'[i].global.name
  <2>1. \A i \in 1..Len(toClient') : 1 \in 1..(i + 1)
    BY <1>1
  <2> QED BY <1>1, <1>2, <1>3, <2>1 DEF RegistryInv, InOrder
<1>9. InOrder'
  <2>1. advertised' # NULL => advertised'.name = names'
    BY DEF RegistryInv, InOrder
  <2>2. \A i \in 1..Len(toClient') : toClient'[i].op = "global" =>
           /\ toClient'[i].global.name <= names
           /\ \A j \in 1..i : toClient'[j].op = "global" => toClient'[j].global.name <= toClient'[i].global.name
    <3> SUFFICES ASSUME NEW i \in 1..Len(toClient'), toClient'[i].op = "global"
                 PROVE  /\ toClient'[i].global.name <= names
                        /\ \A j \in 1..i : toClient'[j].op = "global"
                                => toClient'[j].global.name <= toClient'[i].global.name
      OBVIOUS
    <3>1. toClient'[i] = toClient[i + 1] /\ i + 1 \in 1..Len(toClient)
      BY <1>1, <1>2
    <3>2. /\ toClient[i + 1].global.name <= names
          /\ \A j \in 1..i + 1 : toClient[j].op = "global"
                => toClient[j].global.name <= toClient[i + 1].global.name
      BY <3>1 DEF RegistryInv, InOrder
    <3>3. \A j \in 1..i : toClient'[j] = toClient[j + 1] /\ j + 1 \in 1..i + 1
      BY <1>1, <1>2
    <3> QED BY <3>1, <3>2, <3>3
  <2> QED BY <1>4, <1>6, <1>8, <2>1, <2>2 DEF InOrder
<1>10. HeldOrAnnounced'
  <2> SUFFICES ASSUME known >= 1, advertised # NULL
               PROVE  \/ \E i \in 1..Len(toClient') : toClient'[i].op = "global" /\ toClient'[i].global.name = names
                      \/ lock_manager_global' # NULL /\ lock_manager_global'.name = names
    BY DEF HeldOrAnnounced
  <2>1. lock_manager_global' # NULL
    <3>1. lock_manager_global' \in [name : Nat, version : Nat]
      BY <1>3
    <3> QED BY <3>1, RegistryConstants
  <2>2. names \in Nat /\ (lock_manager_global # NULL => lock_manager_global.name \in Nat)
    BY RegistryConstants DEF RegistryInv, RegistryTypeOK
  <2>3. CASE lock_manager_global # NULL /\ lock_manager_global.name = names
    BY <1>3, <1>4, <1>6, <2>1, <2>2, <2>3
  <2>4. CASE \E i \in 1..Len(toClient) : toClient[i].op = "global" /\ toClient[i].global.name = names
    <3>1. PICK i \in 1..Len(toClient) : toClient[i].op = "global" /\ toClient[i].global.name = names
      BY <2>4
    <3>2. CASE i = 1
      BY <3>1, <3>2, <1>1, <1>3, <1>4, <2>1
    <3>3. CASE i # 1
      <4>1. i - 1 \in 1..Len(toClient') /\ (i - 1) + 1 = i
        BY <1>1, <3>3
      <4> QED BY <1>1, <3>1, <4>1
    <3> QED BY <3>2, <3>3
  <2> QED BY <2>3, <2>4 DEF RegistryInv, HeldOrAnnounced
<1> QED BY <1>7, <1>9, <1>10 DEF ClientSide

-----------------------------------------------------------------------------
(* Asking for a registry, from the main loop or from inside a round trip.  *)
LEMMA Starts ==
    ASSUME RegistryInv, StartInit, UNCHANGED <<known>>
    PROVE  /\ ServerQueue' /\ RegistryFirst'
           /\ made' \in 0..MaxInits /\ made' = made + 1 /\ waiting' \in Seq(1..made')
<1> DEFINE a == GetRegistry(made + 1)  b == SyncRequest(made + 1)
<1>1. made \in Nat /\ made' = made + 1 /\ made' \in 0..MaxInits /\ waiting \in Seq(1..made)
  BY RegistryConstants DEF RegistryInv, RegistryTypeOK, StartInit
<1>2. toServer \in Seq(Requests) /\ Len(toServer) \in Nat
  BY DEF RegistryInv, ServerQueue
<1>3. a \in Requests /\ b \in Requests
  BY <1>1, MessageTypes
<1>4. toServer' = toServer \o <<a, b>>
  BY DEF StartInit
<1> HIDE DEF a, b
<1>5. <<a, b>> \in Seq(Requests) /\ Len(<<a, b>>) = 2 /\ <<a, b>>[1] = a /\ <<a, b>>[2] = b
  BY <1>3
<1>6. /\ toServer' \in Seq(Requests) /\ Len(toServer') = Len(toServer) + 2
      /\ \A i \in 1 .. Len(toServer) + 2 :
            toServer'[i] = IF i <= Len(toServer) THEN toServer[i] ELSE <<a, b>>[i - Len(toServer)]
  BY <1>2, <1>4, <1>5, ConcatProperties
<1>7. \A i \in 1..Len(toServer) : toServer'[i] = toServer[i]
  BY <1>2, <1>6
<1>8. toServer'[Len(toServer) + 1] = a /\ toServer'[Len(toServer) + 2] = b
  <2>1. /\ Len(toServer) + 1 \in 1 .. Len(toServer) + 2 /\ Len(toServer) + 2 \in 1 .. Len(toServer) + 2
        /\ ~(Len(toServer) + 1 <= Len(toServer)) /\ ~(Len(toServer) + 2 <= Len(toServer))
        /\ Len(toServer) + 1 - Len(toServer) = 1 /\ Len(toServer) + 2 - Len(toServer) = 2
    BY <1>2
  <2> QED BY <1>5, <1>6, <2>1
<1>9. /\ a.op = "get_registry" /\ b.op = "sync" /\ a.reg = made' /\ b.reg = made' /\ made' \in 1..made'
  BY <1>1 DEF a, b, GetRegistry, SyncRequest
<1>10. ASSUME NEW i \in 1..Len(toServer) + 2, i \notin 1..Len(toServer)
       PROVE  /\ toServer'[i].op \in {"get_registry", "sync"} => toServer'[i].reg \in 1..made'
              /\ toServer'[i].op = "sync" => \E j \in 1..i : toServer'[j].op = "get_registry"
  <2>1. i = Len(toServer) + 1 \/ i = Len(toServer) + 2
    BY <1>2, <1>10
  <2>2. Len(toServer) + 1 \in 1..i
    BY <1>2, <2>1
  <2> QED BY <1>8, <1>9, <2>1, <2>2
<1>11. ServerQueue' /\ RegistryFirst'
  BY <1>1, <1>6, <1>7, <1>10, ServerGrows
<1>12. waiting' \in Seq(1..made')
  <2>1. waiting' = Append(waiting, made')
    BY <1>1 DEF StartInit
  <2>2. waiting \in Seq(1..made')
    <3>1. 1..made \subseteq 1..made'
      BY <1>1
    <3> QED BY <1>1, <3>1, SeqMonotonic
  <2> QED BY <1>9, <2>1, <2>2, AppendProperties
<1> QED BY <1>1, <1>11, <1>12

LEMMA RegistryStep == RegistryInv /\ [Next]_vars => RegistryInv'
<1> SUFFICES ASSUME RegistryInv, [Next]_vars PROVE RegistryInv'
  OBVIOUS
<1> USE RegistryConstants
<1>0. /\ RegistryTypeOK /\ ServerQueue /\ RegistryFirst /\ ClientQueue /\ KnownOnceDone
      /\ made \in Nat /\ known \in Nat /\ names \in Nat
      /\ toServer \in Seq(Requests) /\ Len(toServer) \in Nat
      /\ toClient \in Seq(Events) /\ Len(toClient) \in Nat
  BY DEF RegistryInv, RegistryTypeOK, ServerQueue, ClientQueue
<1>1. CASE Call
  <2>1. RegistryTypeOK' /\ ServerQueue' /\ RegistryFirst'
    <3>1. /\ ServerQueue' /\ RegistryFirst'
          /\ made' \in 0..MaxInits /\ made' = made + 1 /\ waiting' \in Seq(1..made')
      BY <1>1, Starts DEF Call, serverVars
    <3>2. known' \in 0..made' /\ fired' \subseteq 1..made'
      BY <1>0, <1>1, <3>1 DEF Call, serverVars, RegistryTypeOK
    <3> QED BY <1>0, <1>1, <3>1, <3>2 DEF Call, serverVars, RegistryTypeOK
  <2>2. ClientSide'
    <3>1. made' \in Nat /\ made' >= made
      BY <1>0, <1>1 DEF Call, StartInit
    <3> QED BY <1>1, <3>1, ClientKept DEF Call, serverVars
  <2>3. KnownOnceDone'
    BY <1>0, <1>1 DEF Call, serverVars, KnownOnceDone
  <2> QED BY <2>1, <2>2, <2>3 DEF RegistryInv, ClientSide
<1>2. CASE Return
  <2>1. waiting' \in Seq(1..made)
    <3>1. waiting \in Seq(1..made) /\ waiting # <<>> /\ waiting' = SubSeq(waiting, 1, Len(waiting) - 1)
      BY <1>0, <1>2 DEF Return, RegistryTypeOK
    <3>2. Len(waiting) - 1 \in Nat /\ Len(waiting) - 1 <= Len(waiting)
      BY <3>1
    <3>3. \A i \in 1..(Len(waiting) - 1) : waiting[i] \in 1..made
      <4>1. \A i \in 1..(Len(waiting) - 1) : i \in 1..Len(waiting)
        BY <3>2
      <4> QED BY <3>1, <4>1, ElementOfSeq
    <3> QED BY <3>1, <3>2, <3>3, SubSeqProperties
  <2>2. RegistryTypeOK'
    BY <1>0, <1>2, <2>1 DEF Return, serverVars, RegistryTypeOK
  <2>3. ServerQueue' /\ RegistryFirst'
    BY <1>0, <1>2, ServerKept DEF Return, serverVars
  <2>4. ClientSide'
    BY <1>0, <1>2, ClientKept DEF Return, serverVars
  <2>5. KnownOnceDone'
    BY <1>0, <1>2 DEF Return, serverVars, KnownOnceDone
  <2> QED BY <2>2, <2>3, <2>4, <2>5 DEF RegistryInv, ClientSide
<1>3. CASE HandleOutput
  <2>1. Receive(Output) /\ Output.op # "global"
    BY <1>3 DEF HandleOutput, Output
  <2>2. CASE StartInit
    <3>1. /\ ServerQueue' /\ RegistryFirst'
          /\ made' \in 0..MaxInits /\ made' = made + 1 /\ waiting' \in Seq(1..made')
      BY <1>3, <2>2, Starts DEF HandleOutput, serverVars
    <3>2. known' \in 0..made' /\ fired' \subseteq 1..made'
      BY <1>0, <1>3, <3>1 DEF HandleOutput, serverVars, RegistryTypeOK
    <3>3. RegistryTypeOK'
      BY <1>0, <1>3, <3>1, <3>2 DEF HandleOutput, serverVars, RegistryTypeOK
    <3>4. ClientSide'
      BY <1>0, <1>3, <2>1, <3>1, ClientReceives DEF HandleOutput, serverVars
    <3>5. KnownOnceDone'
      BY <1>0, <1>3 DEF HandleOutput, serverVars, KnownOnceDone
    <3> QED BY <3>1, <3>3, <3>4, <3>5 DEF RegistryInv, ClientSide
  <2>3. CASE UNCHANGED <<made, waiting, toServer>>
    <3>1. RegistryTypeOK'
      BY <1>0, <1>3, <2>3 DEF HandleOutput, serverVars, RegistryTypeOK
    <3>2. ServerQueue' /\ RegistryFirst'
      BY <1>0, <1>3, <2>3, ServerKept DEF HandleOutput, serverVars
    <3>3. ClientSide'
      BY <1>0, <1>3, <2>1, <2>3, ClientReceives DEF HandleOutput, serverVars
    <3>4. KnownOnceDone'
      BY <1>0, <1>3 DEF HandleOutput, serverVars, KnownOnceDone
    <3> QED BY <3>1, <3>2, <3>3, <3>4 DEF RegistryInv, ClientSide
  <2> QED BY <1>3, <2>2, <2>3 DEF HandleOutput
<1>4. ASSUME NEW r \in Registries, HandleDone(r) PROVE RegistryInv'
  <2>1. Receive(Done(r)) /\ Done(r).op = "done" /\ Done(r).reg = r
    BY <1>4 DEF HandleDone, Done
  <2>2. r \in 1..made /\ known >= 1
    <3>1. Done(r) = toClient[1] /\ 1 \in 1..Len(toClient)
      BY <1>0, <2>1, Received
    <3> QED BY <1>0, <2>1, <3>1 DEF ClientQueue
  <2>3. RegistryTypeOK' /\ KnownOnceDone'
    BY <1>0, <1>4, <2>2 DEF HandleDone, serverVars, RegistryTypeOK, KnownOnceDone
  <2>4. ServerQueue' /\ RegistryFirst'
    BY <1>0, <1>4, ServerKept DEF HandleDone, serverVars
  <2>5. ClientSide'
    BY <1>0, <1>4, <2>1, ClientReceives DEF HandleDone, serverVars
  <2> QED BY <2>3, <2>4, <2>5 DEF RegistryInv, ClientSide
<1>5. ASSUME NEW r \in Registries, NEW g \in Globals, HandleGlobal(r, g) PROVE RegistryInv'
  <2>1. lock_manager_global' \in [name : {g.name}, version : 1..ClientVersion] /\ g.name \in 1..MaxGlobals
    BY <1>5 DEF HandleGlobal, Globals
  <2>2. RegistryTypeOK'
    BY <1>0, <1>5, <2>1 DEF HandleGlobal, serverVars, RegistryTypeOK
  <2>3. ClientSide'
    BY <1>5, <2>1, ClientBinds DEF HandleGlobal, serverVars
  <2>4. ServerQueue' /\ RegistryFirst'
    <3> DEFINE e == Bind(r, g.name)
    <3>1. e \in Requests /\ e.op = "bind"
      BY <2>1, MessageTypes DEF Registries, Bind
    <3>2. toServer' = Append(toServer, e)
      BY <1>5 DEF HandleGlobal
    <3> HIDE DEF e
    <3>3. /\ toServer' \in Seq(Requests) /\ Len(toServer') = Len(toServer) + 1
          /\ \A i \in 1..Len(toServer) : toServer'[i] = toServer[i]
          /\ toServer'[Len(toServer) + 1] = e
      BY <1>0, <3>1, <3>2, Appended
    <3>4. \A i \in 1..Len(toServer) + 1 : i \notin 1..Len(toServer) => toServer'[i] = e
      BY <1>0, <3>3
    <3>5. made' = made /\ known' = known
      BY <1>5 DEF HandleGlobal, serverVars
    <3> QED BY <1>0, <3>1, <3>3, <3>4, <3>5, ServerGrows
  <2>5. KnownOnceDone'
    BY <1>0, <1>5 DEF HandleGlobal, serverVars, KnownOnceDone
  <2> QED BY <2>2, <2>3, <2>4, <2>5 DEF RegistryInv, ClientSide
<1>6. ASSUME NEW r \in Registries, NEW n \in 1..MaxGlobals, HandleGlobalRemove(r, n) PROVE RegistryInv'
  <2>1. Receive(GlobalRemove(r, n)) /\ GlobalRemove(r, n).op # "global"
    BY <1>6 DEF HandleGlobalRemove, GlobalRemove
  <2>2. RegistryTypeOK' /\ KnownOnceDone'
    BY <1>0, <1>6 DEF HandleGlobalRemove, clientVars, serverVars, RegistryTypeOK, KnownOnceDone
  <2>3. ServerQueue' /\ RegistryFirst'
    BY <1>0, <1>6, ServerKept DEF HandleGlobalRemove, clientVars, serverVars
  <2>4. ClientSide'
    BY <1>0, <1>6, <2>1, ClientReceives DEF HandleGlobalRemove, clientVars, serverVars
  <2> QED BY <2>2, <2>3, <2>4 DEF RegistryInv, ClientSide
<1>7. ASSUME NEW r \in Registries, HandleGetRegistry(r) PROVE RegistryInv'
  <2> DEFINE e == Global(r, advertised)
  <2>1. Read(GetRegistry(r)) /\ GetRegistry(r).op = "get_registry" /\ GetRegistry(r).reg = r
    BY <1>7 DEF HandleGetRegistry, GetRegistry
  <2>2. r \in 1..made
    <3>1. GetRegistry(r) = toServer[1] /\ 1 \in 1..Len(toServer)
      BY <1>0, <2>1, WasRead
    <3> QED BY <1>0, <2>1, <3>1 DEF ServerQueue
  <2>3. known' = r /\ known' >= 1 /\ made' = made
    BY <1>0, <1>7, <2>2 DEF HandleGetRegistry, clientVars
  <2>4. RegistryTypeOK' /\ KnownOnceDone'
    BY <1>0, <1>7, <2>2, <2>3 DEF HandleGetRegistry, clientVars, RegistryTypeOK, KnownOnceDone
  <2>5. ServerQueue' /\ RegistryFirst'
    BY <2>1, <2>3, ServerRead
  <2>6. ClientSide'
    <3>1. UNCHANGED <<advertised, names, lock_manager_global>>
      BY <1>7 DEF HandleGetRegistry, clientVars
    <3>2. advertised # NULL => advertised.name = names
      BY DEF RegistryInv, InOrder
    <3>3. CASE advertised = NULL
      <4>1. toClient' = toClient /\ Len(toClient') = Len(toClient) + 0
        BY <1>0, <1>7, <3>3 DEF HandleGetRegistry
      <4>2. \A i \in 1..Len(toClient) + 0 : i \in 1..Len(toClient)
        BY <1>0
      <4>3. ClientQueue'
        BY <1>0, <2>3, <4>1 DEF ClientQueue
      <4>4. InOrder'
        BY <3>1, <4>1 DEF RegistryInv, InOrder
      <4>5. HeldOrAnnounced'
        BY <3>1, <3>3 DEF HeldOrAnnounced
      <4> QED BY <4>3, <4>4, <4>5 DEF ClientSide
    <3>4. CASE advertised # NULL
      <4>1. e \in Events /\ e.op = "global" /\ e.global = advertised
        <5>1. advertised \in Globals /\ r \in Nat
          BY <1>0, <3>4, <2>2 DEF RegistryTypeOK
        <5> QED BY <5>1, MessageTypes DEF Global
      <4>2. toClient' = Append(toClient, e)
        BY <1>7, <3>4 DEF HandleGetRegistry
      <4> HIDE DEF e
      <4>3. /\ toClient' \in Seq(Events) /\ Len(toClient') = Len(toClient) + 1
            /\ \A i \in 1..Len(toClient) : toClient'[i] = toClient[i]
            /\ toClient'[Len(toClient) + 1] = e
        BY <1>0, <4>1, <4>2, Appended
      <4>4. /\ Len(toClient) + 1 \in 1..Len(toClient) + 1
            /\ \A i \in 1..Len(toClient) + 1 : i \notin 1..Len(toClient) => toClient'[i] = e
        BY <1>0, <4>3
      <4>5. known' \in Nat
        BY <2>2, <2>3
      <4> QED BY <1>0, <2>3, <3>1, <3>2, <3>4, <4>1, <4>3, <4>4, <4>5, ClientGrows
    <3> QED BY <3>3, <3>4
  <2> QED BY <2>4, <2>5, <2>6 DEF RegistryInv, ClientSide
<1>8. ASSUME NEW r \in Registries, HandleSync(r) PROVE RegistryInv'
  <2> DEFINE e == Done(r)
  <2>1. Read(SyncRequest(r)) /\ SyncRequest(r).op = "sync" /\ SyncRequest(r).reg = r
    BY <1>8 DEF HandleSync, SyncRequest
  <2>2. SyncRequest(r) = toServer[1] /\ 1 \in 1..Len(toServer)
    BY <1>0, <2>1, WasRead
  <2>3. r \in 1..made
    BY <1>0, <2>1, <2>2 DEF ServerQueue
  <2>4. known >= 1
    <3>1. \A j \in 1..1 : toServer[j].op = "sync"
      BY <2>1, <2>2
    <3> QED BY <1>0, <2>1, <2>2, <3>1 DEF RegistryFirst
  <2>5. RegistryTypeOK' /\ KnownOnceDone'
    BY <1>0, <1>8 DEF HandleSync, clientVars, serverVars, RegistryTypeOK, KnownOnceDone
  <2>6. ServerQueue' /\ RegistryFirst'
    BY <1>8, <2>1, ServerRead DEF HandleSync, clientVars, serverVars
  <2>7. ClientSide'
    <3>1. e \in Events /\ e.op = "done" /\ e.reg = r
      BY <2>3, MessageTypes DEF Done
    <3>2. toClient' = Append(toClient, e)
      BY <1>8 DEF HandleSync
    <3> HIDE DEF e
    <3>3. /\ toClient' \in Seq(Events) /\ Len(toClient') = Len(toClient) + 1
          /\ \A i \in 1..Len(toClient) : toClient'[i] = toClient[i]
          /\ toClient'[Len(toClient) + 1] = e
      BY <1>0, <3>1, <3>2, Appended
    <3>4. \A i \in 1..Len(toClient) + 1 : i \notin 1..Len(toClient) => toClient'[i] = e
      BY <1>0, <3>3
    <3>5. UNCHANGED <<made, known, advertised, names, lock_manager_global>>
      BY <1>8 DEF HandleSync, clientVars, serverVars
    <3>6. advertised' # NULL => advertised'.name = names'
      BY <3>5 DEF RegistryInv, InOrder
    <3> QED BY <1>0, <2>3, <2>4, <3>1, <3>3, <3>4, <3>5, <3>6, ClientGrows
  <2> QED BY <2>5, <2>6, <2>7 DEF RegistryInv, ClientSide
<1>9. ASSUME NEW r \in Registries, NEW n \in 1..MaxGlobals, HandleBind(r, n) PROVE RegistryInv'
  <2>1. Read(Bind(r, n)) /\ Bind(r, n).op = "bind"
    BY <1>9 DEF HandleBind, Bind
  <2>2. RegistryTypeOK' /\ KnownOnceDone'
    BY <1>0, <1>9 DEF HandleBind, clientVars, serverVars, RegistryTypeOK, KnownOnceDone
  <2>3. ServerQueue' /\ RegistryFirst'
    BY <1>9, <2>1, ServerRead DEF HandleBind, clientVars, serverVars
  <2>4. ClientSide'
    BY <1>0, <1>9, ClientKept DEF HandleBind, clientVars, serverVars
  <2> QED BY <2>2, <2>3, <2>4 DEF RegistryInv, ClientSide
<1>10. CASE AddGlobal
  <2> DEFINE b == [r \in 1..known |-> Global(r, advertised')]
  <2>1. PICK v \in ServerVersions : advertised' = [name |-> names + 1, version |-> v]
    BY <1>10 DEF AddGlobal
  <2>2. names' = names + 1 /\ names' \in 1..MaxGlobals
    BY <1>0, <1>10 DEF AddGlobal
  <2>3. advertised' \in Globals /\ advertised'.name = names' /\ advertised = NULL
    BY <1>10, <2>1, <2>2 DEF Globals, AddGlobal
  <2>4. RegistryTypeOK' /\ KnownOnceDone'
    BY <1>0, <1>10, <2>2, <2>3 DEF AddGlobal, clientVars, RegistryTypeOK, KnownOnceDone
  <2>5. ServerQueue' /\ RegistryFirst'
    BY <1>0, <1>10, ServerKept DEF AddGlobal, clientVars
  <2>6. ClientSide'
    <3>1. b \in [1..known -> Events]
      <4>1. \A r \in 1..known : r \in Nat
        BY <1>0
      <4> QED BY <2>3, <4>1, MessageTypes
    <3>2. \A r \in 1..known : b[r].op = "global" /\ b[r].global.name = names'
      BY <2>3 DEF Global
    <3>3. toClient' = toClient \o b
      BY <1>10 DEF AddGlobal
    <3> HIDE DEF b
    <3>4. /\ toClient' \in Seq(Events) /\ Len(toClient') = Len(toClient) + known
          /\ \A i \in 1..Len(toClient) : toClient'[i] = toClient[i]
          /\ \A i \in 1..known : toClient'[Len(toClient) + i] = b[i]
          /\ \A i \in 1..Len(toClient) + known : i \notin 1..Len(toClient) =>
                i - Len(toClient) \in 1..known /\ toClient'[i] = b[i - Len(toClient)]
      BY <1>0, <3>1, <3>3, Broadcast
    <3>5. \A i \in 1..Len(toClient) + known : i \notin 1..Len(toClient) =>
            toClient'[i].op = "global" /\ toClient'[i].global.name = names'
      BY <3>2, <3>4
    <3>6. UNCHANGED <<made, known, lock_manager_global>>
      BY <1>10 DEF AddGlobal, clientVars
    <3>7. known >= 1 =>
            \E i \in 1..Len(toClient) + known : toClient'[i].op = "global" /\ toClient'[i].global.name = names'
      <4>1. known >= 1 => Len(toClient) + 1 \in 1..Len(toClient) + known /\ Len(toClient) + 1 \notin 1..Len(toClient)
        BY <1>0
      <4> QED BY <3>5, <4>1
    <3>8. \A i \in 1..Len(toClient) + known : i \notin 1..Len(toClient) =>
            /\ toClient'[i].op = "done" => toClient'[i].reg \in 1..made /\ known' >= 1
            /\ toClient'[i].op = "global" => toClient'[i].global.name = names'
      BY <3>5
    <3>9. /\ names' \in Nat /\ names' >= names /\ known' \in Nat /\ known' = known
          /\ advertised' # NULL => advertised'.name = names'
      BY <1>0, <2>2, <2>3, <3>6
    <3>10. known' >= 1 /\ advertised' # NULL =>
              \E i \in 1..Len(toClient) + known : toClient'[i].op = "global" /\ toClient'[i].global.name = names'
      BY <3>7, <3>9
    <3> QED BY <1>0, <3>4, <3>6, <3>8, <3>9, <3>10, ClientGrows
  <2> QED BY <2>4, <2>5, <2>6 DEF RegistryInv, ClientSide
<1>11. CASE RemoveGlobal
  <2> DEFINE b == [r \in 1..known |-> GlobalRemove(r, advertised.name)]
  <2>1. advertised \in Globals /\ advertised.name \in Nat
    BY <1>0, <1>11 DEF RemoveGlobal, RegistryTypeOK, Globals
  <2>2. RegistryTypeOK' /\ KnownOnceDone'
    BY <1>0, <1>11 DEF RemoveGlobal, clientVars, RegistryTypeOK, KnownOnceDone
  <2>3. ServerQueue' /\ RegistryFirst'
    BY <1>0, <1>11, ServerKept DEF RemoveGlobal, clientVars
  <2>4. ClientSide'
    <3>1. b \in [1..known -> Events]
      <4>1. \A r \in 1..known : r \in Nat
        BY <1>0
      <4> QED BY <2>1, <4>1, MessageTypes
    <3>2. \A r \in 1..known : b[r].op = "global_remove"
      BY DEF GlobalRemove
    <3>3. toClient' = toClient \o b
      BY <1>11 DEF RemoveGlobal
    <3> HIDE DEF b
    <3>4. /\ toClient' \in Seq(Events) /\ Len(toClient') = Len(toClient) + known
          /\ \A i \in 1..Len(toClient) : toClient'[i] = toClient[i]
          /\ \A i \in 1..Len(toClient) + known : i \notin 1..Len(toClient) =>
                i - Len(toClient) \in 1..known /\ toClient'[i] = b[i - Len(toClient)]
      BY <1>0, <3>1, <3>3, Broadcast
    <3>5. \A i \in 1..Len(toClient) + known : i \notin 1..Len(toClient) => toClient'[i].op = "global_remove"
      BY <3>2, <3>4
    <3>6. UNCHANGED <<made, known, names, lock_manager_global>> /\ advertised' = NULL
      BY <1>11 DEF RemoveGlobal, clientVars
    <3>7. names' \in Nat /\ names' >= names /\ known' \in Nat /\ known' = known
      BY <1>0, <3>6
    <3>8. \A i \in 1..Len(toClient) + known : i \notin 1..Len(toClient) =>
            toClient'[i].op # "done" /\ toClient'[i].op # "global"
      BY <3>5
    <3> QED BY <1>0, <3>4, <3>6, <3>7, <3>8, ClientGrows
  <2> QED BY <2>2, <2>3, <2>4 DEF RegistryInv, ClientSide
<1>12. CASE AddOutput
  <2>1. RegistryTypeOK' /\ KnownOnceDone'
    BY <1>0, <1>12 DEF AddOutput, clientVars, RegistryTypeOK, KnownOnceDone
  <2>2. ServerQueue' /\ RegistryFirst'
    BY <1>0, <1>12, ServerKept DEF AddOutput, clientVars
  <2>3. ClientSide'
    <3>1. Output \in Events /\ Output.op = "output"
      BY MessageTypes DEF Output
    <3>2. /\ toClient' \in Seq(Events) /\ Len(toClient') = Len(toClient) + 1
          /\ \A i \in 1..Len(toClient) : toClient'[i] = toClient[i]
          /\ toClient'[Len(toClient) + 1] = Output
      BY <1>0, <1>12, <3>1, Appended DEF AddOutput
    <3>3. \A i \in 1..Len(toClient) + 1 : i \notin 1..Len(toClient) => toClient'[i] = Output
      BY <1>0, <3>2
    <3>4. UNCHANGED <<made, known, advertised, names, lock_manager_global>>
      BY <1>12 DEF AddOutput, clientVars
    <3>5. advertised' # NULL => advertised'.name = names'
      BY <3>4 DEF RegistryInv, InOrder
    <3> QED BY <1>0, <3>1, <3>2, <3>3, <3>4, <3>5, ClientGrows
  <2> QED BY <2>1, <2>2, <2>3 DEF RegistryInv, ClientSide
<1>13. CASE UNCHANGED vars
  <2>1. RegistryTypeOK' /\ KnownOnceDone'
    BY <1>0, <1>13 DEF vars, clientVars, serverVars, RegistryTypeOK, KnownOnceDone
  <2>2. ServerQueue' /\ RegistryFirst'
    BY <1>0, <1>13, ServerKept DEF vars, clientVars, serverVars
  <2>3. ClientSide'
    BY <1>0, <1>13, ClientKept DEF vars, clientVars, serverVars
  <2> QED BY <2>1, <2>2, <2>3 DEF RegistryInv, ClientSide
<1> QED
  BY <1>1, <1>2, <1>3, <1>4, <1>5, <1>6, <1>7, <1>8, <1>9, <1>10, <1>11, <1>12, <1>13
  DEF Next, Dispatch, Serve

LEMMA RegistryInvariant == Spec => []RegistryInv
<1> QED BY RegistryInit, RegistryStep, PTL DEF Spec

(* The library asks for no version it does not know, and its bookkeeping   *)
(* stays in range, however often init_if_needed is entered.                *)
THEOREM RegistryTypes == Spec => []RegistryTypeOK
<1>1. RegistryInv => RegistryTypeOK
  BY DEF RegistryInv
<1> QED BY <1>1, RegistryInvariant, PTL

(* Once init_if_needed has returned anywhere, the manager that the         *)
(* compositor offers is the one the library has bound, or is announced in  *)
(* an event still to come.                                                 *)
THEOREM TheManagerIsCurrent == Spec => []ManagerIsCurrent
<1>1. RegistryInv => ManagerIsCurrent
  <2> SUFFICES ASSUME RegistryInv, has_initialized, advertised # NULL, ~Announced
               PROVE  lock_manager_global # NULL /\ lock_manager_global.name = advertised.name
    BY DEF ManagerIsCurrent
  <2>1. known >= 1 /\ advertised.name = names
    BY DEF RegistryInv, KnownOnceDone, InOrder
  <2> QED BY <2>1 DEF RegistryInv, HeldOrAnnounced, Announced
<1> QED BY <1>1, RegistryInvariant, PTL
=============================================================================

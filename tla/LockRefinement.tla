-------------------------- MODULE LockRefinement --------------------------
(***************************************************************************)
(* SessionLock implements LockService: the phase of a lock is the state of *)
(* the one protocol object it ever had, read at the compositor, and what   *)
(* the application has been told are the signals emitted.  Requests and    *)
(* events on the wire, proxies and references have no counterpart.         *)
(***************************************************************************)
EXTENDS SessionLock

HasObj(l) == \E o \in Objs : listener[o] = l
ObjOf(l) == CHOOSE o \in Objs : listener[o] = l

PhaseOfRes(r) ==
    CASE r = "none"     -> IF connected THEN "asked" ELSE "over"
      [] r = "denied"   -> "refused"
      [] r = "locked"   -> "held"
      [] r = "revoked"  -> "taken"
      [] r = "gone"     -> "over"
      [] r = "stranded" -> "stranded"

phaseBar == [l \in Locks |-> IF HasObj(l) THEN PhaseOfRes(res[ObjOf(l)]) ELSE "idle"]
ownerBar == IF holder \in Objs THEN listener[holder] ELSE holder

Service == INSTANCE LockService
           WITH Nobody <- NULL, phase <- phaseBar, told <- signals, owner <- ownerBar

(* With a documented application every step is a step of the abstract      *)
(* service or invisible: session-lock.c relays the compositor's answers    *)
(* truly and in order, and its two destructors end exactly the lock they   *)
(* are called for.                                                         *)
ImplementsService == Service!Spec

(* The abstract invariants, read in the implementation's state: the lock   *)
(* the compositor thinks is granted is the one that holds the session,     *)
(* nobody opens the session under it, and no GtkSessionLockLock has told   *)
(* its application more than has happened.                                 *)
ServiceInvariant == Service!ServiceInv
=============================================================================

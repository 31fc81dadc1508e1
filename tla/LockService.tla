---------------------------- MODULE LockService ----------------------------
(***************************************************************************)
(* What the library promises of session locks, without pointers, proxies   *)
(* or messages: a lock is asked for once, granted to one holder at a time  *)
(* or refused, possibly taken back, and given up; what the application has *)
(* been told is a true, ordered account of it; and an unlocked session     *)
(* opens at once.  Module LockRefinement shows that SessionLock, with a    *)
(* documented application, implements it.                                  *)
(***************************************************************************)
CONSTANTS Locks, Nobody, Other

(* An assumption of the theorems; SessionLock's assumption implies it for  *)
(* the instance in LockRefinement.                                         *)
HoldersDiffer == Nobody \notin Locks /\ Other \notin Locks /\ Other # Nobody

VARIABLES
    phase,   \* per lock: how far it has come
    told,    \* per lock: the signals the application has seen
    owner,   \* who holds the session
    session

vars == <<phase, told, owner, session>>

Init ==
    /\ phase = [l \in Locks |-> "idle"]
    /\ told = [l \in Locks |-> {}]
    /\ \/ session = "open" /\ owner = Nobody
       \/ session = "locked" /\ owner = Other

Move(l, from, to) == phase[l] \in from /\ phase' = [phase EXCEPT ![l] = to]

Ask(l) == Move(l, {"idle"}, "asked") /\ UNCHANGED <<told, owner, session>>

Grant(l) ==
    /\ owner = Nobody /\ Move(l, {"asked"}, "held")
    /\ owner' = l /\ session' = "locked"
    /\ UNCHANGED told

Refuse(l) == Move(l, {"asked"}, "refused") /\ UNCHANGED <<told, owner, session>>

(* The compositor takes the lock back and opens the session or not.        *)
Take(l) ==
    /\ Move(l, {"held"}, "taken")
    /\ owner' = Nobody /\ session' \in {"open", "locked"}
    /\ UNCHANGED told

Release(l) ==
    /\ Move(l, {"held"}, "over")
    /\ owner' = Nobody /\ session' = "open"
    /\ UNCHANGED told

Retire(l) == Move(l, {"refused", "taken"}, "over") /\ UNCHANGED <<told, owner, session>>

TellLocked(l) ==
    /\ phase[l] \in {"held", "taken"} /\ told[l] = {}
    /\ told' = [told EXCEPT ![l] = {"locked"}]
    /\ UNCHANGED <<phase, owner, session>>

TellFinished(l) ==
    /\ \/ phase[l] = "refused" /\ told[l] = {}
       \/ phase[l] = "taken" /\ told[l] = {"locked"}
    /\ told' = [told EXCEPT ![l] = @ \cup {"finished"}]
    /\ UNCHANGED <<phase, owner, session>>

(* The client is gone; a session it holds stays locked without an owner.   *)
Die ==
    /\ phase' = [l \in Locks |-> CASE phase[l] = "idle" -> "idle"
                                   [] phase[l] = "held" -> "stranded"
                                   [] OTHER -> "over"]
    /\ owner' = IF owner \in Locks THEN Nobody ELSE owner
    /\ UNCHANGED <<told, session>>

OthersMove ==
    \/ owner = Nobody /\ owner' = Other /\ session' = "locked" /\ UNCHANGED <<phase, told>>
    \/ owner = Other /\ owner' = Nobody /\ session' = "open" /\ UNCHANGED <<phase, told>>

Next ==
    \/ \E l \in Locks : \/ Ask(l) \/ Grant(l) \/ Refuse(l) \/ Take(l) \/ Release(l)
                        \/ Retire(l) \/ TellLocked(l) \/ TellFinished(l)
    \/ Die \/ OthersMove

Spec == Init /\ [][Next]_vars

-----------------------------------------------------------------------------
TypeOK ==
    /\ phase \in [Locks -> {"idle", "asked", "refused", "held", "taken", "over", "stranded"}]
    /\ told \in [Locks -> SUBSET {"locked", "finished"}]
    /\ owner \in Locks \cup {Nobody, Other}
    /\ session \in {"open", "locked"}

(* At most one lock is held, and the session is locked for as long as it   *)
(* is: no step of anybody else opens it.                                   *)
HolderIsExclusive ==
    \A l \in Locks : phase[l] = "held" <=> owner = l

HeldIsLocked == owner # Nobody => session = "locked"

(* What the application is told never runs ahead of what happened.         *)
ToldIsTrue ==
    \A l \in Locks :
        /\ "locked" \in told[l] => phase[l] \in {"held", "taken", "over", "stranded"}
        /\ "finished" \in told[l] => phase[l] \in {"refused", "taken", "over"}

ServiceInv == TypeOK /\ HolderIsExclusive /\ HeldIsLocked /\ ToldIsTrue
=============================================================================

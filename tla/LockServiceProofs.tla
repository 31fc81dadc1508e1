------------------------- MODULE LockServiceProofs -------------------------
(***************************************************************************)
(* The promises of the abstract lock service hold for any set of locks.    *)
(***************************************************************************)
EXTENDS LockService, TLAPS

(* A step of one lock keeps the abstract invariant.                        *)
LEMMA LockMoves ==
    ASSUME HoldersDiffer, ServiceInv, NEW l \in Locks,
           \/ Ask(l) \/ Grant(l) \/ Refuse(l) \/ Take(l) \/ Release(l)
           \/ Retire(l) \/ TellLocked(l) \/ TellFinished(l)
    PROVE  ServiceInv'
<1> USE DEF HoldersDiffer, ServiceInv, TypeOK, HolderIsExclusive, HeldIsLocked, ToldIsTrue, Move
<1>1. CASE Ask(l)         BY <1>1 DEF Ask
<1>2. CASE Grant(l)       BY <1>2 DEF Grant
<1>3. CASE Refuse(l)      BY <1>3 DEF Refuse
<1>4. CASE Take(l)        BY <1>4 DEF Take
<1>5. CASE Release(l)     BY <1>5 DEF Release
<1>6. CASE Retire(l)      BY <1>6 DEF Retire
<1>7. CASE TellLocked(l)  BY <1>7 DEF TellLocked
<1>8. CASE TellFinished(l) BY <1>8 DEF TellFinished
<1>9. QED BY <1>1, <1>2, <1>3, <1>4, <1>5, <1>6, <1>7, <1>8

(* So does the client's death, and what other clients do.                  *)
LEMMA OthersKeep ==
    ASSUME HoldersDiffer, ServiceInv, Die \/ OthersMove
    PROVE  ServiceInv'
<1> USE DEF HoldersDiffer, ServiceInv, TypeOK, HolderIsExclusive, HeldIsLocked, ToldIsTrue
<1>1. CASE Die        BY <1>1 DEF Die
<1>2. CASE OthersMove BY <1>2 DEF OthersMove
<1>3. QED BY <1>1, <1>2

(* The session has one holder at a time, is locked while it has one, and   *)
(* no application is told of a lock or its end before it has happened.     *)
THEOREM ServiceKeepsItsPromise == ASSUME HoldersDiffer PROVE Spec => []ServiceInv
<1>1. Init => ServiceInv
  BY DEF HoldersDiffer, Init, ServiceInv, TypeOK, HolderIsExclusive, HeldIsLocked, ToldIsTrue
<1>2. ServiceInv /\ [Next]_vars => ServiceInv'
  <2> SUFFICES ASSUME ServiceInv, [Next]_vars PROVE ServiceInv' OBVIOUS
  <2>1. CASE Next BY <2>1, LockMoves, OthersKeep DEF Next
  <2>2. CASE UNCHANGED vars
    BY <2>2 DEF vars, ServiceInv, TypeOK, HolderIsExclusive, HeldIsLocked, ToldIsTrue
  <2>3. QED BY <2>1, <2>2
<1>3. QED BY <1>1, <1>2, PTL DEF Spec
=============================================================================

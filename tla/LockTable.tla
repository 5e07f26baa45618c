------------------------------ MODULE LockTable ------------------------------
(***************************************************************************)
(* What the lock manager promises its transactions, with queues, waiting   *)
(* and the latch left out: a table of the lock each transaction holds on   *)
(* each record.  A lock is granted only when it is compatible with every   *)
(* other holder's; a transaction loses a lock only by releasing it, or by  *)
(* being wounded by an older transaction (smaller id) under wound-wait,    *)
(* which may happen in the same step as the older one's grant.             *)
(***************************************************************************)
EXTENDS Integers

CONSTANTS Txns, Rids

VARIABLE holds      \* holds[t][r] \in {"none", "S", "X"}

Init == holds = [t \in Txns |-> [r \in Rids |-> "none"]]

\* Holders other than t leave room for mode m on r in table h.
Compatible(h, t, r, m) ==
    \A u \in Txns \ {t} : h[u][r] = "none" \/ (m = "S" /\ h[u][r] = "S")

\* The younger transactions in W lose their lock on r.
Drop(h, W, r) == [u \in Txns |-> IF u \in W THEN [h[u] EXCEPT ![r] = "none"] ELSE h[u]]

Younger(t) == {u \in Txns : u > t}

\* t wounds some younger holders on r and is granted m (S, X, or S to X).
Acquire(t, r, m) ==
    \E W \in SUBSET Younger(t) :
        LET h == Drop(holds, W, r) IN
        /\ Compatible(h, t, r, m)
        /\ holds' = [h EXCEPT ![t][r] = m]

\* t wounds some younger holders on r and waits.
Wound(t, r) ==
    \E W \in SUBSET Younger(t) : W # {} /\ holds' = Drop(holds, W, r)

Release(t, r) ==
    /\ holds[t][r] # "none"
    /\ holds' = [holds EXCEPT ![t][r] = "none"]

Next ==
    \E t \in Txns, r \in Rids :
        Acquire(t, r, "S") \/ Acquire(t, r, "X") \/ Wound(t, r) \/ Release(t, r)

Spec == Init /\ [][Next]_holds
=============================================================================

----------------------------- MODULE LockManager -----------------------------
(***************************************************************************)
(* The record lock manager of src/concurrency/lock_manager.cpp: one FIFO    *)
(* request queue per RID, an `upgrading_` flag per queue, one global latch *)
(* `latch_` and one condition variable per queue.  Every LockShared,       *)
(* LockExclusive and LockUpgrade call runs its `while(true)` loop body     *)
(* under `latch_`; the only point where the latch is released is           *)
(* `cv_.wait(ul)`.  One iteration of a loop body is therefore one atomic   *)
(* step of the model, and a call that waits is resumed by a later step.    *)
(*                                                                         *)
(* Transactions are the threads.  Their ids are integers because the       *)
(* wound-wait policy compares them (smaller id = older).  The transaction  *)
(* manager, which is not part of this repository's sources, is modelled as *)
(* the client: it issues calls, and on Commit/Abort releases every RID in  *)
(* the transaction's lock sets through Unlock, as TransactionManager's     *)
(* ReleaseLocks does.                                                      *)
(***************************************************************************)
EXTENDS Integers, SequencesExt, FiniteSets

CONSTANTS
    Txns,       \* transaction ids (a finite set of integers)
    Rids,       \* record ids (model values)
    Iso,        \* isolation level of each transaction: [Txns -> IsoLevels]
    MaxOps,     \* bound: lock/unlock calls a transaction issues before it ends
    NoRid       \* model value: the rid field of `call` when no call is pending

IsoLevels == {"READ_UNCOMMITTED", "READ_COMMITTED", "REPEATABLE_READ"}
TxnStates == {"GROWING", "SHRINKING", "COMMITTED", "ABORTED"}
Modes     == {"S", "X"}
Ops       == {"LockShared", "LockExclusive", "LockUpgrade"}

ASSUME /\ Txns \subseteq Int
       /\ Iso \in [Txns -> IsoLevels]
       /\ MaxOps \in Nat
       /\ NoRid \notin Rids

VARIABLES
    queue,        \* lock_table_[rid].request_queue_: Seq of LockRequest
    upgrading,    \* lock_table_[rid].upgrading_
    txnState,     \* Transaction::GetState()
    sharedSet,    \* Transaction::GetSharedLockSet()
    exclusiveSet, \* Transaction::GetExclusiveLockSet()
    pc,           \* "idle" | "wait" (in cv_.wait) | "ready" (notified,
                  \* reacquiring latch_) | "release" (ReleaseLocks) | "done"
    call,         \* the lock call a waiting/ready thread is inside
    ops           \* calls issued so far (bounded by MaxOps)

lockVars == <<queue, upgrading, txnState, sharedSet, exclusiveSet>>
vars == <<queue, upgrading, txnState, sharedSet, exclusiveSet, pc, call, ops>>

LockRequest == [txn : Txns, mode : Modes, granted : BOOLEAN]
NoCall == [op |-> "none", rid |-> NoRid]

-----------------------------------------------------------------------------
(* Mutants: plausible slips in the code, each replacing one definition     *)
(* below (see PROJECT.json "mutants").                                     *)

\* lines 85/95 compare with LockMode::SHARED instead of EXCLUSIVE
IsXWrongMode(e) == e.mode = "S"

\* the wounded txn's lock sets are not erased (lines 90, 164-165, 245-246)
EraseFromSkipped(S, W, r) == S

\* the SHRINKING check tests READ_COMMITTED instead of REPEATABLE_READ
ShrinkingRRWrongLevel(t) == Iso[t] = "READ_COMMITTED" /\ txnState[t] = "SHRINKING"

\* Unlock forgets cv_.notify_all()
NotifyAllDropped(r) == pc

\* try_Insert appends a new request without looking for the txn's own
TryInsertAlwaysAppend(q, t, m, g) == Append(q, [txn |-> t, mode |-> m, granted |-> g])

-----------------------------------------------------------------------------
(* Helpers translated from the loop bodies.                                *)

\* try_Insert: set `granted_ |= grant` on the txn's request, or append one.
TryInsert(q, t, m, g) ==
    LET i == SelectInSeq(q, LAMBDA e : e.txn = t)
    IN  IF i # 0 THEN [q EXCEPT ![i].granted = @ \/ g]
                 ELSE Append(q, [txn |-> t, mode |-> m, granted |-> g])

IsX(e) == e.mode = "X"

\* The requests a scan reacts to: exclusive ones only (LockShared, lines
\* 85/95), or every request (LockExclusive, LockUpgrade).
Conflicts(e, xOnly) == ~xOnly \/ IsX(e)

\* Index at which the queue scan stops: the first request of an older txn
\* that makes the caller wait, or (if selfStops) the caller's own request.
\* Len(q) + 1 when the scan runs off the end of the queue.
ScanStop(q, t, xOnly, selfStops) ==
    LET i == SelectInSeq(q, LAMBDA e : (e.txn < t /\ Conflicts(e, xOnly))
                                        \/ (selfStops /\ e.txn = t))
    IN  IF i = 0 THEN Len(q) + 1 ELSE i

\* Mutant: the scan wounds the older conflicting txns instead.
WoundedBeforeOlder(q, t, stop, xOnly) ==
    {q[i].txn : i \in {j \in 1 .. stop - 1 : q[j].txn < t /\ Conflicts(q[j], xOnly)}}

\* The younger txns whose requests the scan erases before it stops.
WoundedBefore(q, t, stop, xOnly) ==
    {q[i].txn : i \in {j \in 1 .. stop - 1 : q[j].txn > t /\ Conflicts(q[j], xOnly)}}

\* The scan stopped at an older txn's request: the caller waits.
MustWait(q, t, stop) == stop <= Len(q) /\ q[stop].txn # t

WithoutTxns(q, W) == SelectSeq(q, LAMBDA e : e.txn \notin W)

\* GetTransaction(id)->SetState(ABORTED) for every wounded txn.
Wound(W) == [x \in Txns |-> IF x \in W THEN "ABORTED" ELSE txnState[x]]

\* GetXxxLockSet()->erase(rid) for every wounded txn.
EraseFrom(S, W, r) == [x \in Txns |-> IF x \in W THEN S[x] \ {r} ELSE S[x]]


Finished(t) == txnState[t] \in {"ABORTED", "COMMITTED"}
ShrinkingRR(t) == Iso[t] = "REPEATABLE_READ" /\ txnState[t] = "SHRINKING"

\* The call returns to its caller (true or false, the model does not need
\* which) with the lock state left as the step sets it.
Return(t) == /\ pc' = [pc EXCEPT ![t] = "idle"]
             /\ call' = [call EXCEPT ![t] = NoCall]

Wait(t, op, r) == /\ pc' = [pc EXCEPT ![t] = "wait"]
                  /\ call' = [call EXCEPT ![t] = [op |-> op, rid |-> r]]

\* An early `SetState(ABORTED); return false;`
AbortAndReturn(t) ==
    /\ txnState' = [txnState EXCEPT ![t] = "ABORTED"]
    /\ Return(t)
    /\ UNCHANGED <<queue, upgrading, sharedSet, exclusiveSet>>

-----------------------------------------------------------------------------
(* One iteration of each `while(true)` loop, run under latch_.             *)

\* LockShared: wound younger X requests, wait behind an older X request,
\* stop at the caller's own request; otherwise grant.
LockShared(t, r) ==
    \/ /\ Finished(t)
       /\ Return(t) /\ UNCHANGED lockVars
    \/ /\ ~Finished(t)
       /\ Iso[t] = "READ_UNCOMMITTED" \/ ShrinkingRR(t)
       /\ AbortAndReturn(t)
    \/ /\ ~Finished(t) /\ Iso[t] # "READ_UNCOMMITTED" /\ ~ShrinkingRR(t)
       /\ r \in sharedSet[t]
       /\ Return(t) /\ UNCHANGED lockVars
    \/ /\ ~Finished(t) /\ Iso[t] # "READ_UNCOMMITTED" /\ ~ShrinkingRR(t)
       /\ r \notin sharedSet[t]
       /\ LET q    == queue[r]
              stop == ScanStop(q, t, TRUE, TRUE)
              W    == WoundedBefore(q, t, stop, TRUE)
              q1   == WithoutTxns(q, W)
          IN  /\ exclusiveSet' = EraseFrom(exclusiveSet, W, r)
              /\ IF MustWait(q, t, stop)
                 THEN /\ queue' = [queue EXCEPT ![r] = TryInsert(q1, t, "S", FALSE)]
                      /\ txnState' = Wound(W)
                      /\ sharedSet' = sharedSet
                      /\ Wait(t, "LockShared", r)
                 ELSE /\ queue' = [queue EXCEPT ![r] = TryInsert(q1, t, "S", TRUE)]
                      /\ txnState' = [Wound(W) EXCEPT ![t] = "GROWING"]
                      /\ sharedSet' = [sharedSet EXCEPT ![t] = @ \cup {r}]
                      /\ Return(t)
       /\ UNCHANGED upgrading

\* LockExclusive: wound every younger request, wait behind any older one.
LockExclusive(t, r) ==
    \/ /\ Finished(t)
       /\ Return(t) /\ UNCHANGED lockVars
    \/ /\ ~Finished(t) /\ ShrinkingRR(t)
       /\ AbortAndReturn(t)
    \/ /\ ~Finished(t) /\ ~ShrinkingRR(t)
       /\ r \in exclusiveSet[t]
       /\ Return(t) /\ UNCHANGED lockVars
    \/ /\ ~Finished(t) /\ ~ShrinkingRR(t)
       /\ r \notin exclusiveSet[t]
       /\ LET q    == queue[r]
              stop == ScanStop(q, t, FALSE, TRUE)
              W    == WoundedBefore(q, t, stop, FALSE)
              q1   == WithoutTxns(q, W)
              sh   == EraseFrom(sharedSet, W, r)
              ex   == EraseFrom(exclusiveSet, W, r)
          IN  /\ sharedSet' = sh
              /\ IF MustWait(q, t, stop)
                 THEN /\ queue' = [queue EXCEPT ![r] = TryInsert(q1, t, "X", FALSE)]
                      /\ txnState' = Wound(W)
                      /\ exclusiveSet' = ex
                      /\ Wait(t, "LockExclusive", r)
                 ELSE /\ queue' = [queue EXCEPT ![r] = TryInsert(q1, t, "X", TRUE)]
                      /\ txnState' = [Wound(W) EXCEPT ![t] = "GROWING"]
                      /\ exclusiveSet' = [ex EXCEPT ![t] = @ \cup {r}]
                      /\ Return(t)
       /\ UNCHANGED upgrading

\* LockUpgrade: refuse if another upgrade is flagged, set `upgrading_`,
\* wound younger requests and wait behind older ones (without inserting a
\* request, and without clearing the flag).  On grant, flip the mode of the
\* request at the FRONT of the queue to EXCLUSIVE and clear the flag.
LockUpgrade(t, r) ==
    \/ /\ Finished(t)
       /\ Return(t) /\ UNCHANGED lockVars
    \/ /\ ~Finished(t) /\ ShrinkingRR(t)
       /\ AbortAndReturn(t)
    \/ /\ ~Finished(t) /\ ~ShrinkingRR(t)
       /\ r \in exclusiveSet[t] \/ upgrading[r]
       /\ Return(t) /\ UNCHANGED lockVars
    \/ /\ ~Finished(t) /\ ~ShrinkingRR(t)
       /\ r \notin exclusiveSet[t] /\ ~upgrading[r]
       /\ LET q    == queue[r]
              stop == ScanStop(q, t, FALSE, FALSE)
              W    == WoundedBefore(q, t, stop, FALSE)
              q1   == WithoutTxns(q, W)
              sh   == EraseFrom(sharedSet, W, r)
              ex   == EraseFrom(exclusiveSet, W, r)
              q2   == TryInsert(q1, t, "X", TRUE)
          IN  /\ txnState' = Wound(W)
              /\ IF MustWait(q, t, stop)
                 THEN /\ queue' = [queue EXCEPT ![r] = q1]
                      /\ upgrading' = [upgrading EXCEPT ![r] = TRUE]
                      /\ sharedSet' = sh
                      /\ exclusiveSet' = ex
                      /\ Wait(t, "LockUpgrade", r)
                 ELSE /\ queue' = [queue EXCEPT ![r] = [q2 EXCEPT ![1].mode = "X"]]
                      /\ upgrading' = [upgrading EXCEPT ![r] = FALSE]
                      /\ sharedSet' = [sh EXCEPT ![t] = @ \ {r}]
                      /\ exclusiveSet' = [ex EXCEPT ![t] = @ \cup {r}]
                      /\ Return(t)

\* cv_.notify_all(): every thread waiting on the queue's cv is woken.
NotifyAll(r) == [x \in Txns |-> IF pc[x] = "wait" /\ call[x].rid = r
                                THEN "ready" ELSE pc[x]]

\* Unlock: REPEATABLE_READ + GROWING -> SHRINKING, then erase the caller's
\* request, erase rid from both lock sets and notify_all on the queue's cv.
Unlock(t, r) ==
    LET i == SelectInSeq(queue[r], LAMBDA e : e.txn = t)
    IN  /\ txnState' = IF Iso[t] = "REPEATABLE_READ" /\ txnState[t] = "GROWING"
                       THEN [txnState EXCEPT ![t] = "SHRINKING"]
                       ELSE txnState
        /\ IF i # 0
           THEN /\ queue' = [queue EXCEPT ![r] = RemoveAt(@, i)]
                /\ sharedSet' = [sharedSet EXCEPT ![t] = @ \ {r}]
                /\ exclusiveSet' = [exclusiveSet EXCEPT ![t] = @ \ {r}]
                /\ pc' = NotifyAll(r)
           ELSE /\ UNCHANGED <<queue, sharedSet, exclusiveSet, pc>>
        /\ UNCHANGED upgrading

-----------------------------------------------------------------------------
(* The transaction threads: calls into the lock manager, and the          *)
(* transaction manager's Commit / Abort followed by ReleaseLocks.         *)
(* Calls follow [LOCK_NOTE] in lock_manager.h: a txn does not lock a RID   *)
(* it already holds, upgrades only a RID it holds shared, and unlocks only *)
(* a RID it holds.                                                         *)

Held(t) == sharedSet[t] \cup exclusiveSet[t]

Callable(t) == pc[t] = "idle" /\ ~Finished(t) /\ ops[t] < MaxOps

Request(t, op, r) ==
    /\ Callable(t)
    /\ ops' = [ops EXCEPT ![t] = @ + 1]
    /\ \/ op = "LockShared"    /\ r \notin Held(t) /\ LockShared(t, r)
       \/ op = "LockExclusive" /\ r \notin Held(t) /\ LockExclusive(t, r)
       \/ op = "LockUpgrade"   /\ r \in sharedSet[t] /\ r \notin exclusiveSet[t]
                               /\ LockUpgrade(t, r)

ClientUnlock(t, r) ==
    /\ Callable(t)
    /\ r \in Held(t)
    /\ ops' = [ops EXCEPT ![t] = @ + 1]
    /\ Unlock(t, r)
    /\ UNCHANGED call

\* A notified waiter reacquires latch_ and runs its loop body again.
Resume(t) ==
    /\ pc[t] = "ready"
    /\ \/ call[t].op = "LockShared"    /\ LockShared(t, call[t].rid)
       \/ call[t].op = "LockExclusive" /\ LockExclusive(t, call[t].rid)
       \/ call[t].op = "LockUpgrade"   /\ LockUpgrade(t, call[t].rid)
    /\ UNCHANGED ops

\* std::condition_variable::wait may return without a notify.
SpuriousWakeup(t) ==
    /\ pc[t] = "wait"
    /\ pc' = [pc EXCEPT ![t] = "ready"]
    /\ UNCHANGED <<lockVars, call, ops>>

\* TransactionManager::Commit: SetState(COMMITTED), then ReleaseLocks.
Commit(t) ==
    /\ pc[t] = "idle" /\ ~Finished(t)
    /\ txnState' = [txnState EXCEPT ![t] = "COMMITTED"]
    /\ pc' = [pc EXCEPT ![t] = "release"]
    /\ UNCHANGED <<queue, upgrading, sharedSet, exclusiveSet, call, ops>>

\* TransactionManager::Abort: SetState(ABORTED), then ReleaseLocks.
Abort(t) ==
    /\ pc[t] = "idle" /\ txnState[t] # "COMMITTED"
    /\ txnState' = [txnState EXCEPT ![t] = "ABORTED"]
    /\ pc' = [pc EXCEPT ![t] = "release"]
    /\ UNCHANGED <<queue, upgrading, sharedSet, exclusiveSet, call, ops>>

\* ReleaseLocks: Unlock every RID of the shared and exclusive lock sets.
Release(t, r) ==
    /\ pc[t] = "release"
    /\ r \in Held(t)
    /\ Unlock(t, r)
    /\ UNCHANGED <<call, ops>>

ReleaseDone(t) ==
    /\ pc[t] = "release"
    /\ Held(t) = {}
    /\ pc' = [pc EXCEPT ![t] = "done"]
    /\ UNCHANGED <<lockVars, call, ops>>

\* Every transaction has ended: the system stops.
Terminated ==
    /\ \A t \in Txns : pc[t] = "done"
    /\ UNCHANGED vars

Init ==
    /\ queue = [r \in Rids |-> <<>>]
    /\ upgrading = [r \in Rids |-> FALSE]
    /\ txnState = [t \in Txns |-> "GROWING"]
    /\ sharedSet = [t \in Txns |-> {}]
    /\ exclusiveSet = [t \in Txns |-> {}]
    /\ pc = [t \in Txns |-> "idle"]
    /\ call = [t \in Txns |-> NoCall]
    /\ ops = [t \in Txns |-> 0]

Next ==
    \/ \E t \in Txns, op \in Ops, r \in Rids : Request(t, op, r)
    \/ \E t \in Txns, r \in Rids : ClientUnlock(t, r)
    \/ \E t \in Txns : Resume(t) \/ SpuriousWakeup(t)
    \/ \E t \in Txns : Commit(t) \/ Abort(t)
    \/ \E t \in Txns, r \in Rids : Release(t, r)
    \/ \E t \in Txns : ReleaseDone(t)
    \/ Terminated

\* A notified thread gets latch_ back; the transaction manager finishes
\* ReleaseLocks; a transaction eventually commits or aborts (its calls are
\* bounded by MaxOps).  No fairness on SpuriousWakeup.
Fairness ==
    \A t \in Txns :
        /\ WF_vars(Resume(t))
        /\ WF_vars(\E r \in Rids : Release(t, r))
        /\ WF_vars(ReleaseDone(t))
        /\ WF_vars(Commit(t) \/ Abort(t))

Spec == Init /\ [][Next]_vars /\ Fairness

-----------------------------------------------------------------------------
(* Properties                                                              *)

TypeOK ==
    /\ queue \in [Rids -> Seq(LockRequest)]
    /\ upgrading \in [Rids -> BOOLEAN]
    /\ txnState \in [Txns -> TxnStates]
    /\ sharedSet \in [Txns -> SUBSET Rids]
    /\ exclusiveSet \in [Txns -> SUBSET Rids]
    /\ pc \in [Txns -> {"idle", "wait", "ready", "release", "done"}]
    /\ call \in [Txns -> [op : Ops, rid : Rids] \cup {NoCall}]
    /\ ops \in [Txns -> 0 .. MaxOps]

\* Every RID's queue holds at most one request per transaction.  A waiter
\* calls try_Insert(false) again on every pass of its loop, after each
\* notify or spurious wakeup, and a granted caller calls try_Insert(true)
\* on a queue where its waiting request may still be: try_Insert must find
\* and update that request, or the queue fills with copies that later scans
\* stop at and Unlock erases only one of.
OneRequestPerTxn ==
    \A r \in Rids : \A i, j \in DOMAIN queue[r] :
        i # j => queue[r][i].txn # queue[r][j].txn

\* Spec 8: if a txn holds an exclusive lock on a RID (the RID is in its
\* exclusive lock set), no other txn holds any lock on it.  Wound-wait
\* erasures in LockShared/LockExclusive/LockUpgrade and the wait conditions
\* of the queue scans are what keep this true.
ExclusiveHeldAlone ==
    \A r \in Rids, a, b \in Txns :
        a # b /\ r \in exclusiveSet[a] => r \notin Held(b)

\* The lock sets a txn sees agree with the queue: a RID is in a txn's
\* exclusive (shared) lock set iff the queue holds a granted EXCLUSIVE
\* (SHARED) request of that txn.  try_Insert keeps the mode of an existing
\* request, and LockUpgrade flips the mode of the queue's front request,
\* not the caller's: both are places where the two views could part.
GrantedMatchesLockSets ==
    \A t \in Txns, r \in Rids :
        LET Granted(m) == \E i \in DOMAIN queue[r] :
                              queue[r][i] = [txn |-> t, mode |-> m, granted |-> TRUE]
        IN  /\ r \in exclusiveSet[t] <=> Granted("X")
            /\ r \in sharedSet[t] <=> Granted("S")

\* Strict 2PL (spec 8): once a REPEATABLE_READ txn has unlocked (is
\* SHRINKING), no step adds a RID to its lock sets.
StrictTwoPhase ==
    [][\A t \in Txns :
         Iso[t] = "REPEATABLE_READ" /\ txnState[t] = "SHRINKING"
            => /\ sharedSet'[t] \subseteq sharedSet[t]
               /\ exclusiveSet'[t] \subseteq exclusiveSet[t]]_vars

\* Wound-wait is deadlock free (spec 5): every transaction eventually ends
\* its calls, commits or aborts, and releases its locks.
AllTransactionsFinish == <>(\A t \in Txns : pc[t] = "done")

\* The `upgrading_` flag of a queue is set only while some txn is inside a
\* LockUpgrade call on that RID (spec 4.4: "... clear upgrading").
UpgradeFlagOwned ==
    \A r \in Rids :
        upgrading[r] => \E t \in Txns :
                           /\ pc[t] \in {"wait", "ready"}
                           /\ call[t] = [op |-> "LockUpgrade", rid |-> r]


\* The lock each transaction holds, as its lock sets record it.
Holds == [t \in Txns |-> [r \in Rids |->
            IF r \in exclusiveSet[t] THEN "X" ELSE IF r \in sharedSet[t] THEN "S" ELSE "none"]]

LT == INSTANCE LockTable WITH holds <- Holds

\* Every step of LockShared, LockExclusive, LockUpgrade, Unlock and the
\* transaction manager is a step of the lock table: a grant compatible with
\* every other holder, possibly after wounding younger holders, a wound of
\* younger holders only, or a release.  No call takes a lock away from an
\* older transaction or from one it does not wound.
LockTableRefined == LT!Spec

=============================================================================

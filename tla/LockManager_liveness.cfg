\* Liveness on one record: transactions 1 (REPEATABLE_READ), 2
\* (READ_UNCOMMITTED) and 3 (READ_COMMITTED), 3 calls each, under the
\* fairness of LockManager.Spec; and the refinement of LockTable.
CONSTANTS
    r1 = r1
    r2 = r2
    noRid = noRid
    NoRid <- noRid
    Txns <- MCTxns
    Rids <- MCRidsOne
    Iso <- MCIsoAll
    MaxOps = 3
SPECIFICATION Spec
PROPERTY AllTransactionsFinish
PROPERTY LockTableRefined

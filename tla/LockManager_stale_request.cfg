\* Two records, 2 calls each: a transaction wounded on r2 while waiting
\* on r1 leaves its request in r1's queue, and the youngest waits on it
\* forever (the stuck state is a deadlock, so deadlock is not reported).
CONSTANTS
    r1 = r1
    r2 = r2
    noRid = noRid
    NoRid <- noRid
    Txns <- MCTxns
    Rids <- MCRidsTwo
    Iso <- MCIsoRR
    MaxOps = 2
SPECIFICATION Spec
PROPERTY AllTransactionsFinish
CHECK_DEADLOCK FALSE

\* Upgrade on one record, all REPEATABLE_READ: an upgrade that waits
\* returns with upgrading_ still set.
CONSTANTS
    r1 = r1
    r2 = r2
    noRid = noRid
    NoRid <- noRid
    Txns <- MCTxns
    Rids <- MCRidsOne
    Iso <- MCIsoRR
    MaxOps = 3
SPECIFICATION Spec
INVARIANT UpgradeFlagOwned

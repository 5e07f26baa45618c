--------------------------- MODULE MC_LockManager ---------------------------
(* Instantiation of LockManager for TLC.                                  *)
EXTENDS LockManager, TLC

CONSTANTS r1, r2, noRid

\* Three transactions: 1 is the oldest.  Two of them run at
\* REPEATABLE_READ (strict 2PL applies), one at READ_COMMITTED.
MCTxns == {1, 2, 3}
MCIsoMixed == 1 :> "REPEATABLE_READ" @@ 2 :> "READ_COMMITTED" @@ 3 :> "REPEATABLE_READ"
MCIsoRR == [t \in MCTxns |-> "REPEATABLE_READ"]
MCIsoAll == 1 :> "REPEATABLE_READ" @@ 2 :> "READ_UNCOMMITTED" @@ 3 :> "READ_COMMITTED"

MCRidsOne == {r1}
MCRidsTwo == {r1, r2}

RidSymmetry == Permutations(MCRidsTwo)
=============================================================================

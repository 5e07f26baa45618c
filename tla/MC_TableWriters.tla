-------------------------- MODULE MC_TableWriters --------------------------
(***************************************************************************)
(* A table of three RIDs with keys and values in {0, 1}.  Scans select     *)
(* key 0, key 1 or every row.  Update plans are chosen per run.           *)
(***************************************************************************)
EXTENDS TableWriters

MCRids == 1..3

MCPreds == {{0}, {1}, {0, 1}}

\* UPDATE ... SET val = 1, and UPDATE ... SET val = val + 1: the key is
\* left as it was.
SetNonKey == {2 :> [type |-> "Set", val |-> 1], 2 :> [type |-> "Add", val |-> 1]}

=============================================================================

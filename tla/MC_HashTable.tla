----------------------------- MODULE MC_HashTable -----------------------------
EXTENDS HashTable, TLC
CONSTANTS c1, c2, v, noCall, noPair
MCClients == {c1, c2}
MCKeys == {0, 1, 3}
MCHash == [k \in MCKeys |-> k]
MCKeys4 == {0, 1, 3, 5}
MCHash4 == [k \in MCKeys4 |-> k]
\* The two clients run the same code and nothing names either of them.
ClientSymmetry == Permutations(MCClients)
=============================================================================

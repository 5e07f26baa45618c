------------------------ MODULE MC_BufferPoolInstance ------------------------
EXTENDS BufferPoolInstance, TLC
CONSTANTS c1, c2, noFrame, noPage, invalidPageId, v1
MCClients == {c1, c2}
MCValues == {v1}
ClientSymmetry == Permutations(MCClients)
=============================================================================

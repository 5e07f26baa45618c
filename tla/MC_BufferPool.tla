----------------------------- MODULE MC_BufferPool -----------------------------
EXTENDS BufferPool, TLC
CONSTANTS c1, c2, noFrame, noPage, invalidPageId, v1
MCClients == {c1, c2}
MCFrames == {0, 1}
MCPageIds == {0, 1, 2}
MCValues == {v1}
ClientSymmetry == Permutations(MCClients)
=============================================================================

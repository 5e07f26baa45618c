-------------------------- MODULE MC_LRUKReplacer --------------------------
EXTENDS LRUKReplacerCalls, TLC
CONSTANTS noFrame
MCFrames == {0, 1, 2}
=============================================================================

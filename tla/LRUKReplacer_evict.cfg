\* Three frames, K = 2, up to 7 recorded accesses: enough for frames with
\* fewer than, and exactly, K accesses to compete.
CONSTANTS
    noFrame = noFrame
    NoFrame <- noFrame
    Frames <- MCFrames
    K = 2
    MaxTs = 7
SPECIFICATION Spec
INVARIANT TypeOK
INVARIANT SizeCountsEvictable
INVARIANT EvictIsLRUK

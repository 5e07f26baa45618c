\* Two clients, three calls each, keys {0,1,3,5} hashed by identity, two
\* slots per bucket page, directory up to depth 2: splits that deepen the
\* directory (1, 3 and 5 share their low bit), merges that shrink it,
\* merges run with a bucket index computed before another thread changed
\* the directory, slots freed by Remove and taken again by Insert, and
\* both clients inserting the same pair.
CONSTANTS
    c1 = c1  c2 = c2  v = v  noCall = noCall  noPair = noPair
    NoPair <- noPair
    Clients <- MCClients
    Keys <- MCKeys4
    Vals = {v}
    Hash <- MCHash4
    NoCall <- noCall
    BucketSize = 2
    MaxDepth = 2
    MaxPages = 4
    MaxOps = 3
SPECIFICATION Spec
INVARIANT TypeOK
INVARIANT DirectoryIntegrity
INVARIANT BucketSlotsConsistent
INVARIANT SplitReInsertAsserts
CONSTRAINT PageBound
SYMMETRY ClientSymmetry

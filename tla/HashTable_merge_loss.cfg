\* One client, four calls: insert 1 and 3 (two splits), remove 0 from
\* the now-empty bucket 0; Merge folds the directory onto bucket 1's page
\* and key 3 can no longer be found.
CONSTANTS
    c1 = c1  c2 = c2  v = v  noCall = noCall  noPair = noPair
    NoPair <- noPair
    Clients = {c1}
    Keys <- MCKeys
    Vals = {v}
    Hash <- MCHash
    NoCall <- noCall
    BucketSize = 1
    MaxDepth = 2
    MaxPages = 4
    MaxOps = 4
SPECIFICATION Spec
PROPERTY Linearizable
CONSTRAINT PageBound

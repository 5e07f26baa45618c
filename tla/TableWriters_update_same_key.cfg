\* An Update that leaves the key column as it was: the index keeps
\* matching the heap (spec 4.6: each index entry is replaced).
CONSTANTS
    Rids <- MCRids
    KeyVals = {0, 1}
    ColVals = {0, 1}
    Preds <- MCPreds
    UpdatePlans <- SetNonKey
    MaxInsert = 2
    MaxQueries = 4
    Empty = Empty
    Deleted = Deleted
SPECIFICATION Spec
INVARIANT IndexMatchesHeap

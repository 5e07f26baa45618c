\* NestedLoopJoin(Scan, Scan): the join returns every matching pair of
\* rows (spec 4.6).
CONSTANTS
    Vals <- MCVals
    Key <- MCKey
    MaxRows = 2
    Plans <- NestedLoopJoinOnly
SPECIFICATION Spec
INVARIANT ResultCorrect

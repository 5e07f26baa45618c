\* HashJoin(Scan, Scan), Limit(Distinct(HashJoin(Scan, Scan))) and Aggregation(Scan) with GROUP BY
\* and HAVING, over every pair of tables of up to three rows: the result is
\* the reference result.
CONSTANTS
    Vals <- MCVals
    Key <- MCKey
    MaxRows = 3
    Plans <- PipelineAndAggregation
SPECIFICATION Spec
INVARIANT ResultCorrect

--------------------------- MODULE MC_Executors ---------------------------
(***************************************************************************)
(* Plans and data for checking Executors.  Base rows are 1..3 and the     *)
(* key column is the row's parity, so every table of up to three rows has  *)
(* duplicate rows and duplicate keys.                                      *)
(***************************************************************************)
EXTENDS Executors

MCVals == {1, 2, 3}

MCKey(v) == v % 2

Scan(t, p) == [kind |-> "scan", tbl |-> t, pred |-> p, cur |-> 1]

\* SELECT DISTINCT ... FROM l JOIN r ON key (hash join) LIMIT n, with a
\* filter on the left scan.
PlanHashJoinPipeline(l, r, n) ==
    [kind |-> "limit", limit |-> n, n |-> 0,
     child |-> [kind |-> "distinct", seen |-> {},
                child |-> [kind |-> "hashjoin", fl |-> -1, rtu |-> NoRow,
                           map |-> <<>>,
                           left |-> Scan(l, {1, 2}), right |-> Scan(r, MCVals)]]]

\* SELECT ... FROM l JOIN r ON key (hash join) with no operator above it
\* and no filter: rows 1 and 3 of the left table share a key, so a cursor
\* that skips or repeats a left match changes the output.
PlanHashJoin(l, r) ==
    [kind |-> "hashjoin", fl |-> -1, rtu |-> NoRow, map |-> <<>>,
     left |-> Scan(l, MCVals), right |-> Scan(r, MCVals)]

\* SELECT key, COUNT-star FROM l GROUP BY key HAVING COUNT-star > h.
PlanAggregation(l, r, h) ==
    [kind |-> "agg", having |-> h, aht |-> <<>>, order |-> <<>>, it |-> 1,
     child |-> Scan(l, MCVals)]

\* SELECT ... FROM l JOIN r ON key (nested-loop join).
PlanNestedLoopJoin(l, r) ==
    [kind |-> "nlj", left |-> Scan(l, MCVals), right |-> Scan(r, MCVals)]

\* The plans of the passing run: LIMIT 0 (nothing is pulled from the
\* child) and LIMIT 2 (cut short or not, depending on the tables), HAVING
\* that keeps every group and HAVING that drops the single-row ones, and
\* the bare hash join, whose duplicates Distinct would hide.
PipelineAndAggregation(l, r) ==
    {PlanHashJoinPipeline(l, r, n) : n \in {0, 2}} \cup {PlanAggregation(l, r, h) : h \in {0, 1}}
        \cup {PlanHashJoin(l, r)}

NestedLoopJoinOnly(l, r) == {PlanNestedLoopJoin(l, r)}

=============================================================================

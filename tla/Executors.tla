----------------------------- MODULE Executors -----------------------------
(***************************************************************************)
(* The volcano-style query executors of src/execution/: SeqScan,          *)
(* NestedLoopJoin, HashJoin, Aggregation, Distinct and Limit.  An executor *)
(* tree is a value: each node is a record tagged by `kind` holding the     *)
(* executor's member fields and its children, the "tagged variants" of the *)
(* executor capability set {Init, Next}.  ExecInit(e) is the new node      *)
(* after e.Init(); ExecNext(e) is <<returned, row, new node>> after one    *)
(* e.Next() call, the code's loops and tail calls written as RECURSIVE     *)
(* operators.  Executors run single-threaded inside one query, so a call   *)
(* is one step of the driver at the bottom of the module.                  *)
(*                                                                         *)
(* Data is abstracted: a base row is one value of Vals, its key (the       *)
(* column the join and GROUP BY read) is Key(row); output schemas project  *)
(* all columns, so a join row is <<left row, right row>> and an aggregate *)
(* row is <<group key, COUNT-star>>.                                      *)
(***************************************************************************)
EXTENDS Integers, Sequences, FiniteSets, SequencesExt

CONSTANTS
    Vals,           \* base row values
    Key(_),         \* the join / group-by column of a base row
    MaxRows,        \* bound on the rows of a table
    Plans(_, _)     \* the plan trees over two tables (left, right)

NoRow == "NoRow"

RECURSIVE ExecInit(_), ExecNext(_), ScanNext(_), NLJOuter(_), NLJInner(_, _),
          HJBuild(_, _), HJNext(_), AggBuild(_, _), AggNext(_), DistinctNext(_)

\* SeqScanExecutor::Init: iter_ = table_heap_->Begin().
ScanInit(e) == [e EXCEPT !.cur = 1]

\* SeqScanExecutor::Next: at End() return false; else read the row, ++iter_,
\* return it if the predicate passes, otherwise return Next() again.
ScanNext(e) ==
    IF e.cur > Len(e.tbl) THEN <<FALSE, NoRow, e>>
    ELSE LET row == e.tbl[e.cur]
             e2  == [e EXCEPT !.cur = @ + 1]
         IN  IF row \in e.pred THEN <<TRUE, row, e2>> ELSE ScanNext(e2)

\* The join predicate: equality of the two join keys.
JoinMatch(l, r) == Key(l) = Key(r)

\* NestedLoopJoinExecutor::Init: Init both children.
NLJInit(e) == [e EXCEPT !.left = ExecInit(@), !.right = ExecInit(@)]

\* NestedLoopJoinExecutor::Next, outer loop: pull a left row (a local of
\* Next, so it is gone when Next returns); when the left child is done,
\* return false.
NLJOuter(e) ==
    LET l == ExecNext(e.left)
        e2 == [e EXCEPT !.left = l[3]]
    IN  IF ~l[1] THEN <<FALSE, NoRow, e2>> ELSE NLJInner(e2, l[2])

\* Inner loop: pull right rows until one matches, then return the joined
\* row; when the right child is exhausted, re-Init it and go on with the
\* outer loop.
NLJInner(e, lrow) ==
    LET r == ExecNext(e.right)
        e2 == [e EXCEPT !.right = r[3]]
    IN  IF ~r[1] THEN NLJOuter([e EXCEPT !.right = ExecInit(r[3])])
        ELSE IF JoinMatch(lrow, r[2]) THEN <<TRUE, <<lrow, r[2]>>, e2>>
        ELSE NLJInner(e2, lrow)

\* HashJoinExecutor::Init, build loop: append every left row to map_'s
\* vector for its key, creating the vector on the key's first row.
HJBuild(map, left) ==
    LET l == ExecNext(left)
        k == Key(l[2])
    IN  IF ~l[1] THEN <<map, l[3]>>
        ELSE IF k \notin DOMAIN map THEN HJBuild(map @@ (k :> <<l[2]>>), l[3])
        ELSE HJBuild([map EXCEPT ![k] = Append(@, l[2])], l[3])

\* HashJoinExecutor::Init: Init both children, fl = -1, then the build loop
\* into map_, which Init does not clear first.
HJInit(e) ==
    LET b == HJBuild(e.map, ExecInit(e.left))
    IN  [e EXCEPT !.left = b[2], !.right = ExecInit(@), !.fl = -1, !.map = b[1]]

\* HashJoinExecutor::Next: with fl = -1 pull the next right row into the
\* member right_tu (returning false when there is none); then ++fl and,
\* while fl indexes the key's vector, return <<map_[key][fl], right_tu>>;
\* past the end (or for an absent key) reset fl = -1 and loop.
HJNext(e) ==
    LET r  == IF e.fl = -1 THEN ExecNext(e.right) ELSE <<TRUE, e.rtu, e.right>>
        k  == Key(r[2])
        fl == e.fl + 1
        e2 == [e EXCEPT !.right = r[3], !.rtu = r[2], !.fl = fl]
    IN  IF ~r[1] THEN <<FALSE, NoRow, [e EXCEPT !.right = r[3]]>>
        ELSE IF k \notin DOMAIN e.map \/ fl >= Len(e.map[k])
             THEN HJNext([e2 EXCEPT !.fl = -1])
        ELSE <<TRUE, <<e.map[k][fl + 1], r[2]>>, e2>>

\* The order aht_.Begin() walks the groups in (unordered_map order: any
\* fixed order of the keys).
GroupOrder(aht) == SetToSeq(DOMAIN aht)

\* AggregationExecutor::Init, build loop: aht_.InsertCombine of every child
\* row, COUNT-star per group key.
AggBuild(aht, child) ==
    LET c == ExecNext(child)
        k == Key(c[2])
    IN  IF ~c[1] THEN <<aht, c[3]>>
        ELSE IF k \notin DOMAIN aht THEN AggBuild(aht @@ (k :> 1), c[3])
        ELSE AggBuild([aht EXCEPT ![k] = @ + 1], c[3])

\* AggregationExecutor::Init: Init the child, combine every row into aht_
\* (a member that Init does not clear), aht_iterator_ = aht_.Begin().
AggInit(e) ==
    LET b == AggBuild(e.aht, ExecInit(e.child))
    IN  [e EXCEPT !.child = b[2], !.aht = b[1], !.order = GroupOrder(b[1]), !.it = 1]

\* HAVING COUNT-star > e.having.
Having(e, k) == e.aht[k] > e.having

\* AggregationExecutor::Next: walk the iterator, returning the first group
\* HAVING accepts and advancing past it.
AggNext(e) ==
    IF e.it > Len(e.order) THEN <<FALSE, NoRow, e>>
    ELSE LET k == e.order[e.it]
             e2 == [e EXCEPT !.it = @ + 1]
         IN  IF Having(e, k) THEN <<TRUE, <<k, e.aht[k]>>, e2>> ELSE AggNext(e2)

\* DistinctExecutor::Init: Init the child only (map_ is kept).
DistinctInit(e) == [e EXCEPT !.child = ExecInit(@)]

\* Mutant: a new row is returned without being recorded in map_.
DistinctNextNoRecord(e) ==
    LET c == ExecNext(e.child)
        e2 == [e EXCEPT !.child = c[3]]
    IN  IF ~c[1] THEN <<FALSE, NoRow, e2>>
        ELSE IF c[2] \notin e.seen THEN <<TRUE, c[2], e2>>
        ELSE DistinctNext(e2)

\* DistinctExecutor::Next: pull a child row; return it if it is not in
\* map_ yet (recording it), otherwise return Next() again.
DistinctNext(e) ==
    LET c == ExecNext(e.child)
        e2 == [e EXCEPT !.child = c[3]]
    IN  IF ~c[1] THEN <<FALSE, NoRow, e2>>
        ELSE IF c[2] \notin e.seen THEN <<TRUE, c[2], [e2 EXCEPT !.seen = @ \cup {c[2]}]>>
        ELSE DistinctNext(e2)

\* LimitExecutor::Init: Init the child, output_num_ = 0.
LimitInit(e) == [e EXCEPT !.child = ExecInit(@), !.n = 0]

\* LimitExecutor::Next: false once output_num_ >= limit; otherwise pass on
\* the child's row, counting it.
LimitNext(e) ==
    IF e.n >= e.limit THEN <<FALSE, NoRow, e>>
    ELSE LET c == ExecNext(e.child)
         IN  IF c[1] THEN <<TRUE, c[2], [e EXCEPT !.child = c[3], !.n = @ + 1]>>
             ELSE <<FALSE, NoRow, [e EXCEPT !.child = c[3]]>>

\* Dispatch on the executor kind.
ExecInit(e) ==
    CASE e.kind = "scan"     -> ScanInit(e)
      [] e.kind = "nlj"      -> NLJInit(e)
      [] e.kind = "hashjoin" -> HJInit(e)
      [] e.kind = "agg"      -> AggInit(e)
      [] e.kind = "distinct" -> DistinctInit(e)
      [] e.kind = "limit"    -> LimitInit(e)

ExecNext(e) ==
    CASE e.kind = "scan"     -> ScanNext(e)
      [] e.kind = "nlj"      -> NLJOuter(e)
      [] e.kind = "hashjoin" -> HJNext(e)
      [] e.kind = "agg"      -> AggNext(e)
      [] e.kind = "distinct" -> DistinctNext(e)
      [] e.kind = "limit"    -> LimitNext(e)

(***************************************************************************)
(* The reference results: what each operator's output is, stated from     *)
(* its meaning over the tables rather than from its iteration (spec 4.6).  *)
(***************************************************************************)
RECURSIVE Ref(_)

\* The rows of s, in order, whose key is k.
WithKey(s, k) == SelectSeq(s, LAMBDA x : Key(x) = k)

\* The first occurrence of every row of s, in order.
FirstOccurrences(s) ==
    LET firsts == {i \in 1..Len(s) : \A j \in 1..(i - 1) : s[j] # s[i]}
    IN  [i \in 1..Cardinality(firsts) |-> s[CHOOSE j \in firsts :
                   Cardinality({m \in firsts : m <= j}) = i]]

\* COUNT-star of every group key among the rows of s.
GroupCounts(s) == [k \in {Key(s[i]) : i \in 1..Len(s)} |-> Len(WithKey(s, k))]

Ref(p) ==
    CASE p.kind = "scan" -> SelectSeq(p.tbl, LAMBDA x : x \in p.pred)
      [] p.kind = "nlj" ->
           LET L == Ref(p.left)  R == Ref(p.right)
           IN  FlattenSeq([i \in 1..Len(L) |->
                   [j \in 1..Len(WithKey(R, Key(L[i]))) |-> <<L[i], WithKey(R, Key(L[i]))[j]>>]])
      [] p.kind = "hashjoin" ->
           LET L == Ref(p.left)  R == Ref(p.right)
           IN  FlattenSeq([j \in 1..Len(R) |->
                   [i \in 1..Len(WithKey(L, Key(R[j]))) |-> <<WithKey(L, Key(R[j]))[i], R[j]>>]])
      [] p.kind = "agg" ->
           LET cnt == GroupCounts(Ref(p.child))
               ks  == SelectSeq(GroupOrder(cnt), LAMBDA k : cnt[k] > p.having)
           IN  [i \in 1..Len(ks) |-> <<ks[i], cnt[ks[i]]>>]
      [] p.kind = "distinct" -> FirstOccurrences(Ref(p.child))
      [] p.kind = "limit" ->
           LET C == Ref(p.child) IN SubSeq(C, 1, IF p.limit < Len(C) THEN p.limit ELSE Len(C))

(***************************************************************************)
(* The driver: the execution engine Inits the root once, then calls Next  *)
(* and collects rows until Next returns false.  The tables are any of at   *)
(* most MaxRows rows of Vals.                                              *)
(***************************************************************************)
VARIABLES plan, exec, out, phase

vars == <<plan, exec, out, phase>>

Tables == BoundedSeq(Vals, MaxRows)

Init ==
    /\ \E l, r \in Tables : plan \in Plans(l, r)
    /\ exec = plan
    /\ out = <<>>
    /\ phase = "new"

EngineInit ==
    /\ phase = "new"
    /\ exec' = ExecInit(exec)
    /\ phase' = "open"
    /\ UNCHANGED <<plan, out>>

EngineNext ==
    /\ phase = "open"
    /\ LET r == ExecNext(exec)
       IN  /\ exec' = r[3]
           /\ IF r[1] THEN out' = Append(out, r[2]) /\ UNCHANGED phase
              ELSE phase' = "done" /\ UNCHANGED out
    /\ UNCHANGED plan

\* The query has produced its whole result.
Finished == phase = "done" /\ UNCHANGED vars

Next == EngineInit \/ EngineNext \/ Finished

Spec == Init /\ [][Next]_vars

\* Every row the root has returned is the next row of the operator's
\* reference result, and when Next has returned false the whole reference
\* result has been returned: the iterator state the executors keep across
\* Next calls (HashJoin's fl and right_tu_, Distinct's map_, Limit's
\* output_num_, the scans' cursors) neither skips nor repeats a row.
ResultCorrect ==
    /\ IsPrefix(out, Ref(plan))
    /\ phase = "done" => out = Ref(plan)

=============================================================================

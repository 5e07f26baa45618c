---------------------------- MODULE TableWriters ----------------------------
(***************************************************************************)
(* The sink executors of src/execution/: InsertExecutor, DeleteExecutor    *)
(* and UpdateExecutor, over one table heap with one index.  A sink drains  *)
(* its child inside a single Next() call and then returns false, so one    *)
(* query is one atomic step here.  The child of Delete and Update is a     *)
(* SeqScan of the same table with a predicate on the key column; the child *)
(* of a pipelined Insert is abstracted to the rows it produces, the same   *)
(* shape as a raw insert's literal rows.                                   *)
(*                                                                         *)
(* A row is <<key, val>>: column 1 is the indexed column (KeyFromTuple     *)
(* projects it), column 2 is not indexed.  The index (not part of the      *)
(* sources) is a set of <<key, rid>> entries: InsertEntry adds one,        *)
(* DeleteEntry removes one.  The heap maps a RID to its row, to Empty      *)
(* (never used) or to Deleted (MarkDelete).                                *)
(***************************************************************************)
EXTENDS Integers, Sequences, FiniteSets, SequencesExt

CONSTANTS
    Rids,           \* RIDs the table heap hands out, 1..N in order
    KeyVals,        \* values of the key column in inserted rows
    ColVals,        \* values of the other column in inserted rows
    Preds,          \* the key sets a scan predicate may accept
    UpdatePlans,    \* the update_attrs maps plans may carry
    MaxInsert,      \* bound on the rows of one insert
    MaxQueries,     \* bound on the queries run
    Empty,          \* model value: a RID never handed out
    Deleted         \* model value: a RID whose tuple MarkDelete marked

VARIABLES heap, index, queries

vars == <<heap, index, queries>>

Init ==
    /\ heap = [r \in Rids |-> Empty]
    /\ index = {}
    /\ queries = 0

\* The rows a SeqScan with predicate p over the heap returns, by RID.
Scanned(p) == {r \in Rids : heap[r] \notin {Empty, Deleted} /\ heap[r][1] \in p}

\* KeyFromTuple with the index's key attribute.
KeyOf(row) == row[1]

\* Index::InsertEntry / Index::DeleteEntry.
InsertEntry(idx, k, r) == idx \cup {<<k, r>>}
DeleteEntry(idx, k, r) == idx \ {<<k, r>>}

\* TableHeap::InsertTuple places each row at the next unused RID.
FreeRids == {r \in Rids : heap[r] = Empty}
NextRids(n) == [i \in 1..n |-> Min(FreeRids) + i - 1]

\* A query may start while fewer than MaxQueries have run.
StartQuery == queries < MaxQueries /\ queries' = queries + 1

\* InsertExecutor::Next (raw or pipelined) and InsertIntoTableWithIndex:
\* for each row, InsertTuple into the heap, then InsertEntry into the index.
Insert(rows) ==
    LET rid == NextRids(Len(rows))
    IN  /\ StartQuery
        /\ Len(rows) <= Cardinality(FreeRids)
        /\ heap' = [r \in Rids |-> IF \E i \in 1..Len(rows) : rid[i] = r
                                    THEN rows[CHOOSE i \in 1..Len(rows) : rid[i] = r]
                                    ELSE heap[r]]
        /\ index' = index \cup {<<KeyOf(rows[i]), rid[i]>> : i \in 1..Len(rows)}

\* DeleteExecutor::Next: for each row the child returns, MarkDelete it and
\* DeleteEntry its index entry.
Delete(p) ==
    LET S == Scanned(p)
    IN  /\ StartQuery
        /\ heap' = [r \in Rids |-> IF r \in S THEN Deleted ELSE heap[r]]
        /\ index' = index \ {<<KeyOf(heap[r]), r>> : r \in S}

\* UpdateExecutor::GenerateUpdatedTuple: each column named by the plan is
\* set to the literal, or has the literal added; the others are copied.
GenerateUpdatedTuple(row, upd) ==
    [c \in 1..2 |-> IF c \notin DOMAIN upd THEN row[c]
                    ELSE IF upd[c].type = "Add" THEN row[c] + upd[c].val
                    ELSE upd[c].val]

\* Mutant: the old key's entry is never deleted.
UpdateIndexInsertOnly(idx, old, new, r) == InsertEntry(idx, KeyOf(new), r)

\* The index steps UpdateExecutor::Next takes for one row: InsertEntry of
\* the new key, then DeleteEntry of the old key, both with the row's RID.
UpdateIndex(idx, old, new, r) ==
    DeleteEntry(InsertEntry(idx, KeyOf(new), r), KeyOf(old), r)

\* UpdateExecutor::Next: for each row the child returns, UpdateTuple in
\* place, then UpdateIndex.  Rows have distinct RIDs, so the entries of one
\* row are never those of another and the rows may be taken in RID order.
RECURSIVE UpdateRows(_, _, _, _)
UpdateRows(h, idx, todo, upd) ==
    IF todo = {} THEN <<h, idx>>
    ELSE LET r   == Min(todo)
             new == GenerateUpdatedTuple(h[r], upd)
         IN  UpdateRows([h EXCEPT ![r] = new], UpdateIndex(idx, h[r], new, r),
                        todo \ {r}, upd)

Update(p, upd) ==
    LET res == UpdateRows(heap, index, Scanned(p), upd)
    IN  StartQuery /\ heap' = res[1] /\ index' = res[2]

\* No more queries are run.
Done == queries = MaxQueries /\ UNCHANGED vars

Next ==
    \/ \E rows \in BoundedSeq(KeyVals \X ColVals, MaxInsert) \ {<<>>} : Insert(rows)
    \/ \E p \in Preds : Delete(p)
    \/ \E p \in Preds, upd \in UpdatePlans : Update(p, upd)
    \/ Done

Spec == Init /\ [][Next]_vars

\* After every query the index holds exactly one entry per live row, the
\* row's key with its RID: Insert adds the entries of the rows it stores,
\* Delete removes those of the rows it marks, and Update replaces the
\* entry of every row it rewrites.
IndexMatchesHeap ==
    index = {<<KeyOf(heap[r]), r>> : r \in {s \in Rids : heap[s] \notin {Empty, Deleted}}}

=============================================================================

# TLA+ models of bustub-public

This directory holds TLA+ models of the concurrent and stateful parts of
`src/bustub/src`. Each module is checked with TLC.

## The system and its parts

| Part | Source | State | Operations | Interacts with |
|---|---|---|---|---|
| Lock manager | `concurrency/lock_manager.cpp`, `include/concurrency/lock_manager.h` | `lock_table_`: per-RID request queue (`std::list<LockRequest>`), `upgrading_`, `cv_`; one global `latch_`; each transaction's state and shared/exclusive lock sets | `LockShared`, `LockExclusive`, `LockUpgrade` (wound-wait: an older requester aborts younger holders, a younger one waits on `cv_`), `Unlock` (2PL shrinking, `notify_all`) | Transaction manager (Commit/Abort → ReleaseLocks; not in `src/`) |
| LRU-K replacer | `buffer/lru_k_replacer.cpp` | `node_store_` (per frame: last K access timestamps, evictable flag), `current_timestamp_`, `replacer_size_`, `latch_` | `RecordAccess`, `SetEvictable`, `Remove`, `Evict`, `Size` | Called by the buffer pool inside its own latch |
| Buffer pool manager | `buffer/buffer_pool_manager.cpp` | `pages_` (page id, pin count, dirty flag, data), `page_table_`, `free_list_`, `next_page_id_`, `latch_`; the disk | `NewPage`, `FetchPage`, `UnpinPage`, `FlushPage`, `FlushAllPages`, `DeletePage` | The replacer, the disk manager, every client that pins pages |
| Buffer pool manager instance | `buffer/buffer_pool_manager_instance.cpp` | The same, on an `LRUReplacer` | The same, with `*Imp` names | `LRUReplacer` (not in `src/`) |
| Extendible hash table | `container/hash/extendible_hash_table.cpp`, `storage/page/hash_table_directory_page.cpp`, `storage/page/hash_table_bucket_page.cpp` | A directory page (global depth, local depths, bucket page ids) and bucket pages (occupied/readable bitmaps, key/value array), all in buffer-pool pages; `table_latch_` | `GetValue`, `Insert` → `SplitInsert`, `Remove` → `Merge` | The buffer pool |
| Executors | `execution/*_executor.cpp` | Iterator state of each executor | `Init`/`Next` of seq scan, insert, delete, update, nested-loop join, hash join, aggregation, distinct, limit | Catalog, table heap and indexes (not in `src/`) |

## Modules

| Module | Models | State ↔ code |
|---|---|---|
| `LockManager` | The lock manager and, as its client, the transaction manager | `queue[r]` = `request_queue_`, `upgrading[r]` = `upgrading_`, `txnState`/`sharedSet`/`exclusiveSet` = the `Transaction`s, `pc[t]` = where thread `t` is: idle, in `cv_.wait`, woken and re-acquiring `latch_`, in ReleaseLocks, or done |
| `LockTable` | The abstract lock manager: which lock each transaction holds on each record | `holds[t][r]` = `"S"`, `"X"` or `"none"`; a grant must be compatible with every other holder once the holders it wounds (only younger ones) are dropped. `LockManager` maps to it by its lock sets (`Holds`) |
| `LRUKReplacer` | The replacer's methods, as operators on a replacer value `[node, ts, size]` | `node[f]` = `node_store_[f]` (with `present` for membership), `ts` = `current_timestamp_`, `size` = `replacer_size_` |
| `LRUKReplacerCalls` | The replacer on its own, under any sequence of calls, with a history of all accesses | `rep`, `accesses` |
| `PageStore` | The abstract buffer pool: a store of pages | `store[p]` = content of page `p`, or `NoPage`; `writeParity` flips with each client write, so content may change only by a write, a create or a delete |
| `BufferPool` | The buffer pool manager with its replacer and clients that pin, write and unpin | `frames[f]` = `pages_[f]`, `pageTable` = `page_table_`, `freeList` = `free_list_`, `rep` = `replacer_`, `disk`, `latch` (who holds `latch_` between calls), `held[c][p]` = client `c`'s pin on `p` and whether it wrote, `live` = existing page ids |
| `BufferPoolInstance` | `BufferPoolManagerInstance` with an `LRUReplacer`, clients, and `FlushAllPgsImp` as an unlatched loop | as `BufferPool`, with `lru` = the `LRUReplacer`'s list (least recently unpinned first) in place of `rep`, and `flushAll[c]` = the frame client `c`'s `FlushAllPgsImp` is at and the page id it read from it |
| `HashTableBucketPage` | The bucket page's methods, as operators on a page value `[array, occupied, readable]` that `HashTable` applies inside its steps | `array` = `array_` (a slot keeps its pair after `RemoveAt` and `Reset`, as in the code), `occupied`/`readable` = the `occupied_`/`readable_` bytes, slot `i` being bit `i % 8` of byte `i / 8`; `Contents` = the pairs of the readable slots |
| `KVStore` | The abstract hash table: a linearizable set of (key, value) pairs | `contents`, `pending[c]` = client `c`'s call (with `done` once it has taken effect), `result[c]` |
| `HashTable` | The extendible hash table with its directory and bucket pages, and client threads | `gd`/`ld`/`bp` = `global_depth_`/`local_depths_`/`bucket_page_ids_`, `bucket[p]` = bucket page `p` as a `HashTableBucketPage` value, `nextPage` = the next page id `NewPage` gives, `pc[c]` = where thread `c` is (in a call, between `Insert` and `SplitInsert`, between `SplitInsert` and `Insert`, between `Remove` and `Merge`), `target[c]` = the `bucket_idx` `Remove` hands to `Merge` |
| `Executors` | The query executors as a tree of tagged records, and the execution engine that drives the root | Each node holds its executor's members: `cur` = the scan's `iter_`, `map`/`fl`/`rtu` = HashJoin's `map_`/`fl`/`right_tu_`, `aht`/`order`/`it` = Aggregation's `aht_` and `aht_iterator_`, `seen` = Distinct's `map_`, `n` = Limit's `output_num_`; `out` = the rows the engine has collected, `phase` = before Init / pulling / Next returned false |
| `TableWriters` | Insert, Delete and Update over one table heap with one index | `heap[rid]` = the row at `rid` (or never used / marked deleted), `index` = the index's (key, RID) entries, `queries` = queries run |
| `MC_*` | Model values and small constant sets for TLC | |

### Atomicity

Each lock-manager method holds `latch_` except inside `cv_.wait`. So each
iteration of its `while(true)` loop is one step (`LockShared`,
`LockExclusive`, `LockUpgrade`). A wait ends in `pc = "wait"`. A
`notify_all` from `Unlock` moves the waiters of that RID to `"ready"`.
`SpuriousWakeup` does the same without a notify. `Resume` runs the loop body
again.

Every buffer-pool method holds the pool's `latch_` for its whole body, and
the replacer calls it makes happen inside that latch. So each method is one
step, with its replacer calls composed as operators (`InstallPage` applies
`Evict`, `RecordAccess` and `SetEvictable` in the code's order). A call that
returns false or nullptr without changing anything is a stuttering step, so
the model leaves it out.

`BufferPoolManagerInstance` is the same, except for `FlushAllPgsImp`: it
takes no latch, and for each frame reads `pages_[i].page_id_` and then calls
`FlushPage` with that id. This is two steps per frame in the model
(`FlushAllRead`, `FlushAllFlush`), so other clients' calls run between the
read and the flush. The read races with the latched writes of `page_id_`.
A page id is one machine word, so the read sees either the old or the new
value, and the interleavings give both.

In the hash table every public method holds `table_latch_` for its whole
body. Three calls are the exception: `Insert` unlocks before it calls
`SplitInsert`, `SplitInsert` unlocks before it calls `Insert`, and `Remove`
unlocks before it calls `Merge`. Each of these bodies is one step
(`Insert`, `SplitInsert`, `Remove`, `Merge`, `GetValue`), and other threads
run in between. The buffer pool under the table is abstracted away: a page
is its id, and the model has no pinning. `FetchDirectoryPage` creates the
directory on first use, inside the first call's latch, and no call sees the
directory before it exists, so `Init` is the directory just after creation.
A bucket page is kept at slot level (`HashTableBucketPage`): `Insert` takes
the first slot that is not readable, `Remove` clears the first readable
slot holding the pair, and `SplitInsert` copies the readable pairs in slot
order, `Reset`s the page and re-inserts them one by one (`ReInsert`). The
image page `NewPage` hands out is zeroed (`EmptyPage`).

## Runs

| Run | cfg | Expect | What it shows |
|---|---|---|---|
| `lm_safety` | `LockManager_safety.cfg` | pass | For 3 transactions, 2 RIDs and 3 calls each, with mixed isolation levels and all interleavings, wounding and spurious wakeups: an X lock is never shared (`ExclusiveHeldAlone`). The lock sets equal the granted requests (`GrantedMatchesLockSets`). A shrinking REPEATABLE_READ transaction never gains a lock (`StrictTwoPhase`). Each queue holds at most one request per transaction, although a waiter calls `try_Insert` again on every pass of its loop and a grant or upgrade calls it on a queue that may still hold its own request (`OneRequestPerTxn`). |
| `lm_one_rid` | `LockManager_liveness.cfg` | pass | On one RID every transaction ends (`AllTransactionsFinish`). The lock manager implements `LockTable` (`LockTableRefined`): every grant, upgrade, wound and release is a step of the abstract table. On two RIDs the refinement check takes minutes, so it runs on one. |
| `lm_upgrade_flag` | `LockManager_upgrade_flag.cfg` | violation | `upgrading_` stays set after a waiting upgrade returns false (`UpgradeFlagOwned`). |
| `lm_stale_request` | `LockManager_stale_request.cfg` | violation | A transaction wounded on r2 while it waits on r1 leaves its request in r1's queue. The youngest transaction then waits forever. |
| `lruk_evict` | `LRUKReplacer_evict.cfg` | pass | `replacer_size_` counts evictable frames (`SizeCountsEvictable`). `Evict` picks the LRU-K victim of a reference over the full history (`EvictIsLRUK`). |
| `bpm_safety` | `BufferPool_safety.cfg` | pass | Frames, page table, free list, pins and replacer stay consistent (`FrameAccounting`). The pool refines `PageStore` (`PageStoreRefined`): a page reads back as its last write through eviction, write-back, flushing, re-reading and deletion. |
| `bpi_safety` | `BufferPoolInstance_safety.cfg` | pass | Instance 1 of 2 (ids 1, 3, 5), two frames, two clients, each of which may run `FlushAllPgsImp`. The frames, page table, free list, pins and LRU list stay consistent (`FrameAccounting`). Every id handed out maps back to the instance (`TypeOK`, `ValidatePageId`'s assertion). The instance refines `PageStore` after renumbering its ids to 0, 1, 2 (`PageStoreRefined`), whatever a flush reads without the latch. |
| `ht_integrity` | `HashTable_integrity.cfg` | pass | Two threads interleave the directory steps, including merges that use a stale index, over two-slot bucket pages. `VerifyIntegrity` holds between any two steps (`DirectoryIntegrity`). Every bucket page's readable slots hold distinct pairs, are occupied, and the occupied slots form a prefix (`BucketSlotsConsistent`); Insert's scan for an equal pair is what keeps the readable pairs distinct. The assertions of the re-insert loop hold for any split a waiting thread can run (`SplitReInsertAsserts`): each pair the split copies has a new index naming the split bucket or its image once the class loops and the upper-half fill have rewritten the directory, and every re-insert succeeds. A reader that skipped the readable bit, such as a `GetArrayCopy` that copied every occupied slot, would re-insert pairs that `Reset` or `Remove` left behind in `array_`, and this breaks the last assertion. The depth assertions of `SetLocalDepth` and `IncrLocalDepth` are not stated. On a split they follow from `VerifyIntegrity` (`DirectoryIntegrity`). On a merge, with `MAX_BUCKET_DEPTH` 2, no reachable state can break them, so a property about them would show nothing. |
| `ht_merge_loss` | `HashTable_merge_loss.cfg` | violation | One thread is enough. `Merge` makes a stored pair unreachable, so the table is not a set (`Linearizable`, the refinement of `KVStore`). |
| `exec_results` | `Executors_results.cfg` | pass | Five plans run over all 1600 pairs of tables of up to three rows, with duplicate rows and keys. The first is a bare hash join of two unfiltered scans: rows 1 and 3 share a key, so a cursor that skips or repeats a left match shows in the output, which `Distinct` would hide. The next two are `Limit` 0 or 2 over `Distinct` over a hash join of a filtered scan and a scan (with 0, `Next` returns false without pulling from its child). The last two are `GROUP BY key` with `COUNT` and `HAVING COUNT > 0` (every group) or `> 1`. Each returns exactly its reference result, in order (`ResultCorrect`). This exercises HashJoin's `fl` cursor across calls, Distinct's recursion, Limit's early stop and the aggregation's HAVING walk. |
| `exec_nlj` | `Executors_nlj.cfg` | violation | The nested-loop join returns one row for left `[1, 1]` and right `[1]` (`ResultCorrect`). |
| `tw_update_same_key` | `TableWriters_update_same_key.cfg` | violation | An Update of the non-indexed column drops the row's index entry (`IndexMatchesHeap`). |

In the executors a query runs on one thread and each executor only calls
its children, so there is nothing to interleave. `ExecInit(e)` and
`ExecNext(e)` are the whole of one `Init()` or `Next()` call, the code's
loops and self-calls written as `RECURSIVE` operators over the executor
tree (`NLJOuter`/`NLJInner` are the two `while` loops of the nested-loop
join). One engine call is one step. A sink (Insert, Delete, Update) drains
its child in a single `Next()`, so one whole query is one step of
`TableWriters`.

## Findings

1. **`LockUpgrade` leaves `upgrading_` set** (`lock_manager.cpp:236`,
   `:254`, `:232`). The flag is set before the scan. An upgrade that must
   wait loops back after `cv_.wait`, sees its own flag and returns false.
   The flag then stays set forever, and every later upgrade on that RID
   fails.
2. **A wounded waiter's request is never removed** (`lock_manager.cpp:98`,
   `:173`). `try_Insert(..., false)` queues an ungranted request before
   waiting. If the waiter is wounded on another RID, its transaction aborts
   and ReleaseLocks unlocks only the RIDs in its lock sets. The ungranted
   request stays at the head of the queue, and younger transactions wait
   behind it forever.
3. **`Merge` loses pairs** (`extendible_hash_table.cpp:377-387`). The
   trace:
   - insert 1, then 3, with identity hash and one pair per bucket, which
     splits twice; the directory is `[P1(1), P2(2), P1(1), P3(2)]`;
   - `Remove(0)` finds bucket `P1` empty and calls `Merge(0)`;
   - `Merge` points all four entries at `P2`, the page of `0`'s split image
     `1`, even though `P2` has a deeper local depth than `P1` had;
   - the directory shrinks, and key 3, stored in `P3`, is gone.

   `VerifyIntegrity` still passes. Only the contents refinement catches the
   loss.

4. **The nested-loop join loses matches**
   (`nested_loop_join_executor.cpp:41`). The left row is a local of
   `Next`. Each call pulls a new left row and resumes the right child where
   the last call stopped. The right rows after a match are never joined with
   that left row.
5. **Update drops index entries** (`update_executor.cpp:38-39`). It
   inserts the new key and then deletes the old one, both with the same RID.
   When the indexed column is unchanged, the delete removes the entry just
   inserted.

Two more issues are in the models, but no run asserts them (they are listed
as hazards in `PROJECT.json`):

- **`FlushAllPages` deadlocks on itself** (`buffer_pool_manager.cpp:171`,
  `:174`, `:157`). It holds `latch_` and calls `FlushPage`, which locks the
  same `std::mutex`. The model's `FlushAllPages` step never releases the
  latch, which is why `bpm_safety` does not check deadlock. It happens on
  the first call, so any test sees it.
- **Wound-wait can abort a committed transaction** (`lock_manager.cpp:89`,
  `:163`, `:244`). The victim's state is not checked, so a transaction
  between Commit and the end of ReleaseLocks can be set to ABORTED. The spec
  does not say whether that is allowed.

## Bounds

- **Lock manager.** Transactions {1,2,3} are enough for a waiter that is
  younger than one transaction and older than another, which is what
  wound-wait tells apart. Two RIDs let a transaction wait on one while it is
  wounded on the other. `MaxOps` bounds the calls per transaction.
- **Replacer.** Three frames with K = 2 and up to 7 accesses give frames
  with fewer than K and with exactly K accesses together in one `Evict`.
- **Buffer pool.** Two frames and three page ids force eviction and
  re-reading. Two clients give shared pins and the two-unpin dirty-flag
  case. Clients write `v1` into pages that start at zero, which is enough to
  see a lost write or a page's data written under another id. `MaxTs = 5`
  bounds the replacer clock.
- **Buffer pool instance.** The same frames, ids and clients. Each client
  pins at most one page at a time (`MaxHeld = 1`). Two clients pinning one
  page each still fill the pool. Both clients may be inside
  `FlushAllPgsImp` at once. `MaxPages = 3` bounds `AllocatePage`. The run
  ends when all three ids were handed out and deleted (`Exhausted`).

- **Hash table.** `ht_merge_loss` uses keys {0,1,3} with identity hash, one pair
  per bucket and `MAX_BUCKET_DEPTH` 2 (a directory of four entries). Every
  bucket's split image then has a sibling that can be deeper: this is the
  smallest setting where a split deepens the directory, a second split does
  not, and a merge meets an image of different depth. A real bucket holds
  hundreds of pairs, and the same sequences happen with proportionally more
  inserts. `MaxPages` (a state constraint, because the pool itself never
  runs out of pages that can be evicted) bounds splits, and `MaxOps` bounds
  calls. `ht_integrity` uses two slots per bucket page and keys {0,1,3,5}:
  1, 3 and 5 share their low bit, so three inserts split twice and deepen
  the directory to 2 (TLC reaches depth 2, a merge that shrinks it, a slot
  freed by `Remove` next to a readable one and then taken again, and a
  `SplitInsert` of a pair already in the bucket). Two slots fill one byte
  of each bitmap; a slot past bit 7 would need nine distinct pairs in one
  page, which is out of reach, so the byte index `i / 8` is only ever 0.
  The two clients are interchangeable (same calls, same code, no client
  is named by any definition), so the run uses symmetry over them.

- **Executors.** Rows are values 1..3 whose key column is the row's
  parity, so tables of two or three rows already have duplicate rows,
  duplicate keys and non-matching keys. That covers a hash bucket with
  several left rows, a repeated join row for Distinct, and more than two
  results for Limit 2. The run checks every such table, not a sample.
- **Table writers.** Three RIDs, keys and values in {0, 1}, and four
  queries: enough to insert, update and delete rows that share a key, and
  to reuse no RID. The one run is the violation of finding 5; its plans
  only change the value column, so Updates that change the key are not
  checked by any run.

## Fairness

- **Lock manager.**
  - `WF` on `Resume(t)`: a woken thread eventually re-acquires `latch_`,
    which no one holds for long.
  - `WF` on the transaction manager's release steps, and on Commit-or-Abort
    of an idle transaction: a transaction ends after a bounded number of
    calls.
  - No fairness on `SpuriousWakeup`, since the code must not rely on one.
- **Buffer pool, hash table, executors.** Only safety is checked. Every
  call the buffer pool or the hash table makes finishes in one step or a
  bounded chain of steps. The executors' calls are single steps of one
  thread.

## Not modelled (yet)

- **Hash table pinning.** The buffer-pool pinning and page latches of the
  hash table are not modelled. Every page access happens under
  `table_latch_`, so the page latches order nothing. The pins are released
  before each call returns.
- **`GetGlobalDepth`.** It only reads. `VerifyIntegrity` only reads too,
  and is translated as the operator the `DirectoryIntegrity` invariant
  checks.
- **`KeyAt`, `ValueAt`, `PrintBucket`.** The two getters have no caller;
  `PrintBucket` only logs (the prefix shape of the occupied slots it
  relies on is part of `BucketSlotsConsistent`).
- **Expressions and schemas.** A predicate is a set of accepted values,
  a join or group-by expression is the key column, and projections keep
  all columns. Aggregation is modelled with `COUNT` only. The other
  aggregates follow the same `InsertCombine` path.
- **Re-`Init` of a stateful executor.** `HashJoin::Init`, Distinct and
  Aggregation never clear `map_`/`aht_`, so a second `Init` sees the first
  one's rows. Only the nested-loop join re-`Init`s a child, and its own
  loss of matches (finding 4) would mask the effect, so the model
  initialises the root once.
- **Table heap and index failures.** The results of `UpdateTuple` and
  `MarkDelete` are ignored by the code. `TableHeap` is not in the sources,
  and its failures are not modelled. Concurrent queries are not modelled
  either: the executors take no locks, so their isolation depends on code
  outside `src/`.
- **`LRUReplacer`.** Its source is not in the repository. `BufferPoolInstance`
  models it from its interface: `Victim` takes the least recently unpinned
  frame, `Pin` removes a frame, `Unpin` appends one that is absent.
- **`LRUKReplacer::Size`.** It is a read with no caller.
- **Page guards.** They are stubs.

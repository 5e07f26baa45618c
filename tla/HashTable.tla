----------------------------- MODULE HashTable -----------------------------
(***************************************************************************)
(* The disk-backed extendible hash table of                               *)
(* src/container/hash/extendible_hash_table.cpp with its directory page   *)
(* (hash_table_directory_page.cpp) and bucket pages                        *)
(* (hash_table_bucket_page.cpp), used by concurrent client threads.        *)
(*                                                                         *)
(* Every public method holds table_latch_ (write, or read for GetValue)   *)
(* for its whole body, so a body is one atomic step, except that Insert   *)
(* unlocks before calling SplitInsert, SplitInsert unlocks before calling *)
(* Insert again, and Remove unlocks before calling Merge: each of those   *)
(* calls is a step of its own, and other threads may run in between.     *)
(* The buffer pool is abstracted to always supply the pages: a page is     *)
(* named by its id, and NewPage hands out the next id.                     *)
(*                                                                         *)
(* A bucket page is a page value of HashTableBucketPage: its slot array  *)
(* with the occupied_ and readable_ bitmaps.  The directory is the three  *)
(* fields of HashTableDirectoryPage: global_depth_, local_depths_,         *)
(* bucket_page_ids_.                                                       *)
(***************************************************************************)
EXTENDS Integers, FiniteSets, Sequences, Bitwise

CONSTANTS
    Clients,
    Keys, Vals,
    Hash,           \* hash_fn_ on Keys: [Keys -> Nat]
    BucketSize,     \* BUCKET_ARRAY_SIZE
    MaxDepth,       \* MAX_BUCKET_DEPTH (directory size 2^MaxDepth)
    MaxPages,       \* bound on the bucket pages NewPage hands out (a state
                    \* constraint: the pool itself never runs out)
    MaxOps,         \* bound on the calls each client makes
    NoCall,
    NoPair          \* model value: a bucket slot never written

VARIABLES
    gd,         \* global_depth_
    ld,         \* local_depths_
    bp,         \* bucket_page_ids_
    bucket,     \* bucket page id -> bucket page value
    nextPage,   \* next page id NewPage hands out
    pc,         \* client: "idle" | "call" | "split" | "insert" | "merge"
    call,       \* client: the call in progress
    target,     \* client: bucket_idx Remove passes to Merge
    result,     \* client: what GetValue returned
    ops         \* client: calls made

vars == <<gd, ld, bp, bucket, nextPage, pc, call, target, result, ops>>

DirIdx == 0 .. 2 ^ MaxDepth - 1
PageIds == 1 .. MaxPages + 1
Invalid == -1   \* INVALID_PAGE_ID
Zeroed == 0     \* an entry of the zeroed directory page never set
Pairs == Keys \X Vals
Calls == [op : {"Insert", "Remove", "GetValue"}, key : Keys, val : Vals, done : BOOLEAN]

\* The bucket page's methods, with BUCKET_ARRAY_SIZE = BucketSize.
BP == INSTANCE HashTableBucketPage WITH BucketArraySize <- BucketSize

\* FetchDirectoryPage on first use: a zeroed directory page (global depth
\* 0, all local depths 0) whose entry 0 names a new, empty bucket page.
Init ==
    /\ gd = 0
    /\ ld = [i \in DirIdx |-> 0]
    /\ bp = [i \in DirIdx |-> IF i = 0 THEN 1 ELSE Zeroed]
    /\ bucket = [p \in PageIds |-> BP!EmptyPage]
    /\ nextPage = 2
    /\ pc = [c \in Clients |-> "idle"]
    /\ call = [c \in Clients |-> NoCall]
    /\ target = [c \in Clients |-> 0]
    /\ result = [c \in Clients |-> {}]
    /\ ops = [c \in Clients |-> 0]

-----------------------------------------------------------------------------
(* Directory page helpers                                                  *)

Size == 2 ^ gd
\* GetGlobalDepthMask: (1 << global_depth_) - 1
GetGlobalDepthMask == 2 ^ gd - 1
\* GetLocalDepthMask of a bucket of local depth l: (1 << l) - 1
GetLocalDepthMask(l) == 2 ^ l - 1
\* KeyToDirectoryIndex: Hash(key) & GetGlobalDepthMask()
KeyToDirectoryIndex(k) == Hash[k] & GetGlobalDepthMask
KeyToPageId(k) == bp[KeyToDirectoryIndex(k)]
\* GetSplitImageIndex: bucket_idx ^ (1 << (local_depth - 1))
GetSplitImageIndex(i) == i ^^ (2 ^ (ld[i] - 1))
\* CanShrink on local depths l: every one below the global depth.
CanShrink(l) == \A i \in 0 .. Size - 1 : l[i] < gd
\* IncrGlobalDepth / DecrGlobalDepth: global_depth_++ / global_depth_--.
IncrGlobalDepth == gd + 1
DecrGlobalDepth == gd - 1
\* DecrLocalDepth(bucket_idx): local_depths_[bucket_idx]--.
DecrLocalDepth(i) == ld[i] - 1

\* Mutant: the re-insert loop's test inverted, so each pair goes to the
\* page its new index does not name.
RECURSIVE ReInsertSwapped(_, _, _, _)
ReInsertSwapped(pgP, pgI, copy, toP) ==
    IF copy = <<>> THEN <<pgP, pgI>>
    ELSE IF Head(copy) \notin toP
         THEN ReInsertSwapped(BP!Insert(pgP, Head(copy)), pgI, Tail(copy), toP)
         ELSE ReInsertSwapped(pgP, BP!Insert(pgI, Head(copy)), Tail(copy), toP)

\* The last loop of SplitInsert: re-insert the copied pairs, in slot
\* order, into the reset split bucket (those whose new index names P) or
\* into the image.
RECURSIVE ReInsert(_, _, _, _)
ReInsert(pgP, pgI, copy, toP) ==
    IF copy = <<>> THEN <<pgP, pgI>>
    ELSE IF Head(copy) \in toP
         THEN ReInsert(BP!Insert(pgP, Head(copy)), pgI, Tail(copy), toP)
         ELSE ReInsert(pgP, BP!Insert(pgI, Head(copy)), Tail(copy), toP)

-----------------------------------------------------------------------------
(* Client threads                                                          *)

Done(c) == /\ pc' = [pc EXCEPT ![c] = "idle"]
           /\ call' = [call EXCEPT ![c] = NoCall]

Invoke(c, o) ==
    /\ pc[c] = "idle" /\ ops[c] < MaxOps /\ ~o.done
    /\ pc' = [pc EXCEPT ![c] = "call"]
    /\ call' = [call EXCEPT ![c] = o]
    /\ ops' = [ops EXCEPT ![c] = @ + 1]
    /\ UNCHANGED <<gd, ld, bp, bucket, nextPage, target, result>>

\* GetValue: read the key's bucket under the read latch.
GetValue(c) ==
    LET k == call[c].key IN
    /\ pc[c] = "call" /\ call[c].op = "GetValue"
    /\ result' = [result EXCEPT ![c] = BP!GetValue(bucket[KeyToPageId(k)], k)]
    /\ Done(c)
    /\ UNCHANGED <<gd, ld, bp, bucket, nextPage, target, ops>>

\* Insert (first call, or the call SplitInsert ends with): insert into a
\* bucket that is not full (a pair already there is refused), or release
\* the latch and go on to SplitInsert.
Insert(c) ==
    LET b  == KeyToPageId(call[c].key)
        pr == <<call[c].key, call[c].val>>
    IN  /\ pc[c] \in {"call", "insert"} /\ call[c].op = "Insert"
        /\ IF ~BP!IsFull(bucket[b])
           THEN /\ bucket' = [bucket EXCEPT ![b] = BP!Insert(@, pr)]
                /\ Done(c)
           ELSE /\ pc' = [pc EXCEPT ![c] = "split"]
                /\ UNCHANGED <<bucket, call>>
        /\ UNCHANGED <<gd, ld, bp, nextPage, target, result, ops>>

\* The loops of SplitInsert that point every entry of the two halves of
\* the split bucket at their page (lines 264-283), then the fill of a
\* doubled directory's upper half from its lower half (lines 285-296).
SplitDirectory(idx, si, P, I, l1, size1, inc) ==
    LET diff == 2 ^ l1
        InClass(i) == i < size1 /\ (i % diff = idx % diff \/ i % diff = si % diff)
        bpA == [i \in DirIdx |-> IF InClass(i) THEN (IF i % diff = idx % diff THEN P ELSE I) ELSE bp[i]]
        ldA == [i \in DirIdx |-> IF InClass(i) THEN l1 ELSE ld[i]]
        Fill(i) == inc /\ size1 \div 2 <= i /\ i < size1 /\ ~InClass(i)
    IN  <<[i \in DirIdx |-> IF Fill(i) THEN bpA[i - size1 \div 2] ELSE bpA[i]],
          [i \in DirIdx |-> IF Fill(i) THEN ldA[i - size1 \div 2] ELSE ldA[i]]>>

\* SplitInsert: give up at MAX_BUCKET_DEPTH; otherwise deepen the
\* directory if needed, split the key's bucket into itself and a new
\* page, rehash its pairs by the new local depth, and call Insert again.
SplitInsert(c) ==
    LET k   == call[c].key
        idx == KeyToDirectoryIndex(k)
        l0  == ld[idx]
        P   == bp[idx]
    IN  /\ pc[c] = "split"
        /\ \/ /\ l0 >= MaxDepth
              /\ Done(c)
              /\ UNCHANGED <<gd, ld, bp, bucket, nextPage>>
           \/ /\ l0 < MaxDepth
              /\ LET inc   == l0 = gd
                     size1 == 2 ^ (IF inc THEN gd + 1 ELSE gd)
                     I     == nextPage
                     \* GetSplitImageIndex after IncrLocalDepth(bucket_idx)
                     si    == idx ^^ (2 ^ l0)
                     dir   == SplitDirectory(idx, si, P, I, l0 + 1, size1, inc)
                     ToP(pr) == dir[1][Hash[pr[1]] & GetLocalDepthMask(l0 + 1)] = P
                     \* NumReadable + GetArrayCopy, then Reset the split bucket
                     copy  == BP!GetArrayCopy(bucket[P])
                     toP   == {copy[n] : n \in {m \in DOMAIN copy : ToP(copy[m])}}
                     pages == ReInsert(BP!Reset(bucket[P]), bucket[I], copy, toP)
                 IN  /\ gd' = IF inc THEN IncrGlobalDepth ELSE gd
                     /\ bp' = dir[1]
                     /\ ld' = dir[2]
                     /\ bucket' = [bucket EXCEPT ![P] = pages[1], ![I] = pages[2]]
                     /\ nextPage' = nextPage + 1
                     /\ pc' = [pc EXCEPT ![c] = "insert"]
                     /\ UNCHANGED call
        /\ UNCHANGED <<target, result, ops>>

\* Remove: clear the pair from the key's bucket; if the bucket is now
\* empty, release the latch and go on to Merge with this bucket_idx.
Remove(c) ==
    LET k   == call[c].key
        idx == KeyToDirectoryIndex(k)
        b   == bp[idx]
        rest == BP!Remove(bucket[b], <<k, call[c].val>>)
    IN  /\ pc[c] = "call" /\ call[c].op = "Remove"
        /\ bucket' = [bucket EXCEPT ![b] = rest]
        /\ IF BP!IsEmpty(rest)
           THEN /\ pc' = [pc EXCEPT ![c] = "merge"]
                /\ call' = [call EXCEPT ![c].done = TRUE]
                /\ target' = [target EXCEPT ![c] = idx]
           ELSE /\ Done(c)
                /\ UNCHANGED target
        /\ UNCHANGED <<gd, ld, bp, nextPage, result, ops>>

\* Mutant: only the upward loop of Merge.
MergeClassUpOnly(t, diff) == {i \in DirIdx : i % diff = t % diff /\ t <= i /\ i < Size}

\* The two loops of Merge (lines 377-387): entries congruent to the target
\* modulo the decremented depth, from the target down to 0 and from it up
\* to Size().
MergeClass(t, diff) == {i \in DirIdx : i % diff = t % diff /\ (i <= t \/ i < Size)}

\* Merge(target_bucket_index): nothing at local depth 0; otherwise point
\* the target's whole class at its split image's page with the local depth
\* decremented, then halve the directory if CanShrink().
Merge(c) ==
    LET t == target[c]
        l == ld[t]
    IN  /\ pc[c] = "merge"
        /\ \/ /\ l = 0
              /\ UNCHANGED <<gd, ld, bp>>
           \/ /\ l > 0
              /\ LET IP  == bp[GetSplitImageIndex(t)]
                     cls == MergeClass(t, 2 ^ DecrLocalDepth(t))
                     ld1 == [i \in DirIdx |-> IF i \in cls THEN DecrLocalDepth(t) ELSE ld[i]]
                 IN  /\ bp' = [i \in DirIdx |-> IF i \in cls THEN IP ELSE bp[i]]
                     /\ ld' = ld1
                     /\ gd' = IF CanShrink(ld1) THEN DecrGlobalDepth ELSE gd
        /\ Done(c)
        /\ UNCHANGED <<bucket, nextPage, target, result, ops>>

\* Every client has made its calls: the system stops.
Terminated ==
    /\ \A c \in Clients : pc[c] = "idle" /\ ops[c] = MaxOps
    /\ UNCHANGED vars

Next ==
    \/ Terminated
    \/ \E c \in Clients :
        \/ \E o \in Calls : Invoke(c, o)
        \/ GetValue(c) \/ Insert(c) \/ SplitInsert(c) \/ Remove(c) \/ Merge(c)

Spec == Init /\ [][Next]_vars

\* Bound on explored states: at most MaxPages bucket pages handed out.
PageBound == nextPage <= MaxPages + 1

-----------------------------------------------------------------------------
TypeOK ==
    /\ gd \in 0 .. MaxDepth
    /\ ld \in [DirIdx -> 0 .. MaxDepth]
    /\ bp \in [DirIdx -> PageIds \cup {Invalid, Zeroed}]
    /\ \A p \in PageIds :
        /\ bucket[p].array \in [BP!Slots -> Pairs \cup {NoPair}]
        /\ bucket[p].occupied \in [BP!Bytes -> 0 .. 255]
        /\ bucket[p].readable \in [BP!Bytes -> 0 .. 255]
    /\ nextPage \in 2 .. MaxPages + 2
    /\ pc \in [Clients -> {"idle", "call", "split", "insert", "merge"}]
    /\ call \in [Clients -> Calls \cup {NoCall}]
    /\ target \in [Clients -> DirIdx]
    /\ result \in [Clients -> SUBSET Vals]
    /\ ops \in [Clients -> 0 .. MaxOps]

\* HashTableDirectoryPage::VerifyIntegrity: over the first Size() entries,
\* page_id_to_ld keeps the local depth first seen for each page id and
\* every later entry must agree with it; each local depth is at most the
\* global depth; and a page of local depth d is named by exactly
\* page_id_to_count = 1 << (global_depth_ - d) entries.
VerifyIntegrity ==
    LET Idx == 0 .. Size - 1
        PageIdToCount(pid) == Cardinality({i \in Idx : bp[i] = pid})
        PageIdToLd(pid) == ld[CHOOSE i \in Idx : bp[i] = pid /\ \A j \in 0 .. i - 1 : bp[j] # pid]
    IN  /\ \A i \in Idx : ld[i] <= gd /\ ld[i] = PageIdToLd(bp[i])
        /\ \A pid \in {bp[i] : i \in Idx} : PageIdToCount(pid) = 2 ^ (gd - PageIdToLd(pid))

\* The directory passes VerifyIntegrity, which any thread may run between
\* two calls, in every state: SplitInsert's loops and Merge's loops, run
\* by interleaved threads and by Merge with a bucket index computed before
\* another thread changed the directory, keep local depths and pointer
\* counts consistent.
DirectoryIntegrity == VerifyIntegrity

\* Every bucket page's slots are in the shape its methods rely on: the
\* readable slots hold pairwise different pairs (Insert scans for an equal
\* pair before it writes, and Remove clears only the first match, so a
\* duplicate would survive a Remove); every readable slot is occupied; and
\* the occupied slots are a prefix of the array (PrintBucket stops at the
\* first one that is not).  Splits re-insert the copied pairs into reset
\* pages, and concurrent Inserts of the same pair race through SplitInsert.
BucketSlotsConsistent ==
    \A p \in PageIds :
        LET pg == bucket[p]
            R  == BP!ReadableSlots(pg)
            O  == {i \in BP!Slots : BP!IsOccupied(pg, i)}
        IN  /\ \A i, j \in R : i # j => pg.array[i] # pg.array[j]
            /\ R \subseteq O
            /\ \A i \in O : 0 .. i \subseteq O

\* The assert()s of SplitInsert's re-insert loop (lines 301, 305, 307)
\* hold for a split that can run now: each pair copied out of the split
\* bucket has a new index (hash & GetLocalDepthMask) that names the split
\* bucket or its image after the four class loops and the upper-half fill
\* rewrote the directory, and every Insert into the reset bucket or the
\* fresh image succeeds, so no copied pair is dropped.  The pages and the
\* directory a waiting thread splits were changed by other threads since
\* its Insert found the bucket full.  (A split past the page bound, which
\* PageBound keeps TLC from taking, is not asked about.)
SplitReInsertAsserts ==
    \A c \in Clients : pc[c] = "split" =>
        LET idx == KeyToDirectoryIndex(call[c].key)
            l0 == ld[idx]  P == bp[idx]  I == nextPage
            g1 == IF l0 = gd THEN IncrGlobalDepth ELSE gd
            dir == SplitDirectory(idx, idx ^^ (2 ^ l0), P, I, l0 + 1, 2 ^ g1, l0 = gd)
            copy == BP!GetArrayCopy(bucket[P])
            toP == {copy[n] : n \in {m \in DOMAIN copy : dir[1][Hash[copy[m][1]] & GetLocalDepthMask(l0 + 1)] = P}}
            pages == ReInsert(BP!Reset(bucket[P]), bucket[I], copy, toP)
        IN  l0 < MaxDepth /\ I \in PageIds =>
            /\ \A pr \in BP!Contents(bucket[P]) :
                  dir[1][Hash[pr[1]] & GetLocalDepthMask(l0 + 1)] \in {P, I}
            /\ BP!Contents(pages[1]) \cup BP!Contents(pages[2]) = BP!Contents(bucket[P])

\* What a GetValue of each key would return right now.
Visible == {pr \in Pairs : pr \in BP!Contents(bucket[KeyToPageId(pr[1])])}

KV == INSTANCE KVStore WITH
        contents <- Visible,
        pending <- [c \in Clients |-> IF pc[c] = "idle" THEN NoCall ELSE call[c]]

\* The table is a linearizable set of pairs: every step either leaves the
\* pairs GetValue can see alone, or is the one instant at which an
\* in-progress Insert, Remove or GetValue takes effect.  SplitInsert and
\* Merge may reorganise pages but never change what is visible.
Linearizable == KV!Spec
=============================================================================

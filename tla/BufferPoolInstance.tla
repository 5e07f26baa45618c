------------------------- MODULE BufferPoolInstance -------------------------
(***************************************************************************)
(* BufferPoolManagerInstance (src/buffer/buffer_pool_manager_instance.cpp), *)
(* one instance of a parallel pool: it hands out the page ids congruent to *)
(* InstanceIndex modulo NumInstances, and evicts with an LRUReplacer.      *)
(* FetchPgImp, NewPgImp, UnpinPgImp, FlushPgImp and DeletePgImp run under  *)
(* `latch_`, so each is one atomic step.  FlushAllPgsImp takes no latch:   *)
(* for each frame i it reads pages_[i].page_id_ and then calls FlushPage   *)
(* with it, so other threads run between the read and the flush, and      *)
(* between two frames.                                                     *)
(*                                                                         *)
(*   frames[f]   pages_[f]: page_id_, pin_count_, is_dirty_, data_         *)
(*   pageTable   page_table_ (NoFrame = no entry)                          *)
(*   freeList    free_list_                                                *)
(*   lru         the LRUReplacer's list, least recently unpinned first     *)
(*   nextPageId  next_page_id_                                             *)
(*   disk        the disk manager's page images                            *)
(*   flushAll    per client: idle, or the frame FlushAllPgsImp is at and   *)
(*               the page id it read from it                               *)
(*   writeParity flips with every client write (history, for PageStore)  *)
(*   held, live  client-side: the pages each client has pinned (and        *)
(*               whether it wrote), and the page ids that exist            *)
(***************************************************************************)
EXTENDS Integers, Sequences, FiniteSets, SequencesExt

CONSTANTS
    Clients,
    PoolSize,       \* pool_size_
    NumInstances,   \* num_instances_
    InstanceIndex,  \* instance_index_
    MaxPages,       \* bound on the pages AllocatePage hands out
    MaxHeld,        \* bound on the pages one client has pinned at once
    Values,         \* the contents a client writes
    Zero,           \* content after ResetMemory / of a never-written page
    InvalidPageId,  \* INVALID_PAGE_ID
    NoFrame,
    NoPage          \* PageStore's content of a page that does not exist

VARIABLES frames, pageTable, freeList, lru, nextPageId, disk, flushAll, held, live, writeParity

vars == <<frames, pageTable, freeList, lru, nextPageId, disk, flushAll, held, live, writeParity>>

Frames == 0 .. PoolSize - 1
\* The page ids this instance may allocate, in allocation order.
PageOf(k) == InstanceIndex + k * NumInstances
PageIds == {PageOf(k) : k \in 0 .. MaxPages - 1}
Idle == [frame |-> -1, pid |-> InvalidPageId, read |-> FALSE]

\* The constructor: frames 0 .. pool_size_-1 on the free list, in order,
\* next_page_id_ = instance_index_.
Init ==
    /\ frames = [f \in Frames |-> [pageId |-> InvalidPageId, pin |-> 0, dirty |-> FALSE, data |-> Zero]]
    /\ pageTable = [p \in PageIds |-> NoFrame]
    /\ freeList = [i \in 1 .. PoolSize |-> i - 1]
    /\ lru = <<>>
    /\ nextPageId = InstanceIndex
    /\ disk = [p \in PageIds |-> Zero]
    /\ flushAll = [c \in Clients |-> Idle]
    /\ held = [c \in Clients |-> [p \in PageIds |-> "none"]]
    /\ live = {}
    /\ writeParity = FALSE

-----------------------------------------------------------------------------
\* LRUReplacer (not among the sources): Victim takes the least recently
\* unpinned frame, Pin drops a frame, Unpin adds one that is not there.
LRUVictim == IF lru = <<>> THEN NoFrame ELSE Head(lru)
LRUPin(l, f) == SelectSeq(l, LAMBDA g : g # f)
LRUUnpin(l, f) == IF f \in Range(l) THEN l ELSE Append(l, f)

-----------------------------------------------------------------------------
Resident(p) == p \in PageIds /\ pageTable[p] # NoFrame
\* The calling thread is not inside FlushAllPgsImp.
Ready(c) == flushAll[c] = Idle
\* Client c may take one more pin.
MayPin(c) == Cardinality({p \in PageIds : held[c][p] # "none"}) < MaxHeld

\* Mutant: next_page_id_ advances by one, as in a single instance.
AllocatePageByOne(n) == n + 1

\* AllocatePage: the next id, then next_page_id_ += num_instances_.
AllocatePage(n) == n + NumInstances

\* The frame NewPgImp and FetchPgImp take: the free list's front, else the
\* replacer's victim (NoFrame: they return nullptr).
NextFrame == IF freeList # <<>> THEN Head(freeList) ELSE LRUVictim

\* The part NewPgImp and FetchPgImp (on a miss) share: take NextFrame (pop
\* the free list, or evict the victim, writing it back if is_dirty_ and
\* erasing its page_table_ entry), map page p to it, Pin it in the
\* replacer, reset it to content d with pin count 1, and hand the pin to c.
InstallPage(c, p, d) ==
    LET fra  == NextFrame
        free == freeList # <<>>
        old  == frames[fra].pageId
    IN  /\ fra # NoFrame
        /\ freeList' = IF free THEN Tail(freeList) ELSE freeList
        /\ disk' = IF ~free /\ frames[fra].dirty THEN [disk EXCEPT ![old] = frames[fra].data] ELSE disk
        /\ pageTable' = [IF free THEN pageTable ELSE [pageTable EXCEPT ![old] = NoFrame]
                         EXCEPT ![p] = fra]
        /\ lru' = LRUPin(IF free THEN lru ELSE Tail(lru), fra)
        /\ frames' = [frames EXCEPT ![fra] = [pageId |-> p, pin |-> 1, dirty |-> FALSE, data |-> d]]
        /\ held' = [held EXCEPT ![c][p] = "clean"]

\* NewPgImp: install the page AllocatePage hands out, zeroed.
NewPgImp(c) ==
    /\ Ready(c) /\ MayPin(c)
    /\ nextPageId \in PageIds
    /\ InstallPage(c, nextPageId, Zero)
    /\ nextPageId' = AllocatePage(nextPageId)
    /\ live' = live \cup {nextPageId}
    /\ UNCHANGED <<flushAll, writeParity>>

\* FetchPgImp of a resident page: pin_count_++, Pin in the replacer.
FetchPgHit(c, p) ==
    LET fra == pageTable[p] IN
    /\ Ready(c) /\ MayPin(c) /\ p \in live /\ held[c][p] = "none"
    /\ Resident(p)
    /\ frames' = [frames EXCEPT ![fra].pin = @ + 1]
    /\ lru' = LRUPin(lru, fra)
    /\ held' = [held EXCEPT ![c][p] = "clean"]
    /\ UNCHANGED <<writeParity, pageTable, freeList, nextPageId, disk, flushAll, live>>

\* FetchPgImp of a page not in memory: install it and ReadPage its image.
FetchPgMiss(c, p) ==
    /\ Ready(c) /\ MayPin(c) /\ p \in live /\ held[c][p] = "none"
    /\ ~Resident(p)
    /\ InstallPage(c, p, disk[p])
    /\ UNCHANGED <<writeParity, nextPageId, flushAll, live>>

\* Mutant: the zero test reads pin_count_ before the decrement.
ReleasesLastPinBefore(pin) == pin <= 0

\* After pin_count_-- the frame goes to the replacer when no pin is left.
ReleasesLastPin(pin) == pin - 1 <= 0

\* UnpinPgImp by a client holding p: pin_count_--, is_dirty_ |= is_dirty,
\* Unpin in the replacer when the count reaches zero.
UnpinPgImp(c, p) ==
    LET fra == pageTable[p] IN
    /\ Ready(c) /\ held[c][p] # "none"
    /\ frames' = [frames EXCEPT ![fra].pin = @ - 1,
                                ![fra].dirty = @ \/ held[c][p] = "dirty"]
    /\ lru' = IF ReleasesLastPin(frames[fra].pin) THEN LRUUnpin(lru, fra) ELSE lru
    /\ held' = [held EXCEPT ![c][p] = "none"]
    /\ UNCHANGED <<writeParity, pageTable, freeList, nextPageId, disk, flushAll, live>>

\* A client writes value v into the data of a page it has pinned.
WritePage(c, p, v) ==
    /\ Ready(c) /\ held[c][p] # "none"
    /\ frames' = [frames EXCEPT ![pageTable[p]].data = v]
    /\ held' = [held EXCEPT ![c][p] = "dirty"]
    /\ writeParity' = ~writeParity
    /\ UNCHANGED <<pageTable, freeList, lru, nextPageId, disk, flushAll, live>>

\* Mutant: FlushAllPgsImp writes out pages_[i] itself instead of the frame
\* page_table_ maps the id it read to.
FlushFrameRead(c, pid) == IF flushAll[c].read THEN flushAll[c].frame ELSE pageTable[pid]

\* The frame FlushPgImp writes: page_table_.find(page_id)->second.
FlushFrame(c, pid) == pageTable[pid]

\* FlushPgImp(pid) under latch_: nothing if pid is INVALID_PAGE_ID or not
\* in page_table_, else WritePage and clear is_dirty_.
FlushPgImp(c, pid) ==
    LET fra == FlushFrame(c, pid) IN
    IF Resident(pid)
    THEN /\ disk' = [disk EXCEPT ![pid] = frames[fra].data]
         /\ frames' = [frames EXCEPT ![fra].dirty = FALSE]
    ELSE UNCHANGED <<writeParity, disk, frames>>

\* FlushPage of a resident page, called by a client.
FlushPage(c, p) ==
    /\ Ready(c) /\ Resident(p)
    /\ FlushPgImp(c, p)
    /\ UNCHANGED <<writeParity, pageTable, freeList, lru, nextPageId, flushAll, held, live>>

\* FlushAllPgsImp, first half of an iteration: read pages_[i].page_id_
\* without latch_ (i = 0 when the call starts).
FlushAllRead(c) ==
    LET i == IF Ready(c) THEN 0 ELSE flushAll[c].frame IN
    /\ ~flushAll[c].read
    /\ flushAll' = [flushAll EXCEPT ![c] = [frame |-> i, pid |-> frames[i].pageId, read |-> TRUE]]
    /\ UNCHANGED <<writeParity, frames, pageTable, freeList, lru, nextPageId, disk, held, live>>

\* Second half: FlushPage(the id read), then the next frame, or return.
FlushAllFlush(c) ==
    LET i == flushAll[c].frame IN
    /\ flushAll[c].read
    /\ FlushPgImp(c, flushAll[c].pid)
    /\ flushAll' = [flushAll EXCEPT ![c] = IF i = PoolSize - 1 THEN Idle
                                           ELSE [frame |-> i + 1, pid |-> InvalidPageId, read |-> FALSE]]
    /\ UNCHANGED <<writeParity, pageTable, freeList, lru, nextPageId, held, live>>

\* DeletePgImp of an unpinned resident page: free list, replacer Pin, page
\* table, ResetMemory.  page_id_ and is_dirty_ are left as they were, and
\* DeallocatePage does nothing.
DeletePgResident(c, p) ==
    LET fra == pageTable[p] IN
    /\ Ready(c) /\ p \in live /\ Resident(p)
    /\ frames[fra].pin = 0
    /\ freeList' = Append(freeList, fra)
    /\ lru' = LRUPin(lru, fra)
    /\ pageTable' = [pageTable EXCEPT ![p] = NoFrame]
    /\ frames' = [frames EXCEPT ![fra].data = Zero]
    /\ live' = live \ {p}
    /\ UNCHANGED <<writeParity, nextPageId, disk, flushAll, held>>

\* DeletePgImp of a page not in page_table_ returns true, changing nothing.
DeletePgNotResident(c, p) ==
    /\ Ready(c) /\ p \in live /\ ~Resident(p)
    /\ live' = live \ {p}
    /\ UNCHANGED <<writeParity, frames, pageTable, freeList, lru, nextPageId, disk, flushAll, held>>

\* Every page id was handed out and deleted, and no flush is under way.
Exhausted ==
    /\ nextPageId \notin PageIds /\ live = {}
    /\ \A c \in Clients : Ready(c)
    /\ UNCHANGED vars

Next ==
    \/ Exhausted
    \/ \E c \in Clients :
        \/ NewPgImp(c) \/ FlushAllRead(c) \/ FlushAllFlush(c)
        \/ \E p \in PageIds :
            \/ FetchPgHit(c, p) \/ FetchPgMiss(c, p) \/ UnpinPgImp(c, p)
            \/ FlushPage(c, p) \/ DeletePgResident(c, p) \/ DeletePgNotResident(c, p)
            \/ \E v \in Values : WritePage(c, p, v)

Spec == Init /\ [][Next]_vars

-----------------------------------------------------------------------------
\* The shape of every variable, and ValidatePageId's assertion: every id
\* AllocatePage hands out maps back to this instance.
TypeOK ==
    /\ frames \in [Frames -> [pageId : PageIds \cup {InvalidPageId}, pin : Nat,
                               dirty : BOOLEAN, data : Values \cup {Zero}]]
    /\ pageTable \in [PageIds -> Frames \cup {NoFrame}]
    /\ freeList \in Seq(Frames) /\ lru \in Seq(Frames)
    /\ nextPageId \in {PageOf(k) : k \in 0 .. MaxPages}
    /\ disk \in [PageIds -> Values \cup {Zero}]
    /\ flushAll \in [Clients -> {Idle} \cup [frame : Frames, pid : PageIds \cup {InvalidPageId},
                                               read : BOOLEAN]]
    /\ held \in [Clients -> [PageIds -> {"none", "clean", "dirty"}]]
    /\ live \subseteq PageIds
    /\ writeParity \in BOOLEAN

Holders(p) == {c \in Clients : held[c][p] # "none"}
Count(s, f) == Cardinality({i \in 1 .. Len(s) : s[i] = f})

\* Every frame is in exactly one of two conditions, whatever sequence of
\* calls and unlatched FlushAllPgsImp reads led there: free (on
\* free_list_ once, no page_table_ entry, not in the LRU list), or holding
\* exactly the one page page_table_ maps to it, with pin_count_ equal to
\* the number of clients holding it, in the LRU list once exactly when
\* pin_count_ is 0.
FrameAccounting ==
    \A f \in Frames :
        LET mapped == {p \in PageIds : pageTable[p] = f} IN
        \/ /\ Count(freeList, f) = 1 /\ mapped = {} /\ Count(lru, f) = 0
        \/ /\ Count(freeList, f) = 0
           /\ mapped = {frames[f].pageId}
           /\ frames[f].pin = Cardinality(Holders(frames[f].pageId))
           /\ Count(lru, f) = IF frames[f].pin = 0 THEN 1 ELSE 0

\* What a client reads from page p: the frame's data if p is in memory,
\* else its disk image; nothing for a page not (or no longer) allocated.
StoreView == [p \in PageIds |->
                IF p \notin live THEN NoPage
                ELSE IF Resident(p) THEN frames[pageTable[p]].data ELSE disk[p]]

\* The abstract store numbers pages 0, 1, 2, ...; this instance's k-th page
\* is PageOf(k).
PS == INSTANCE PageStore WITH
        PageIds <- 0 .. MaxPages - 1,
        store <- [k \in 0 .. MaxPages - 1 |-> StoreView[PageOf(k)]],
        nextPageId <- (nextPageId - InstanceIndex) \div NumInstances

\* The instance, with eviction, write-back, re-reading and FlushAllPgsImp
\* flushing whatever page id it read without the latch, implements a plain
\* page store: each step leaves every page's content alone or is a
\* PageStore Create, Write or Delete.
PageStoreRefined == PS!Spec
=============================================================================

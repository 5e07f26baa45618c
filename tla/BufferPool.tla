----------------------------- MODULE BufferPool -----------------------------
(***************************************************************************)
(* BufferPoolManager (src/buffer/buffer_pool_manager.cpp) with its LRU-K   *)
(* replacer, driven by client threads that pin pages, write through the    *)
(* pinned Page and unpin with the dirty flag they owe.  Every method runs  *)
(* under the pool's `latch_`, and the replacer calls it makes run inside   *)
(* that critical section, so a method is one atomic step.  A call that     *)
(* returns false/nullptr without changing anything is a stuttering step    *)
(* and is left out.                                                        *)
(*                                                                         *)
(*   frames[f]   pages_[f]: page_id_, pin_count_, is_dirty_, data_         *)
(*   pageTable   page_table_ (NoFrame = no entry)                          *)
(*   freeList    free_list_                                                *)
(*   rep         replacer_ (a value of module LRUKReplacer)                *)
(*   nextPageId  next_page_id_                                             *)
(*   disk        the disk manager's page images                            *)
(*   latch       owner of latch_ between calls ("free" or the method that  *)
(*               never released it)                                        *)
(*   writeParity flips with every client write (history, for PageStore)  *)
(*   held, live  client-side: which pages each client has pinned (and      *)
(*               whether it wrote), and which page ids exist               *)
(***************************************************************************)
EXTENDS LRUKReplacer

CONSTANTS
    Clients,
    PageIds,        \* 0 .. n: the page ids next_page_id_ may hand out
    Values,         \* the contents a client writes
    Zero,           \* content after ResetMemory / of a never-written page
    InvalidPageId,  \* INVALID_PAGE_ID
    MaxTs,          \* bound on the replacer's current_timestamp_
    NoPage          \* PageStore's content of a page that does not exist

VARIABLES frames, pageTable, freeList, rep, nextPageId, disk, latch, held, live, writeParity

vars == <<frames, pageTable, freeList, rep, nextPageId, disk, latch, held, live, writeParity>>

Frame == [pageId : PageIds \cup {InvalidPageId}, pin : Nat, dirty : BOOLEAN, data : Values \cup {Zero}]

\* The constructor: every frame on the free list, in order.
Init ==
    /\ frames = [f \in Frames |-> [pageId |-> InvalidPageId, pin |-> 0, dirty |-> FALSE, data |-> Zero]]
    /\ pageTable = [p \in PageIds |-> NoFrame]
    /\ freeList \in {s \in [1 .. Cardinality(Frames) -> Frames] : \A i \in 1 .. Len(s) - 1 : s[i] < s[i + 1]}
    /\ rep = InitReplacer
    /\ nextPageId = 0
    /\ disk = [p \in PageIds |-> Zero]
    /\ latch = "free"
    /\ held = [c \in Clients |-> [p \in PageIds |-> "none"]]
    /\ live = {}
    /\ writeParity = FALSE

Resident(p) == pageTable[p] # NoFrame
\* latch_ free, and the replacer's timestamp below its bound.
AccessAllowed == latch = "free" /\ rep.ts < MaxTs

\* The frame NewPage and FetchPage take: the free list's front, else the
\* replacer's victim (NoFrame: they return nullptr).
NextFrame == IF freeList # <<>> THEN Head(freeList) ELSE Victim(rep)

\* Mutant: the victim's dirty page is not written back.
WriteBackSkipped(fra) == disk

\* Write the victim's page back if it is dirty.
WriteBack(fra) ==
    IF frames[fra].dirty THEN [disk EXCEPT ![frames[fra].pageId] = frames[fra].data] ELSE disk

\* The part NewPage and FetchPage (on a miss) share: take NextFrame (from
\* the free list, or evict, write back and unmap the victim), record the
\* access, pin it in the replacer, map page p to it and reset the frame to
\* content d with pin count 1, and hand the pin to client c.
InstallPage(c, p, d) ==
    LET fra  == NextFrame
        free == freeList # <<>>
    IN  /\ fra # NoFrame
        /\ freeList' = IF free THEN Tail(freeList) ELSE freeList
        /\ disk' = IF free THEN disk ELSE WriteBack(fra)
        /\ pageTable' = [IF free THEN pageTable ELSE [pageTable EXCEPT ![frames[fra].pageId] = NoFrame]
                         EXCEPT ![p] = fra]
        /\ rep' = SetEvictable(RecordAccess(IF free THEN rep ELSE Evict(rep), fra), fra, FALSE)
        /\ frames' = [frames EXCEPT ![fra] = [pageId |-> p, pin |-> 1, dirty |-> FALSE, data |-> d]]
        /\ held' = [held EXCEPT ![c][p] = "clean"]

\* NewPage: install the page AllocatePage() hands out, zeroed.
NewPage(c) ==
    /\ AccessAllowed
    /\ nextPageId \in PageIds
    /\ InstallPage(c, nextPageId, Zero)
    /\ nextPageId' = nextPageId + 1
    /\ live' = live \cup {nextPageId}
    /\ UNCHANGED <<latch, writeParity>>

\* FetchPage of a resident page: record the access, pin it.
FetchPageHit(c, p) ==
    LET fra == pageTable[p] IN
    /\ AccessAllowed /\ p \in live /\ held[c][p] = "none"
    /\ Resident(p)
    /\ rep' = SetEvictable(RecordAccess(rep, fra), fra, FALSE)
    /\ frames' = [frames EXCEPT ![fra].pin = @ + 1]
    /\ held' = [held EXCEPT ![c][p] = "clean"]
    /\ UNCHANGED <<writeParity, pageTable, freeList, nextPageId, disk, latch, live>>

\* FetchPage of a page not in memory: install it with its disk image.
FetchPageMiss(c, p) ==
    /\ AccessAllowed /\ p \in live /\ held[c][p] = "none"
    /\ ~Resident(p)
    /\ InstallPage(c, p, disk[p])
    /\ UNCHANGED <<writeParity, nextPageId, latch, live>>

\* Mutant: is_dirty_ = is_dirty instead of |=.
DirtyOverwritten(was, d) == d

\* is_dirty_ |= is_dirty
DirtyAfterUnpin(was, d) == was \/ d

\* Mutant: the zero test reads pin_count_ after it was already decremented.
BecomesEvictableOffByOne(pin) == pin = 0

\* The frame becomes evictable when the unpin takes its last pin.
BecomesEvictable(pin) == pin = 1

\* UnpinPage by a client holding p: drop one pin, make the frame evictable
\* when none is left, merge the dirty flag the client owes.
UnpinPage(c, p) ==
    LET fra == pageTable[p] IN
    /\ latch = "free" /\ held[c][p] # "none"
    /\ frames' = [frames EXCEPT ![fra].pin = @ - 1,
                                ![fra].dirty = DirtyAfterUnpin(@, held[c][p] = "dirty")]
    /\ rep' = IF BecomesEvictable(frames[fra].pin) THEN SetEvictable(rep, fra, TRUE) ELSE rep
    /\ held' = [held EXCEPT ![c][p] = "none"]
    /\ UNCHANGED <<writeParity, pageTable, freeList, nextPageId, disk, latch, live>>

\* A client writes value v into the data of a page it has pinned.
WritePage(c, p, v) ==
    /\ latch = "free" /\ held[c][p] # "none"
    /\ frames' = [frames EXCEPT ![pageTable[p]].data = v]
    /\ held' = [held EXCEPT ![c][p] = "dirty"]
    /\ writeParity' = ~writeParity
    /\ UNCHANGED <<pageTable, freeList, rep, nextPageId, disk, latch, live>>

\* FlushPage of a resident page: write it, clear is_dirty_.
FlushPage(c, p) ==
    LET fra == pageTable[p] IN
    /\ latch = "free" /\ Resident(p)
    /\ disk' = [disk EXCEPT ![p] = frames[fra].data]
    /\ frames' = [frames EXCEPT ![fra].dirty = FALSE]
    /\ UNCHANGED <<writeParity, pageTable, freeList, rep, nextPageId, latch, held, live>>

\* FlushAllPages locks latch_ and then calls FlushPage, which locks it
\* again: on a non-recursive std::mutex the thread blocks on itself and
\* latch_ is never released.
FlushAllPages(c) ==
    /\ latch = "free"
    /\ latch' = "FlushAllPages"
    /\ UNCHANGED <<writeParity, frames, pageTable, freeList, rep, nextPageId, disk, held, live>>

\* DeletePage of an unpinned resident page: free list, replacer, page
\* table, ResetMemory.  DeallocatePage does nothing.
DeletePageResident(c, p) ==
    LET fra == pageTable[p] IN
    /\ latch = "free" /\ p \in live /\ Resident(p)
    /\ frames[fra].pin = 0
    /\ freeList' = Append(freeList, fra)
    /\ rep' = Remove(rep, fra)
    /\ pageTable' = [pageTable EXCEPT ![p] = NoFrame]
    /\ frames' = [frames EXCEPT ![fra].data = Zero]
    /\ live' = live \ {p}
    /\ UNCHANGED <<writeParity, nextPageId, disk, latch, held>>

\* DeletePage of a page not in memory returns true and changes nothing.
DeletePageNotResident(c, p) ==
    /\ latch = "free" /\ p \in live /\ ~Resident(p)
    /\ live' = live \ {p}
    /\ UNCHANGED <<writeParity, frames, pageTable, freeList, rep, nextPageId, disk, latch, held>>

Next ==
    \E c \in Clients :
        \/ NewPage(c)
        \/ FlushAllPages(c)
        \/ \E p \in PageIds :
            \/ FetchPageHit(c, p) \/ FetchPageMiss(c, p) \/ UnpinPage(c, p)
            \/ FlushPage(c, p) \/ DeletePageResident(c, p) \/ DeletePageNotResident(c, p)
            \/ \E v \in Values : WritePage(c, p, v)

Spec == Init /\ [][Next]_vars

-----------------------------------------------------------------------------
TypeOK ==
    /\ frames \in [Frames -> Frame]
    /\ pageTable \in [PageIds -> Frames \cup {NoFrame}]
    /\ freeList \in Seq(Frames)
    /\ rep \in [node : [Frames -> Node], ts : 0 .. MaxTs, size : 0 .. Cardinality(Frames)]
    /\ nextPageId \in 0 .. Cardinality(PageIds)
    /\ disk \in [PageIds -> Values \cup {Zero}]
    /\ latch \in {"free", "FlushAllPages"}
    /\ held \in [Clients -> [PageIds -> {"none", "clean", "dirty"}]]
    /\ live \subseteq PageIds
    /\ writeParity \in BOOLEAN

Holders(p) == {c \in Clients : held[c][p] # "none"}
OnFreeList(f) == \E i \in 1 .. Len(freeList) : freeList[i] = f

\* Every frame is in exactly one of two conditions, whatever sequence of
\* NewPage / FetchPage / UnpinPage / DeletePage / evictions led there:
\* free (on free_list_ once, no page_table_ entry, no replacer node), or
\* holding exactly one page that page_table_ maps to it, with pin_count_
\* equal to the number of clients holding the page and a replacer node
\* that is evictable exactly when pin_count_ is 0.
FrameAccounting ==
    \A f \in Frames :
        LET mapped == {p \in PageIds : pageTable[p] = f} IN
        \/ /\ Cardinality({i \in 1 .. Len(freeList) : freeList[i] = f}) = 1
           /\ mapped = {}
           /\ ~rep.node[f].present
        \/ /\ ~OnFreeList(f)
           /\ mapped = {frames[f].pageId}
           /\ frames[f].pin = Cardinality(Holders(frames[f].pageId))
           /\ rep.node[f].present
           /\ rep.node[f].evictable <=> frames[f].pin = 0

\* What a client reads from page p: the frame's data if p is in memory,
\* else its disk image; nothing for a page not (or no longer) allocated.
StoreView == [p \in PageIds |->
                IF p \notin live THEN NoPage
                ELSE IF Resident(p) THEN frames[pageTable[p]].data ELSE disk[p]]

PS == INSTANCE PageStore WITH store <- StoreView

\* The pool with its caching, eviction, write-back and re-reading from
\* disk implements a plain page store: each step either leaves every
\* page's content alone or is a PageStore Create, Write or Delete.
PageStoreRefined == PS!Spec

=============================================================================

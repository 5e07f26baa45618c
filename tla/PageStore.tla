----------------------------- MODULE PageStore -----------------------------
(***************************************************************************)
(* What the buffer pool promises its callers, with caching left out: a     *)
(* store of pages.  NewPage creates the next page id with zeroed content,  *)
(* a write through a pinned page changes the page's content, DeletePage    *)
(* removes it.  Whatever the pool evicts, flushes and re-reads, a page     *)
(* reads back as the last value written to it.  `writeParity` flips with   *)
(* every client write, so a content change no client wrote is no step of   *)
(* this specification.                                                     *)
(***************************************************************************)
EXTENDS Naturals

CONSTANTS PageIds, Values, Zero, NoPage

VARIABLES store, nextPageId, writeParity

Init == /\ store = [p \in PageIds |-> NoPage]
        /\ nextPageId = 0
        /\ writeParity = FALSE

Create == /\ nextPageId \in PageIds
          /\ store' = [store EXCEPT ![nextPageId] = Zero]
          /\ nextPageId' = nextPageId + 1
          /\ UNCHANGED writeParity

Write(p, v) == /\ store[p] # NoPage
               /\ store' = [store EXCEPT ![p] = v]
               /\ writeParity' = ~writeParity
               /\ UNCHANGED nextPageId

Delete(p) == /\ store[p] # NoPage
             /\ store' = [store EXCEPT ![p] = NoPage]
             /\ UNCHANGED <<nextPageId, writeParity>>

Next == Create \/ \E p \in PageIds : Delete(p) \/ \E v \in Values : Write(p, v)

Spec == Init /\ [][Next]_<<store, nextPageId, writeParity>>
=============================================================================

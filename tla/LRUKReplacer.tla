---------------------------- MODULE LRUKReplacer ----------------------------
(***************************************************************************)
(* The LRU-K replacer of src/buffer/lru_k_replacer.cpp.  Every public      *)
(* method runs entirely under the replacer's `latch_`, so each is one      *)
(* atomic step.  The methods are written as operators on a replacer value  *)
(* so that BufferPool can apply several of them inside one step of its own *)
(* latch (RecordAccess then SetEvictable, as NewPage/FetchPage do).        *)
(*                                                                         *)
(* A replacer value is a record:                                           *)
(*   node : [Frames -> Node]  node_store_ (absent = NoNode)                *)
(*   ts   : Nat               current_timestamp_                           *)
(*   size : Nat               replacer_size_                               *)
(* LRUKNode is declared in a header that is not part of the sources: its   *)
(* history keeps the last K timestamps (spec 4.1) and a new node is not    *)
(* evictable.                                                              *)
(***************************************************************************)
EXTENDS Integers, Sequences, FiniteSets

CONSTANTS
    Frames,     \* frame ids (integers)
    K,          \* replacer_k
    NoFrame     \* model value: Evict found no victim

ASSUME K \in Nat \ {0} /\ NoFrame \notin Frames

Node == [present : BOOLEAN, hist : Seq(Nat), evictable : BOOLEAN]
NoNode == [present |-> FALSE, hist |-> <<>>, evictable |-> FALSE]

InitReplacer == [node |-> [f \in Frames |-> NoNode], ts |-> 0, size |-> 0]

\* LRUKNode::push: append, dropping the oldest beyond K entries.
Push(h, ts) == IF Len(h) < K THEN Append(h, ts) ELSE Append(Tail(h), ts)

\* RecordAccess: create the node if absent, push the current timestamp,
\* advance the timestamp.
RecordAccess(rep, f) ==
    [rep EXCEPT !.node[f] = [present |-> TRUE,
                             hist |-> Push(@.hist, rep.ts),
                             evictable |-> @.evictable],
                !.ts = @ + 1]

\* Mutant: SetEvictable counts every call, not only flag changes.
SetEvictableNoGuard(rep, f, b) ==
    [rep EXCEPT !.node[f].evictable = b,
                !.size = IF b THEN @ + 1 ELSE @ - 1]

\* SetEvictable: adjust replacer_size_ only when the flag changes.
SetEvictable(rep, f, b) ==
    LET was == rep.node[f].evictable
    IN  [rep EXCEPT !.node[f].evictable = b,
                    !.size = IF b /\ ~was THEN @ + 1
                             ELSE IF ~b /\ was THEN @ - 1 ELSE @]

\* Mutant: Remove decrements replacer_size_ whatever the flag.
RemoveAlwaysDecrements(rep, f) == [rep EXCEPT !.node[f] = NoNode, !.size = @ - 1]

\* Remove: decrement replacer_size_ if the node was evictable, erase it.
Remove(rep, f) ==
    [rep EXCEPT !.node[f] = NoNode,
                !.size = IF rep.node[f].evictable THEN @ - 1 ELSE @]

\* The two loops of Evict: among evictable nodes with fewer than K (then
\* exactly K) recorded accesses, the one whose front timestamp is oldest,
\* i.e. with the largest current_timestamp_ - get_front().
OldestFront(rep, C) == CHOOSE f \in C : \A g \in C : rep.node[f].hist[1] <= rep.node[g].hist[1]

Candidates(rep, full) ==
    {f \in Frames : /\ rep.node[f].present /\ rep.node[f].evictable
                    /\ IF full THEN Len(rep.node[f].hist) = K ELSE Len(rep.node[f].hist) < K}

\* Mutant: the loop over full histories runs before the one over short ones.
VictimFullFirst(rep) ==
    LET few  == Candidates(rep, FALSE)
        full == Candidates(rep, TRUE)
    IN  IF full # {} THEN OldestFront(rep, full)
        ELSE IF few # {} THEN OldestFront(rep, few)
        ELSE NoFrame

Victim(rep) ==
    LET few  == Candidates(rep, FALSE)
        full == Candidates(rep, TRUE)
    IN  IF few # {} THEN OldestFront(rep, few)
        ELSE IF full # {} THEN OldestFront(rep, full)
        ELSE NoFrame

\* Evict: erase the victim's node and decrement replacer_size_.
Evict(rep) ==
    LET v == Victim(rep)
    IN  IF v = NoFrame THEN rep
        ELSE [rep EXCEPT !.node[v] = NoNode, !.size = @ - 1]

=============================================================================

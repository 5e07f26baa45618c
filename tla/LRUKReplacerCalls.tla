-------------------------- MODULE LRUKReplacerCalls --------------------------
(***************************************************************************)
(* The LRU-K replacer on its own: any sequence of calls of its public      *)
(* methods, as the buffer pool makes them (SetEvictable and Remove only on *)
(* frames the replacer tracks).  A        *)
(* history variable `accesses` keeps every access timestamp of each node,  *)
(* against which Evict's choice is checked.                                *)
(***************************************************************************)
EXTENDS LRUKReplacer

CONSTANTS MaxTs   \* bound on current_timestamp_ (number of RecordAccess calls)

VARIABLES rep, accesses

vars == <<rep, accesses>>

Init == /\ rep = InitReplacer
        /\ accesses = [f \in Frames |-> <<>>]

RecordAccessCall(f) ==
    /\ rep.ts < MaxTs
    /\ rep' = RecordAccess(rep, f)
    /\ accesses' = [accesses EXCEPT ![f] = Append(@, rep.ts)]

SetEvictableCall(f, b) ==
    /\ rep.node[f].present
    /\ rep' = SetEvictable(rep, f, b)
    /\ UNCHANGED accesses

RemoveCall(f) ==
    /\ rep.node[f].present
    /\ rep' = Remove(rep, f)
    /\ accesses' = [accesses EXCEPT ![f] = <<>>]

EvictCall ==
    LET v == Victim(rep)
    IN  /\ rep' = Evict(rep)
        /\ accesses' = IF v = NoFrame THEN accesses
                       ELSE [accesses EXCEPT ![v] = <<>>]

Next == \/ \E f \in Frames : RecordAccessCall(f) \/ RemoveCall(f)
        \/ \E f \in Frames, b \in BOOLEAN : SetEvictableCall(f, b)
        \/ EvictCall

Spec == Init /\ [][Next]_vars

-----------------------------------------------------------------------------
TypeOK ==
    /\ rep \in [node : [Frames -> Node], ts : 0 .. MaxTs, size : Nat]
    /\ accesses \in [Frames -> Seq(0 .. MaxTs)]

\* Size() (replacer_size_) is the number of tracked evictable frames, after
\* any sequence of SetEvictable / Remove / Evict calls.
SizeCountsEvictable ==
    rep.size = Cardinality({f \in Frames : rep.node[f].present /\ rep.node[f].evictable})

\* Reference LRU-K (spec 4.1) over the full access history: among evictable
\* frames, those with fewer than K accesses (infinite backward K-distance)
\* go first, oldest first access first; otherwise the frame whose K-th most
\* recent access is oldest.  No evictable frame: no victim.
KthRecent(f) == accesses[f][Len(accesses[f]) - K + 1]

RefVictim ==
    LET E   == {f \in Frames : rep.node[f].present /\ rep.node[f].evictable}
        Inf == {f \in E : Len(accesses[f]) < K}
    IN  IF E = {} THEN NoFrame
        ELSE IF Inf # {} THEN CHOOSE f \in Inf : \A g \in Inf : accesses[f][1] <= accesses[g][1]
        ELSE CHOOSE f \in E : \A g \in E : KthRecent(f) <= KthRecent(g)

\* Evict, called in any reachable state, picks the reference victim.
EvictIsLRUK == Victim(rep) = RefVictim
=============================================================================

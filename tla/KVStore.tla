------------------------------ MODULE KVStore ------------------------------
(***************************************************************************)
(* What the extendible hash table promises: a set of (key, value) pairs   *)
(* shared by client threads, each operation taking effect at one instant   *)
(* between its call and its return.  Insert adds the pair (it may also     *)
(* fail, when the table cannot grow), Remove deletes it, GetValue returns  *)
(* the values stored under the key.                                        *)
(***************************************************************************)
CONSTANTS Clients, Keys, Vals, NoCall

VARIABLES contents, pending, result

Calls == [op : {"Insert", "Remove", "GetValue"}, key : Keys, val : Vals, done : BOOLEAN]

Init == /\ contents = {}
        /\ pending = [c \in Clients |-> NoCall]
        /\ result = [c \in Clients |-> {}]

Invoke(c, o) == /\ pending[c] = NoCall /\ o \in Calls /\ ~o.done
                /\ pending' = [pending EXCEPT ![c] = o]
                /\ UNCHANGED <<contents, result>>

Effect(o) == CASE o.op = "Insert" -> contents \cup {<<o.key, o.val>>}
               [] o.op = "Remove" -> contents \ {<<o.key, o.val>>}
               [] OTHER           -> contents

\* The call takes effect (once); it may return in the same instant.
Apply(c) == LET o == pending[c] IN
            /\ o # NoCall /\ ~o.done
            /\ contents' = Effect(o)
            /\ result' = IF o.op = "GetValue"
                         THEN [result EXCEPT ![c] = {v \in Vals : <<o.key, v>> \in contents}]
                         ELSE result
            /\ pending' \in {[pending EXCEPT ![c].done = TRUE], [pending EXCEPT ![c] = NoCall]}

\* The call returns (an Insert that could not grow the table returns
\* without taking effect).
Return(c) == /\ pending[c] # NoCall
             /\ pending' = [pending EXCEPT ![c] = NoCall]
             /\ UNCHANGED <<contents, result>>

Next == \E c \in Clients : Apply(c) \/ Return(c) \/ \E o \in Calls : Invoke(c, o)

Spec == Init /\ [][Next]_<<contents, pending, result>>
=============================================================================

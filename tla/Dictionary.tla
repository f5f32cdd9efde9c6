----------------------------- MODULE Dictionary -----------------------------
(***************************************************************************)
(* What FlatMap<OrderId, OrderEntry> promises the order book: a finite map *)
(* from keys to values with put (insert, overwriting) and remove (erase,   *)
(* a no-op for an absent key).  Missing marks an absent key.               *)
(***************************************************************************)
CONSTANTS Keys, Vals, Missing

ASSUME Missing \notin Vals

VARIABLE dict

Init == dict = [k \in Keys |-> Missing]

Put(k, v) == dict' = [dict EXCEPT ![k] = v]

Remove(k) == dict' = [dict EXCEPT ![k] = Missing]

Next == \E k \in Keys : Remove(k) \/ \E v \in Vals : Put(k, v)

Spec == Init /\ [][Next]_dict
=============================================================================

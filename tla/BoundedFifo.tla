------------------------------ MODULE BoundedFifo ------------------------------
(***************************************************************************)
(* What a single-producer/single-consumer ring promises (spec section 4.5):*)
(* a FIFO of at most Cap records; push fails when full, pop fails when     *)
(* empty, and the consumer observes the producer's records in program      *)
(* order. `out` is the history of records handed to the consumer.          *)
(***************************************************************************)
EXTENDS Naturals, Sequences

CONSTANTS Cap, Values

VARIABLES queue, out

Init == queue = <<>> /\ out = <<>>

Put(v) ==
  /\ Len(queue) < Cap
  /\ queue' = Append(queue, v)
  /\ UNCHANGED out

Take ==
  /\ queue # <<>>
  /\ queue' = Tail(queue)
  /\ out' = Append(out, Head(queue))

Next == (\E v \in Values : Put(v)) \/ Take

Spec == Init /\ [][Next]_<<queue, out>>

================================================================================

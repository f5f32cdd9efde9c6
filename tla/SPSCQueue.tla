------------------------------- MODULE SPSCQueue -------------------------------
(***************************************************************************)
(* SPSCQueue<T, N> (spsc_queue.h): a ring of N slots with an atomic head_  *)
(* written only by the consumer and an atomic tail_ written only by the    *)
(* producer. push() and pop() run on two threads, so each is split at its *)
(* shared-memory accesses: the check (own index relaxed, other index       *)
(* acquire), the slot access, and the release store of the own index.     *)
(* Acquire/release on the two indices orders the slot accesses as in a     *)
(* sequentially consistent execution, so the steps interleave atomically. *)
(* The producer pushes the records 1, 2, ..., MaxItems in that order; a    *)
(* slot never written holds 0 (the buffer is left uninitialised).          *)
(***************************************************************************)
EXTENDS Integers, Sequences

CONSTANTS N,         \* the template size, a power of two
          MaxItems   \* records the producer pushes in a behaviour

ASSUME N \in {2, 4, 8, 16} /\ MaxItems \in Nat

Idx == 0..(N - 1)
Items == 1..MaxItems

VARIABLES head,      \* head_
          tail,      \* tail_
          buffer,    \* buffer_
          pPc,       \* where push() is: "idle", "write", "publish"
          pTail,     \* push()'s current_tail
          cPc,       \* where pop() is: "idle", "read", "release"
          cHead,     \* pop()'s current_head
          item,      \* pop()'s out-parameter
          pushed,    \* records whose push() returned true
          received   \* records whose pop() returned true, in order

vars == <<head, tail, buffer, pPc, pTail, cPc, cHead, item, pushed, received>>

Mask(i) == i % N

Init ==
  /\ head = 0 /\ tail = 0
  /\ buffer = [i \in Idx |-> 0]
  /\ pPc = "idle" /\ pTail = 0
  /\ cPc = "idle" /\ cHead = 0 /\ item = 0
  /\ pushed = 0 /\ received = <<>>

\* Mutant: the full test is dropped, so all N slots are used.
PushCheckNoFull ==
  /\ pPc = "idle" /\ pushed < MaxItems
  /\ pPc' = "write" /\ pTail' = tail
  /\ UNCHANGED <<head, tail, buffer, cPc, cHead, item, pushed, received>>

\* push(): load tail_, compute next_tail, and return false when it meets
\* head_ (the caller spins and calls push() again).
PushCheck ==
  /\ pPc = "idle" /\ pushed < MaxItems
  /\ IF Mask(tail + 1) = head
     THEN UNCHANGED vars
     ELSE pPc' = "write" /\ pTail' = tail
          /\ UNCHANGED <<head, tail, buffer, cPc, cHead, item, pushed, received>>

\* buffer_[current_tail] = item
PushWrite ==
  /\ pPc = "write"
  /\ buffer' = [buffer EXCEPT ![pTail] = pushed + 1]
  /\ pPc' = "publish"
  /\ UNCHANGED <<head, tail, pTail, cPc, cHead, item, pushed, received>>

\* Mutant: current_tail is stored instead of next_tail.
PushPublishCurrentTail ==
  /\ pPc = "publish"
  /\ tail' = pTail
  /\ pPc' = "idle" /\ pushed' = pushed + 1
  /\ UNCHANGED <<head, buffer, pTail, cPc, cHead, item, received>>

\* tail_.store(next_tail, release); return true
PushPublish ==
  /\ pPc = "publish"
  /\ tail' = Mask(pTail + 1)
  /\ pPc' = "idle" /\ pushed' = pushed + 1
  /\ UNCHANGED <<head, buffer, pTail, cPc, cHead, item, received>>

\* Mutant: head_ is released as soon as the slot is found, before the read.
PopCheckEarlyRelease ==
  /\ cPc = "idle"
  /\ IF head = tail
     THEN UNCHANGED vars
     ELSE cPc' = "read" /\ cHead' = head /\ head' = Mask(head + 1)
          /\ UNCHANGED <<tail, buffer, pPc, pTail, item, pushed, received>>

\* pop(): load head_, and return false when it equals tail_ (acquire).
PopCheck ==
  /\ cPc = "idle"
  /\ IF head = tail
     THEN UNCHANGED vars
     ELSE cPc' = "read" /\ cHead' = head
          /\ UNCHANGED <<head, tail, buffer, pPc, pTail, item, pushed, received>>

\* item = buffer_[current_head]
PopRead ==
  /\ cPc = "read"
  /\ item' = buffer[cHead]
  /\ cPc' = "release"
  /\ UNCHANGED <<head, tail, buffer, pPc, pTail, cHead, pushed, received>>

\* Mutant: the new head is not masked.
PopReleaseNoMask ==
  /\ cPc = "release"
  /\ head' = cHead + 1
  /\ cPc' = "idle" /\ received' = Append(received, item)
  /\ UNCHANGED <<tail, buffer, pPc, pTail, cHead, item, pushed>>

\* head_.store((current_head + 1) & MASK, release); return true
PopRelease ==
  /\ cPc = "release"
  /\ head' = Mask(cHead + 1)
  /\ cPc' = "idle" /\ received' = Append(received, item)
  /\ UNCHANGED <<tail, buffer, pPc, pTail, cHead, item, pushed>>

Producer == PushCheck \/ PushWrite \/ PushPublish
Consumer == PopCheck \/ PopRead \/ PopRelease

Next == Producer \/ Consumer

\* Both threads spin on their calls: each step that is enabled forever is
\* taken (the threads run on their own cores and only yield).
Fairness == WF_vars(Producer) /\ WF_vars(Consumer)

Spec == Init /\ [][Next]_vars /\ Fairness

--------------------------------------------------------------------------------
TypeOK ==
  /\ head \in Idx /\ tail \in Idx /\ pTail \in Idx /\ cHead \in Idx
  /\ buffer \in [Idx -> 0..MaxItems] /\ item \in 0..MaxItems
  /\ pPc \in {"idle", "write", "publish"} /\ cPc \in {"idle", "read", "release"}
  /\ pushed \in 0..MaxItems /\ received \in Seq(Items)

\* The records between head_ and tail_: what size() counts and pop() returns.
Contents == [i \in 1..Mask(tail - head + N) |-> buffer[Mask(head + i - 1)]]

(***************************************************************************)
(* No data race on a slot: between its check and its index store, push()   *)
(* owns buffer_[current_tail] and pop() owns buffer_[current_head]; the    *)
(* two are never the same slot, so the consumer never reads a slot the     *)
(* producer is writing (spsc_queue.h push/pop).                            *)
(***************************************************************************)
NoSlotRace ==
  ~(pPc \in {"write", "publish"} /\ cPc \in {"read", "release"} /\ pTail = cHead)

(***************************************************************************)
(* The ring implements a bounded FIFO of capacity N - 1 (capacity()): a    *)
(* successful push appends at the tail_ store, a successful pop takes the  *)
(* head at the head_ store, and the consumer receives exactly the records  *)
(* pushed, in order, none lost, duplicated or torn.                        *)
(***************************************************************************)
\* capacity(): one slot stays free to tell a full ring from an empty one.
Capacity == N - 1

Fifo == INSTANCE BoundedFifo WITH Cap <- Capacity, Values <- Items,
                                  queue <- Contents, out <- received

Refinement == Fifo!Spec

(***************************************************************************)
(* Every record pushed is eventually popped: the consumer spinning on pop()*)
(* cannot miss a published tail_.                                          *)
(***************************************************************************)
AllDelivered == \A i \in Items : (pushed >= i) ~> (Len(received) >= i)

================================================================================

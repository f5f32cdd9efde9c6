------------------------------- MODULE FlatMap -------------------------------
(***************************************************************************)
(* The open-addressing id index of include/hyperliquid/flat_map.h: linear *)
(* probing over a power-of-two table, insert overwriting an existing key,  *)
(* erase by backward shift, and the doubling resize() that insert() runs  *)
(* when size_ >= 0.7 * capacity_.  The 64-bit mixer hash() is abstracted  *)
(* to its low bits per key (hash(k) & buf_mask only ever reads those),     *)
(* fixed in the initial state: either every assignment of home slots, or  *)
(* the values the mixer gives for concrete order ids.                     *)
(***************************************************************************)
EXTENDS Integers, FiniteSets

CONSTANTS
  Keys,            \* order ids
  Vals,            \* OrderEntry values
  EmptyKey,        \* the EmptyKey template parameter (0)
  InitialCapacity, \* the constructor's initial_capacity argument
  HashChoices      \* the low bits of hash(k) explored, as functions on Keys

ASSUME /\ EmptyKey \notin Keys
       /\ HashChoices \subseteq [Keys -> Nat]

VARIABLES
  entries,  \* entries_: slot -> [key, value], DOMAIN = 0..capacity_-1
  size,     \* size_
  capacity, \* capacity_
  hash      \* the low bits of hash(k), fixed by Init

vars == <<entries, size, capacity, hash>>

\* capacity_ of a table, and (idx + 1) & buf_mask in it.
CapOf(t) == Cardinality(DOMAIN t)
NextSlot(t, i) == (i + 1) % CapOf(t)

\* hash(key) & buf_mask: the key's home slot in table t.
Home(t, k) == hash[k] % CapOf(t)

\* The constructor: the smallest power of two >= initial_capacity, from 16.
RECURSIVE GrowCap(_)
GrowCap(c) == IF c < InitialCapacity THEN GrowCap(2 * c) ELSE c

\* resize()'s fresh vector of new_cap slots, every key EmptyKey (memset 0).
EmptyTable(cap) ==
  [i \in 0..(cap - 1) |-> [key |-> EmptyKey, value |-> CHOOSE v \in Vals : TRUE]]

(***************************************************************************)
(* find(): probe from the home slot until an empty slot; -1 for nullptr.   *)
(* The probe counter gives up after capacity_ probes.                     *)
(***************************************************************************)
RECURSIVE FindFrom(_, _, _, _)
FindFrom(t, k, idx, probes) ==
  IF t[idx].key = EmptyKey THEN -1
  ELSE IF t[idx].key = k THEN idx
  ELSE IF probes + 1 > CapOf(t) THEN -1
  ELSE FindFrom(t, k, NextSlot(t, idx), probes + 1)

Find(t, k) == IF k = EmptyKey THEN -1 ELSE FindFrom(t, k, Home(t, k), 0)

(***************************************************************************)
(* insert_internal(): probe from the home slot; overwrite the value of an *)
(* equal key, or claim the first empty slot and count it.                 *)
(***************************************************************************)
RECURSIVE InsertFrom(_, _, _, _)

InsertFrom(t, k, v, idx) ==
  IF t[idx].key = EmptyKey
  THEN [t |-> [t EXCEPT ![idx] = [key |-> k, value |-> v]], added |-> 1]
  ELSE IF t[idx].key = k
  THEN [t |-> [t EXCEPT ![idx].value = v], added |-> 0]
  ELSE InsertFrom(t, k, v, NextSlot(t, idx))

InsertInternal(t, k, v) == InsertFrom(t, k, v, Home(t, k))

(***************************************************************************)
(* resize(): move the old vector out, allocate new_cap empty slots, set   *)
(* size_ to 0 and insert_internal() every non-empty old slot in slot      *)
(* order, at its home slot of the new table.  The result's "added" is the *)
(* new size_.                                                              *)
(***************************************************************************)
RECURSIVE Rehash(_, _, _)

\* Mutant: the copy loop stops at the first empty old slot.
RehashToFirstEmpty(old, i, acc) ==
  IF i = CapOf(old) \/ old[i].key = EmptyKey THEN acc
  ELSE LET r == InsertInternal(acc.t, old[i].key, old[i].value)
       IN  Rehash(old, i + 1, [t |-> r.t, added |-> acc.added + r.added])

Rehash(old, i, acc) ==
  IF i = CapOf(old) THEN acc
  ELSE IF old[i].key = EmptyKey THEN Rehash(old, i + 1, acc)
  ELSE LET r == InsertInternal(acc.t, old[i].key, old[i].value)
       IN  Rehash(old, i + 1, [t |-> r.t, added |-> acc.added + r.added])

Resize(t, newCap) == Rehash(t, 0, [t |-> EmptyTable(newCap), added |-> 0])

(***************************************************************************)
(* The backward shift of erase(): idx is the hole, probe scans the rest of *)
(* the cluster.  An entry whose home slot d satisfies d <= idx or          *)
(* d > probe moves into the hole, which then moves to probe.  The code    *)
(* computes this same test in its wrapped (probe < idx) and unwrapped      *)
(* branches.  A moved-from slot only has its key cleared.                 *)
(***************************************************************************)
RECURSIVE ShiftBack(_, _, _)

\* Mutant: erase only clears the slot (no backward shift).
ShiftBackNone(t, idx, probe) == t

ShiftBack(t, idx, probe) ==
  IF t[probe].key = EmptyKey THEN t
  ELSE LET d == Home(t, t[probe].key)
           canMove == d <= idx \/ d > probe
       IN  IF canMove
           THEN ShiftBack([t EXCEPT ![idx] = t[probe], ![probe].key = EmptyKey],
                          probe, NextSlot(t, probe))
           ELSE ShiftBack(t, idx, NextSlot(t, probe))

\* erase(): probe for the key; clear its slot, count it, shift back.
RECURSIVE EraseFrom(_, _, _)
EraseFrom(t, k, idx) ==
  IF t[idx].key = EmptyKey THEN [t |-> t, removed |-> 0]
  ELSE IF t[idx].key = k
  THEN [t |-> ShiftBack([t EXCEPT ![idx].key = EmptyKey], idx, NextSlot(t, idx)),
        removed |-> 1]
  ELSE EraseFrom(t, k, NextSlot(t, idx))

Init ==
  /\ capacity = GrowCap(16)
  /\ entries = EmptyTable(capacity)
  /\ size = 0
  /\ hash \in HashChoices

\* insert() would resize first: size_ >= capacity_ * 0.7, exact in integers.
Full == 10 * size >= 7 * capacity

\* Mutant: resize() re-inserts the old entries without resetting size_.
InsertResizeNoReset(k, v) ==
  LET g == IF Full THEN Resize(entries, 2 * capacity) ELSE [t |-> entries, added |-> 0]
      r == InsertInternal(g.t, k, v)
  IN  /\ entries' = r.t
      /\ size' = size + g.added + r.added
      /\ capacity' = CapOf(r.t)
      /\ UNCHANGED hash

Insert(k, v) ==
  LET g == IF Full THEN Resize(entries, 2 * capacity) ELSE [t |-> entries, added |-> size]
      r == InsertInternal(g.t, k, v)
  IN  /\ entries' = r.t
      /\ size' = g.added + r.added
      /\ capacity' = CapOf(r.t)
      /\ UNCHANGED hash

\* Mutant: size_ is decremented even when the key was absent.
EraseAlwaysCount(k) ==
  LET r == EraseFrom(entries, k, Home(entries, k))
  IN  /\ entries' = r.t
      /\ size' = size - 1
      /\ UNCHANGED <<capacity, hash>>

Erase(k) ==
  LET r == EraseFrom(entries, k, Home(entries, k))
  IN  /\ entries' = r.t
      /\ size' = size - r.removed
      /\ UNCHANGED <<capacity, hash>>

Next == \E k \in Keys : Erase(k) \/ \E v \in Vals : Insert(k, v)

Spec == Init /\ [][Next]_vars

-----------------------------------------------------------------------------
TypeOK ==
  /\ capacity \in {GrowCap(16) * 2^i : i \in 0..4}
  /\ entries \in [0..(capacity - 1) -> [key : Keys \cup {EmptyKey}, value : Vals]]
  /\ size \in Nat
  /\ hash \in [Keys -> Nat]

\* The slots that hold a key.
Occupied == {i \in DOMAIN entries : entries[i].key # EmptyKey}

(***************************************************************************)
(* size_, which decides when insert() resizes, counts exactly the occupied *)
(* slots: resize() must reset it before re-inserting, insert_internal()   *)
(* must count only a claimed slot and erase() only a key it found.         *)
(***************************************************************************)
SizeCounts == size = Cardinality(Occupied)

(***************************************************************************)
(* Every stored key is found again by find() from its home slot: no erase *)
(* (backward shift) and no resize may move an entry out of reach of its   *)
(* probe chain.                                                           *)
(***************************************************************************)
EntriesReachable == \A i \in Occupied : Find(entries, entries[i].key) = i

\* The map seen through find(): the value of a key, or EmptyKey if absent.
Lookup(k) == LET i == Find(entries, k) IN IF i = -1 THEN EmptyKey ELSE entries[i].value

Abstract == INSTANCE Dictionary WITH dict <- [k \in Keys |-> Lookup(k)],
                                     Missing <- EmptyKey

(***************************************************************************)
(* FlatMap implements Dictionary: through find(), every insert is a put   *)
(* and every erase a remove, whatever the keys' home slots, across the    *)
(* resize.                                                                 *)
(***************************************************************************)
Refinement == Abstract!Spec
=============================================================================

----------------------------- MODULE MC_FlatMap -----------------------------
(***************************************************************************)
(* Two instances of the index.  Three model-value ids in the 16-slot     *)
(* table the constructor builds at least, with every home-slot            *)
(* assignment.  And the ids 1..13 the feed and the bridge hand out, at    *)
(* their real home slots: one more key than the 16-slot table takes       *)
(* before it doubles.                                                      *)
(***************************************************************************)
EXTENDS FlatMap, TLC

CONSTANTS k1, k2, k3, v1, v2, NoKey

MCKeys == {k1, k2, k3}
MCVals == {v1, v2}
OneVal == {v1}

KeySymmetry == Permutations(MCKeys)

AnyHash == [MCKeys -> 0..15]

\* Order ids 1..13.
Ids == 1..13

\* hash(id) & 8191 for ids 1..13, from the mixer of flat_map.h (xor-shift 33,
\* multiply 0xff51afd7ed558ccd, xor-shift 33, multiply 0xc4ceb9fe1a85ec53,
\* xor-shift 33) evaluated in 64-bit arithmetic.
MixerLowBits ==
  {[i \in Ids |-> << 2860, 999, 6350, 6261, 5493, 1395, 4573,
                     1671, 4565, 4877, 4804, 4149, 4421 >>[i]]}

(***************************************************************************)
(* The book as the index's client: submit_limit inserts the id of each    *)
(* order that rests, ids arriving in ascending order as the bridge's       *)
(* order_id++ and the generator issue them, while cancel and a fill erase *)
(* any id, present or not.                                                 *)
(***************************************************************************)
VARIABLE issued   \* the highest id inserted so far

ClientInit == Init /\ issued = 0

ClientNext ==
  \/ \E k \in Keys : Erase(k) /\ UNCHANGED issued
  \/ /\ issued + 1 \in Keys
     /\ \E v \in Vals : Insert(issued + 1, v)
     /\ issued' = issued + 1

ClientSpec == ClientInit /\ [][ClientNext]_<<vars, issued>>

\* Any sequence of inserts and erases of any key (issued is not used).
AnyOrderSpec == ClientInit /\ [][Next /\ UNCHANGED issued]_<<vars, issued>>
=============================================================================

---------------------------- MODULE MC_OrderBook ----------------------------
(***************************************************************************)
(* Model-checking instance of OrderBook: two users, a band of three ticks, *)
(* quantities 1..2 and up to four fresh order ids.  MaxSearch and         *)
(* MaxFokSteps keep the code's value 10000, wider than the band.          *)
(*                                                                         *)
(* OrderBook<PriceLevelsAVL> is the same model: its has_level is false for *)
(* a tick without a map entry as for an empty one, get_level creates the   *)
(* empty entry the array holds already, and is_valid_price accepts every   *)
(* tick between the sentinels, so with the ticks in use confined to a      *)
(* window the book behaves as a dense ladder over that window.  What the  *)
(* sparse ladder changes is that nothing bounds the window: levels may be  *)
(* farther apart than MAX_SEARCH.  The sparse run scales MAX_SEARCH down  *)
(* to 1 tick and keeps a 3-tick window, a gap of 2 standing for one of     *)
(* more than 10000.                                                        *)
(***************************************************************************)
EXTENDS OrderBook

CONSTANTS u1, u2

MCUsers == {u1, u2}

\* The users are interchangeable: no decision of the book orders them.
UserSymmetry == Permutations(MCUsers)

\* Quantities a Modify carries when zero is left out / allowed.
PositiveQtys == 1..2
QtysWithZero == 0..2

AllKinds == {"Limit", "Market", "Cancel", "Modify"}
NewWithStop == {"Limit", "Market", "Stop"}
LimitStop == {"Limit", "Stop"}
LimitCancel == {"Limit", "Cancel"}
LimitOnly == {"Limit"}
LimitModify == {"Limit", "Modify"}
LimitMarket == {"Limit", "Market"}

MatchTIFs == {"GTC", "IOC", "FOK"}
=============================================================================

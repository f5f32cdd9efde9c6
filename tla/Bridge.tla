--------------------------------- MODULE Bridge ---------------------------------
(***************************************************************************)
(* tools/engine_bridge.cpp: a single-threaded loop that reads one JSON     *)
(* line at a time and drives one OrderBook directly (user 1, GTC limit     *)
(* orders with fresh ids). Besides the book it keeps active_orders, the    *)
(* ids it believes rest (to pick cancels from), and the resting_orders    *)
(* statistic. A line is taken at its parsed meaning: the price after      *)
(* price * 100 is truncated to a tick, a positive quantity; lines that    *)
(* fail `price <= 0 || size <= 0`, "stats" lines and unknown commands     *)
(* change no state. The tick is drawn from the band: a price that         *)
(* truncates outside it makes submit_limit index past the ladder, which is *)
(* undefined behaviour and is listed as a hazard instead.                  *)
(*                                                                         *)
(* EngineStats keeps orders_processed, trades_executed and resting_orders *)
(* as uint64_t, kept here modulo StatModulus; the latency fields only feed *)
(* the output and are left out.  After every line that is not skipped     *)
(* (empty, or price/size <= 0) the loop prints a periodic stats line when *)
(* orders_processed - last_stats_output >= 100, in uint64_t arithmetic.   *)
(***************************************************************************)
EXTENDS OrderBook

CONSTANTS BridgeUser,   \* the user id every bridge order carries (1)
          StatModulus,  \* 2^64 for the uint64_t statistics; only the wrap matters
          StatsPeriod   \* the 100 orders between periodic stats lines

VARIABLES active,       \* the keys of active_orders
          restingStat,  \* stats.resting_orders
          processed,    \* stats.orders_processed
          tradeStat,    \* stats.trades_executed
          lastOut       \* last_stats_output

ASSUME /\ StatModulus \in Nat \ {0}
       /\ StatsPeriod \in 1..(StatModulus - 1)

bvars == <<active, restingStat, processed, tradeStat, lastOut>>
allVars == <<vars, bvars>>

BInit ==
  /\ Init
  /\ active = {} /\ restingStat = 0
  /\ processed = 0 /\ tradeStat = 0 /\ lastOut = 0

\* The uint64_t statistic's ++ and --.
Inc(n) == (n + 1) % StatModulus
Dec(n) == (n + StatModulus - 1) % StatModulus

\* Mutant: the gap is computed as a signed difference, without the wrap.
PeriodicSigned(n) ==
  lastOut' = IF n - lastOut >= StatsPeriod THEN n ELSE lastOut

\* The periodic block after a line, given orders_processed n after it: the
\* unsigned difference, and last_stats_output catching up when a line is printed.
Periodic(n) ==
  lastOut' = IF (n - lastOut) % StatModulus >= StatsPeriod THEN n ELSE lastOut

\* cmd "order": submit_limit (the trade callback counting each trade), count
\* the order, remember the id if something rested; then the periodic block.
BridgeOrder(s, t, q) ==
  /\ NewLimit(s, t, q, BridgeUser, "GTC", FALSE)
  /\ tradeStat' = (tradeStat + Len(trades')) % StatModulus
  /\ processed' = Inc(processed)
  /\ IF result'.remaining > 0
     THEN active' = active \cup {nextId} /\ restingStat' = Inc(restingStat)
     ELSE UNCHANGED <<active, restingStat>>
  /\ Periodic(Inc(processed))

\* cmd "cancel": cancel the first key of active_orders (any one: the map is
\* unordered) and forget it, whatever cancel() returned.
BridgeCancel ==
  /\ active # {}
  /\ \E id \in active :
       /\ Cancel(id)
       /\ active' = active \ {id}
  /\ restingStat' = Dec(restingStat)
  /\ UNCHANGED <<processed, tradeStat>>
  /\ Periodic(processed)

\* EngineStats::reset() on the counters kept here.
StatsReset == restingStat' = 0 /\ processed' = 0 /\ tradeStat' = 0

\* Mutant: reset zeroes the statistics but keeps active_orders.
BridgeResetKeepsActive ==
  /\ StatsReset
  /\ UNCHANGED <<vars, active>>
  /\ Periodic(0)

\* cmd "reset": stats.reset() and active_orders.clear(), the book kept; then
\* the periodic block, with orders_processed back at 0 but last_stats_output not.
BridgeReset ==
  /\ StatsReset /\ active' = {}
  /\ UNCHANGED vars
  /\ Periodic(0)

BNext ==
  \/ \E s \in Sides, t \in Prices, q \in 1..MaxQty : BridgeOrder(s, t, q)
  \/ BridgeCancel
  \/ BridgeReset

BSpec == BInit /\ [][BNext]_allVars

--------------------------------------------------------------------------------
(***************************************************************************)
(* The resting_orders statistic equals the number of ids in active_orders: *)
(* the cancel branch decrements it only when the map is non-empty, so the  *)
(* uint64_t never wraps below zero, across any mix of orders, cancels and  *)
(* resets (engine_bridge.cpp cancel and reset branches).                   *)
(***************************************************************************)
NoCounterWrap == restingStat = Cardinality(active)

(***************************************************************************)
(* last_stats_output never runs ahead of orders_processed.  reset()       *)
(* zeroes orders_processed but keeps last_stats_output; only because the   *)
(* periodic test subtracts in uint64_t does 0 - last_stats_output wrap to  *)
(* a huge value, print the line and bring last_stats_output back to 0.    *)
(* Were the gap computed signed, it would stay negative after a reset and *)
(* the periodic line would stop until the count caught up with the old    *)
(* value (the periodic block of the main loop, after the reset branch).   *)
(***************************************************************************)
LastOutNotAhead == lastOut <= processed

================================================================================

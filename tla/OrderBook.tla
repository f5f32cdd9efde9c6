------------------------------ MODULE OrderBook ------------------------------
(***************************************************************************)
(* The single-symbol order book of include/hyperliquid/order_book.h with  *)
(* the dense PriceLevelsArray ladder (price_levels_array.h) and the        *)
(* intrusive LevelFIFO (order.h).  Every command is one atomic step, as   *)
(* the engine thread runs each OrderBook call to completion before it     *)
(* pops the next command (matching_engine.cpp).                           *)
(*                                                                         *)
(* Abstractions: an OrderNode is a record [id, user, qty, stp]; its       *)
(* prev/next links are the position in the level sequence; the FlatMap    *)
(* id index is a function from order id to [side, price] (FlatMap itself  *)
(* is modelled in FlatMap.tla); the node handle is the id, as order ids   *)
(* are unique; the int64 sentinels EMPTY_BID/EMPTY_ASK are the ticks just  *)
(* outside the band, which order every comparison the code makes the same *)
(* way.  Timestamps are left out: no decision of the book depends on one. *)
(*                                                                         *)
(* The book's SlabPool (order_pool_) is composed in as its counters: the  *)
(* nodes in use and the capacity.  SlabPool.tla shows that the free list   *)
(* holds exactly the nodes not in use, so alloc() finds it empty exactly  *)
(* when in_use_ = capacity_, and then adds a slab.                        *)
(***************************************************************************)
EXTENDS Integers, Sequences, FiniteSets, SequencesExt, TLC

CONSTANTS
  Users,       \* user identifiers (model values)
  MinTick,     \* PriceBand.min_tick
  MaxTick,     \* PriceBand.max_tick
  MaxQty,      \* largest quantity a new order carries
  MaxOrders,   \* number of fresh order ids the feed hands out
  MaxSearch,   \* MAX_SEARCH of refresh_best_after_depletion (10000)
  MaxFokSteps, \* MAX_STEPS of check_fok_liquidity (10000)
  Kinds,       \* commands the feed sends: subset of CommandKinds
  TIFs,        \* time-in-force values new limit orders carry
  StpFlags,    \* values of the STP flag bit new orders carry
  ModifyQtys,  \* quantities a Modify command carries
  SlabObjects  \* SLAB_SIZE / sizeof(OrderNode): nodes one slab adds

\* "Stop": a NewOrder whose order_type is StopLimit or StopMarket.
CommandKinds == {"Limit", "Market", "Stop", "Cancel", "Modify"}

ASSUME /\ MinTick <= MaxTick
       /\ MaxQty \in Nat \ {0} /\ MaxOrders \in Nat \ {0}
       /\ MaxSearch \in Nat \ {0} /\ MaxFokSteps \in Nat \ {0}
       /\ Kinds \subseteq CommandKinds
       /\ TIFs \subseteq {"GTC", "IOC", "FOK", "GTD"}
       /\ StpFlags \subseteq BOOLEAN
       /\ ModifyQtys \subseteq Nat
       /\ SlabObjects \in Nat \ {0}

Sides == {"Bid", "Ask"}
Prices == MinTick..MaxTick
OrderIds == 1..MaxOrders
Width == MaxTick - MinTick + 1

\* PriceLevelsArray::is_valid_price / has_level of ladder lv
IsValidPrice(px) == px \in Prices
HasLevel(lv, px) == lv[px] # <<>>

\* Sentinel::EMPTY_BID / EMPTY_ASK
Empty(s) == IF s = "Bid" THEN MinTick - 1 ELSE MaxTick + 1
Other(s) == IF s = "Bid" THEN "Ask" ELSE "Bid"

\* p is a more aggressive resting price than q on side s
Better(s, p, q) == IF s = "Bid" THEN p > q ELSE p < q

\* A level at price bp of book side s trades with a taker limited at lim
Crosses(s, bp, lim) == IF s = "Bid" THEN bp >= lim ELSE bp <= lim

\* order_pool_(2): the book's pool starts with two slabs.
PoolInitialSlabs == 2

Node == [id : OrderIds, user : Users, qty : 0..MaxQty, stp : BOOLEAN]
Entry == [side : Sides, price : Prices]

VARIABLES
  levels,   \* levels[s][p]: the LevelFIFO at tick p of ladder s, head first
  total,    \* total[s][p]: LevelFIFO::total_qty
  best,     \* best[s]: the cached best_bid_ / best_ask_ of ladder s
  index,    \* id_index_: order id -> OrderEntry{side, price}
  pool,     \* order_pool_: [inUse |-> in_use_, capacity |-> capacity_]
  nextId,   \* next fresh order id the feed assigns
  lastCmd,  \* the command the last step executed (history)
  trades,   \* TradeEvents emitted by the last command, in order
  result,   \* ExecResult of the last command
  updates   \* number of BookUpdates emitted by the last command

book == <<levels, total, best, index, pool>>
vars == <<levels, total, best, index, pool, nextId, lastCmd, trades, result, updates>>

\* The book as one record, so that Modify can compose cancel and submit.
State == [levels |-> levels, total |-> total, best |-> best, index |-> index,
          pool |-> pool]

SeqQty(ns) == FoldLeft(LAMBDA acc, n : acc + n.qty, 0, ns)

IdsIn(ns) == {ns[i].id : i \in DOMAIN ns}

EraseIds(idx, ids) == [i \in DOMAIN idx \ ids |-> idx[i]]

\* alloc_node(): SlabPool::alloc, adding a slab when the free list is empty.
PoolAlloc(p) ==
  [inUse |-> p.inUse + 1,
   capacity |-> IF p.inUse = p.capacity THEN p.capacity + SlabObjects ELSE p.capacity]

\* free_node() of n nodes: every node came from alloc_node (alloc_kind 1),
\* so each goes back to the pool.
PoolFree(p, n) == [p EXCEPT !.inUse = @ - n]

-----------------------------------------------------------------------------
(***************************************************************************)
(* refresh_best_after_depletion: scan away from the cached best, at most  *)
(* MaxSearch ticks and never past the band, for a non-empty level; the    *)
(* side becomes empty when none is found.  The scan starts one tick past  *)
(* the cached best: it assumes the best level is the one that emptied.    *)
(***************************************************************************)
RefreshBest(s, lv, cur) ==
  LET px(i) == IF s = "Bid" THEN cur - i ELSE cur + i
      span == IF MaxSearch < Width THEN MaxSearch ELSE Width
      found == {i \in 1..span : IsValidPrice(px(i)) /\ HasLevel(lv, px(i))}
  IN  IF cur = Empty(s) THEN cur
      ELSE IF found = {} THEN Empty(s)
      ELSE px(Min(found))

(***************************************************************************)
(* The inner walk of match_against_side over one level, head to tail,     *)
(* while the taker has quantity left: a maker of the taker's own user is  *)
(* skipped under STP; otherwise min(qty, maker.qty) trades, a fully       *)
(* filled maker is erased and a partly filled one reduced in place.       *)
(***************************************************************************)
RECURSIVE Walk(_, _, _, _)

\* Mutant: the traded quantity is the maker's whole quantity (std::min dropped).
WalkNoMin(ns, q, u, stp) ==
  IF ns = <<>> \/ q = 0 THEN [rest |-> ns, left |-> q, fills |-> <<>>]
  ELSE
    LET m == Head(ns)
    IN  IF stp /\ m.user = u
        THEN LET w == Walk(Tail(ns), q, u, stp) IN [w EXCEPT !.rest = <<m>> \o @]
        ELSE LET w == Walk(Tail(ns), q - m.qty, u, stp)
             IN  [rest |-> w.rest, left |-> w.left,
                  fills |-> <<[maker |-> m.id, qty |-> m.qty, full |-> TRUE]>> \o w.fills]

\* Mutant: a maker counts as fully filled only when match_qty > maker->qty.
WalkStrictFull(ns, q, u, stp) ==
  IF ns = <<>> \/ q = 0 THEN [rest |-> ns, left |-> q, fills |-> <<>>]
  ELSE
    LET m == Head(ns)
    IN  IF stp /\ m.user = u
        THEN LET w == Walk(Tail(ns), q, u, stp) IN [w EXCEPT !.rest = <<m>> \o @]
        ELSE LET x == IF q < m.qty THEN q ELSE m.qty
                 w == Walk(Tail(ns), q - x, u, stp)
                 kept == IF x > m.qty THEN <<>> ELSE <<[m EXCEPT !.qty = @ - x]>>
             IN  [rest |-> kept \o w.rest, left |-> w.left,
                  fills |-> <<[maker |-> m.id, qty |-> x, full |-> x > m.qty]>> \o w.fills]

Walk(ns, q, u, stp) ==
  IF ns = <<>> \/ q = 0 THEN [rest |-> ns, left |-> q, fills |-> <<>>]
  ELSE
    LET m == Head(ns)
    IN  IF stp /\ m.user = u
        THEN LET w == Walk(Tail(ns), q, u, stp)
             IN  [w EXCEPT !.rest = <<m>> \o @]
        ELSE LET x == IF q < m.qty THEN q ELSE m.qty
                 w == Walk(Tail(ns), q - x, u, stp)
                 kept == IF x >= m.qty THEN <<>>
                         ELSE <<[m EXCEPT !.qty = @ - x]>>
             IN  [rest |-> kept \o w.rest, left |-> w.left,
                  fills |-> <<[maker |-> m.id, qty |-> x, full |-> x >= m.qty]>>
                            \o w.fills]

(***************************************************************************)
(* The outer loop of match_against_side against ladder s: stop when the  *)
(* taker is done, the side is empty or does not cross the limit; match    *)
(* the best level; refresh the best and go on when the level emptied,     *)
(* stop otherwise (also when STP left only the taker's own orders).       *)
(***************************************************************************)
RECURSIVE Match(_, _, _, _, _, _)

\* Mutant: a fully filled maker is not erased from id_index_.
MatchNoIndexErase(s, st, q, lim, u, stp) ==
  LET p == st.best[s] IN
  IF q = 0 \/ p = Empty(s) \/ st.levels[s][p] = <<>> \/ ~Crosses(s, p, lim)
  THEN [st |-> st, left |-> q, fills |-> <<>>]
  ELSE
    LET w == Walk(st.levels[s][p], q, u, stp)
        lv == [st.levels[s] EXCEPT ![p] = w.rest]
        full == {i \in DOMAIN w.fills : w.fills[i].full}
        st2 == [st EXCEPT !.levels[s] = lv, !.total[s][p] = @ - SeqQty(w.fills),
                          !.pool = PoolFree(@, Cardinality(full))]
        priced == [i \in DOMAIN w.fills |->
                     [maker |-> w.fills[i].maker, qty |-> w.fills[i].qty, price |-> p]]
    IN  IF w.rest = <<>>
        THEN LET r == Match(s, [st2 EXCEPT !.best[s] = RefreshBest(s, lv, p)],
                            w.left, lim, u, stp)
             IN  [r EXCEPT !.fills = priced \o @]
        ELSE [st |-> st2, left |-> w.left, fills |-> priced]

\* Mutant: the loop stops after the first level even when it emptied.
MatchOneLevel(s, st, q, lim, u, stp) ==
  LET p == st.best[s] IN
  IF q = 0 \/ p = Empty(s) \/ st.levels[s][p] = <<>> \/ ~Crosses(s, p, lim)
  THEN [st |-> st, left |-> q, fills |-> <<>>]
  ELSE
    LET w == Walk(st.levels[s][p], q, u, stp)
        done == {w.fills[i].maker : i \in {i \in DOMAIN w.fills : w.fills[i].full}}
        lv == [st.levels[s] EXCEPT ![p] = w.rest]
        st2 == [st EXCEPT !.levels[s] = lv,
                          !.total[s][p] = @ - SeqQty(w.fills),
                          !.index = EraseIds(@, done),
                          !.pool = PoolFree(@, Cardinality(done)),
                          !.best[s] = IF w.rest = <<>> THEN RefreshBest(s, lv, p) ELSE @]
    IN  [st |-> st2, left |-> w.left,
         fills |-> [i \in DOMAIN w.fills |->
                     [maker |-> w.fills[i].maker, qty |-> w.fills[i].qty, price |-> p]]]

Match(s, st, q, lim, u, stp) ==
  LET p == st.best[s] IN
  IF q = 0 \/ p = Empty(s) \/ st.levels[s][p] = <<>> \/ ~Crosses(s, p, lim)
  THEN [st |-> st, left |-> q, fills |-> <<>>]
  ELSE
    LET w == Walk(st.levels[s][p], q, u, stp)
        done == {w.fills[i].maker : i \in {i \in DOMAIN w.fills : w.fills[i].full}}
        lv == [st.levels[s] EXCEPT ![p] = w.rest]
        st2 == [st EXCEPT !.levels[s] = lv,
                          !.total[s][p] = @ - SeqQty(w.fills),
                          !.index = EraseIds(@, done),
                          !.pool = PoolFree(@, Cardinality(done))]
        priced == [i \in DOMAIN w.fills |->
                     [maker |-> w.fills[i].maker, qty |-> w.fills[i].qty, price |-> p]]
    IN  IF w.rest = <<>>
        THEN LET r == Match(s, [st2 EXCEPT !.best[s] = RefreshBest(s, lv, p)],
                            w.left, lim, u, stp)
             IN  [r EXCEPT !.fills = priced \o @]
        ELSE [st |-> st2, left |-> w.left, fills |-> priced]

\* The fills of Match as TradeEvents of taker tid.
Trades(tid, fills) ==
  [i \in DOMAIN fills |-> [taker |-> tid, maker |-> fills[i].maker,
                           price |-> fills[i].price, qty |-> fills[i].qty]]

(***************************************************************************)
(* check_fok_liquidity: from the opposite best, sum total_qty of the      *)
(* non-empty levels that cross the limit, at most MaxFokSteps ticks.  The *)
(* code stops early once the sum reaches qty; that does not change the    *)
(* verdict available >= qty.                                              *)
(***************************************************************************)
\* Mutant: the walk does not stop at levels beyond the limit.
FokNoLimit(st, s, q, lim) ==
  LET o == Other(s)
      b == st.best[o]
      px(i) == IF o = "Ask" THEN b + i ELSE b - i
      window == {px(i) : i \in 0..(IF MaxFokSteps < Width THEN MaxFokSteps ELSE Width) - 1}
      counted == {x \in window : IsValidPrice(x) /\ HasLevel(st.levels[o], x)}
  IN  /\ b # Empty(o)
      /\ Crosses(o, b, lim)
      /\ MapThenSumSet(LAMBDA x : st.total[o][x], counted) >= q

\* Mutant: the walk stops one step before MAX_STEPS.
FokShortWindow(st, s, q, lim) ==
  LET o == Other(s)
      b == st.best[o]
      px(i) == IF o = "Ask" THEN b + i ELSE b - i
      window == {px(i) : i \in 0..(IF MaxFokSteps < Width THEN MaxFokSteps ELSE Width) - 2}
      counted == {x \in window : IsValidPrice(x) /\ Crosses(o, x, lim)
                                 /\ HasLevel(st.levels[o], x)}
  IN  /\ b # Empty(o)
      /\ Crosses(o, b, lim)
      /\ MapThenSumSet(LAMBDA x : st.total[o][x], counted) >= q

FokLiquidity(st, s, q, lim) ==
  LET o == Other(s)
      b == st.best[o]
      px(i) == IF o = "Ask" THEN b + i ELSE b - i
      window == {px(i) : i \in 0..(IF MaxFokSteps < Width THEN MaxFokSteps ELSE Width) - 1}
      counted == {x \in window : IsValidPrice(x) /\ Crosses(o, x, lim)
                                 /\ HasLevel(st.levels[o], x)}
  IN  /\ b # Empty(o)
      /\ Crosses(o, b, lim)
      /\ MapThenSumSet(LAMBDA x : st.total[o][x], counted) >= q

-----------------------------------------------------------------------------
(***************************************************************************)
(* submit_limit_side: FOK precheck, matching, then the residual is        *)
(* discarded (IOC, FOK) or rests at the tail of its level (GTC, GTD), the *)
(* cached best is moved when the new price is better, and the id is      *)
(* indexed.  One BookUpdate at the end.                                   *)
(***************************************************************************)
\* Faulty variants of SubmitLimit, one per bug tag, for the mutants below.
SubmitLimitBug(st, s, p, q, u, tif, stp, id, bug) ==
  IF tif = "FOK" /\ ~FokLiquidity(st, s, q, p)
  THEN [st |-> st, trades |-> <<>>, filled |-> 0, remaining |-> 0]
  ELSE
    LET m == Match(Other(s), st, q, p, u, stp)
        rq == IF bug = "restsQty" THEN q ELSE m.left
        nd == [id |-> id, user |-> u, qty |-> rq, stp |-> stp]
    IN  IF m.left = 0 \/ tif \in {"IOC", "FOK"}
        THEN [st |-> m.st, trades |-> Trades(id, m.fills), filled |-> q - m.left,
              remaining |-> 0]
        ELSE [st |-> [m.st EXCEPT
                 !.levels[s][p] = IF bug = "atHead" THEN <<nd>> \o @ ELSE Append(@, nd),
                 !.total[s][p] = @ + rq,
                 !.best[s] = IF bug = "swappedBest"
                             THEN (IF Better(s, @, p) THEN p ELSE @)
                             ELSE (IF Better(s, p, @) THEN p ELSE @),
                 !.index = @ @@ (id :> [side |-> s, price |-> p]),
                 !.pool = PoolAlloc(@)],
              trades |-> Trades(id, m.fills), filled |-> q - m.left,
              remaining |-> m.left]

\* Mutant: the node rests with the command's quantity, not the residual.
SubmitLimitRestsQty(st, s, p, q, u, tif, stp, id) ==
  SubmitLimitBug(st, s, p, q, u, tif, stp, id, "restsQty")

\* Mutant: the new node is linked at the head of its level.
SubmitLimitAtHead(st, s, p, q, u, tif, stp, id) ==
  SubmitLimitBug(st, s, p, q, u, tif, stp, id, "atHead")

\* Mutant: the best-price comparison is inverted.
SubmitLimitSwappedBest(st, s, p, q, u, tif, stp, id) ==
  SubmitLimitBug(st, s, p, q, u, tif, stp, id, "swappedBest")

SubmitLimit(st, s, p, q, u, tif, stp, id) ==
  IF tif = "FOK" /\ ~FokLiquidity(st, s, q, p)
  THEN [st |-> st, trades |-> <<>>, filled |-> 0, remaining |-> 0]
  ELSE
    LET m == Match(Other(s), st, q, p, u, stp)
        filled == q - m.left
        tr == Trades(id, m.fills)
    IN  IF m.left = 0 \/ tif \in {"IOC", "FOK"}
        THEN [st |-> m.st, trades |-> tr, filled |-> filled,
              remaining |-> 0]
        ELSE [st |-> [m.st EXCEPT
                 !.levels[s][p] = Append(@, [id |-> id, user |-> u,
                                             qty |-> m.left, stp |-> stp]),
                 !.total[s][p] = @ + m.left,
                 !.best[s] = IF Better(s, p, @) THEN p ELSE @,
                 !.index = @ @@ (id :> [side |-> s, price |-> p]),
                 !.pool = PoolAlloc(@)],
              trades |-> tr, filled |-> filled, remaining |-> m.left]

\* submit_market: match with the opposite sentinel as limit; never rests.
SubmitMarket(st, s, q, u, stp, id) ==
  LET m == Match(Other(s), st, q, Empty(Other(s)), u, stp)
  IN  [st |-> m.st, trades |-> Trades(id, m.fills), filled |-> q - m.left,
       remaining |-> m.left]

\* The node of a resting, indexed order.
NodeOf(st, id) ==
  LET e == st.index[id]
      ns == st.levels[e.side][e.price]
  IN  ns[CHOOSE i \in DOMAIN ns : ns[i].id = id]

(***************************************************************************)
(* cancel of an indexed id: erase the node from its level, refresh the    *)
(* best of its side if the level emptied (whatever level it was), erase   *)
(* the index entry.                                                        *)
(***************************************************************************)
\* Mutant: cancel unlinks the node without adjusting total_qty.
CancelNoTotal(st, id) ==
  LET e == st.index[id]
      lv == [st.levels[e.side] EXCEPT ![e.price] = SelectSeq(@, LAMBDA n : n.id # id)]
  IN  [st EXCEPT !.levels[e.side] = lv,
                 !.best[e.side] = IF lv[e.price] = <<>> THEN RefreshBest(e.side, lv, @) ELSE @,
                 !.index = EraseIds(@, {id}),
                 !.pool = PoolFree(@, 1)]

\* Mutant: cancel unlinks the node and never calls free_node().
CancelNoFree(st, id) ==
  LET e == st.index[id]
      lv == [st.levels[e.side] EXCEPT ![e.price] = SelectSeq(@, LAMBDA n : n.id # id)]
  IN  [st EXCEPT !.levels[e.side] = lv,
                 !.total[e.side][e.price] = @ - NodeOf(st, id).qty,
                 !.best[e.side] = IF lv[e.price] = <<>> THEN RefreshBest(e.side, lv, @) ELSE @,
                 !.index = EraseIds(@, {id})]

CancelFound(st, id) ==
  LET e == st.index[id]
      lv == [st.levels[e.side] EXCEPT
               ![e.price] = SelectSeq(@, LAMBDA n : n.id # id)]
  IN  [st EXCEPT !.levels[e.side] = lv,
                 !.total[e.side][e.price] = @ - NodeOf(st, id).qty,
                 !.best[e.side] = IF lv[e.price] = <<>>
                                  THEN RefreshBest(e.side, lv, @) ELSE @,
                 !.index = EraseIds(@, {id}),
                 !.pool = PoolFree(@, 1)]

-----------------------------------------------------------------------------
\* The history record of a command; side/user/stp are the taker's.
Cmd(k, id, s, p, q, u, tif, stp) ==
  [kind |-> k, id |-> id, side |-> s, price |-> p, qty |-> q, user |-> u,
   tif |-> tif, stp |-> stp]

NoCmd == Cmd("None", 0, "Bid", MinTick, 0, "none", "GTC", FALSE)

Init ==
  /\ levels = [s \in Sides |-> [p \in Prices |-> <<>>]]
  /\ total = [s \in Sides |-> [p \in Prices |-> 0]]
  /\ best = [s \in Sides |-> Empty(s)]
  /\ index = <<>>
  /\ pool = [inUse |-> 0, capacity |-> PoolInitialSlabs * SlabObjects]
  /\ nextId = 1
  /\ lastCmd = NoCmd
  /\ trades = <<>>
  /\ result = [filled |-> 0, remaining |-> 0]
  /\ updates = 0

\* Install the outcome r of a command.
Apply(r, nUpdates) ==
  /\ levels' = r.st.levels
  /\ total' = r.st.total
  /\ best' = r.st.best
  /\ index' = r.st.index
  /\ pool' = r.st.pool
  /\ trades' = r.trades
  /\ result' = [filled |-> r.filled, remaining |-> r.remaining]
  /\ updates' = nUpdates

\* MatchingEngine::run, NewOrder with order_type Limit
NewLimit(s, p, q, u, tif, stp) ==
  /\ "Limit" \in Kinds
  /\ nextId <= MaxOrders
  /\ Apply(SubmitLimit(State, s, p, q, u, tif, stp, nextId), 1)
  /\ lastCmd' = Cmd("Limit", nextId, s, p, q, u, tif, stp)
  /\ nextId' = nextId + 1

\* MatchingEngine::run, NewOrder of any other order_type
NewMarket(s, q, u, stp) ==
  /\ "Market" \in Kinds
  /\ nextId <= MaxOrders
  /\ Apply(SubmitMarket(State, s, q, u, stp, nextId), 1)
  /\ lastCmd' = Cmd("Market", nextId, s, Empty(Other(s)), q, u, "IOC", stp)
  /\ nextId' = nextId + 1

\* MatchingEngine::run hands every order_type other than Limit to
\* submit_market: a stop order with limit price p (StopLimit) executes at
\* once, at any price, whatever its stop trigger.
NewStop(s, p, q, u, stp) ==
  /\ "Stop" \in Kinds
  /\ nextId <= MaxOrders
  /\ Apply(SubmitMarket(State, s, q, u, stp, nextId), 1)
  /\ lastCmd' = Cmd("Stop", nextId, s, p, q, u, "GTC", stp)
  /\ nextId' = nextId + 1

\* OrderBook::cancel; an unknown id returns false with no BookUpdate
Cancel(id) ==
  /\ "Cancel" \in Kinds
  /\ IF id \in DOMAIN index
     THEN Apply([st |-> CancelFound(State, id), trades |-> <<>>,
                 filled |-> 0, remaining |-> 0], 1)
     ELSE Apply([st |-> State, trades |-> <<>>,
                 filled |-> 0, remaining |-> 0], 0)
  /\ lastCmd' = [NoCmd EXCEPT !.kind = "Cancel", !.id = id]
  /\ UNCHANGED nextId

(***************************************************************************)
(* OrderBook::modify: unknown id returns {0,0}; same price and smaller    *)
(* quantity shrinks the node in place (reduce_qty); otherwise cancel(id)  *)
(* (one BookUpdate) and submit_limit of a GTC order with the same id,     *)
(* user, flags and side (a second BookUpdate).                            *)
(***************************************************************************)
Modify(id, np, nq) ==
  /\ "Modify" \in Kinds
  /\ IF id \notin DOMAIN index
     THEN /\ Apply([st |-> State, trades |-> <<>>,
                    filled |-> 0, remaining |-> 0], 0)
          /\ lastCmd' = [NoCmd EXCEPT !.kind = "Modify", !.id = id,
                                      !.price = np, !.qty = nq]
     ELSE
       LET e == index[id]
           n == NodeOf(State, id)
       IN  /\ IF np = e.price /\ nq < n.qty
              THEN Apply([st |-> [State EXCEPT
                            !.levels[e.side][e.price] =
                               [i \in DOMAIN @ |-> IF @[i].id = id
                                  THEN [@[i] EXCEPT !.qty = nq] ELSE @[i]],
                            !.total[e.side][e.price] = @ - (n.qty - nq)],
                          trades |-> <<>>, filled |-> 0, remaining |-> nq], 1)
              ELSE Apply(SubmitLimit(CancelFound(State, id), e.side, np, nq,
                                     n.user, "GTC", n.stp, id), 2)
           /\ lastCmd' = Cmd("Modify", id, e.side, np, nq, n.user, "GTC", n.stp)
  /\ UNCHANGED nextId

Next ==
  \/ \E s \in Sides, p \in Prices, q \in 1..MaxQty, u \in Users,
        tif \in TIFs, stp \in StpFlags : NewLimit(s, p, q, u, tif, stp)
  \/ \E s \in Sides, q \in 1..MaxQty, u \in Users, stp \in StpFlags :
        NewMarket(s, q, u, stp)
  \/ \E s \in Sides, p \in Prices, q \in 1..MaxQty, u \in Users, stp \in StpFlags :
        NewStop(s, p, q, u, stp)
  \/ \E id \in 1..(nextId - 1) : Cancel(id)
  \/ \E id \in 1..(nextId - 1), np \in Prices, nq \in ModifyQtys :
        Modify(id, np, nq)

Spec == Init /\ [][Next]_vars

-----------------------------------------------------------------------------
(***************************************************************************)
(* Properties.                                                             *)
(***************************************************************************)

\* Every queue position of the book: <<side, price, position in the FIFO>>.
Slots == UNION {{<<s, p, i>> : i \in DOMAIN levels[s][p]} : s \in Sides, p \in Prices}
At(x) == levels[x[1]][x[2]][x[3]]
RestingIds == {At(x).id : x \in Slots}
RestingQty == MapThenSumSet(LAMBDA x : At(x).qty, Slots)
TradedQty(tr) == FoldLeft(LAMBDA acc, t : acc + t.qty, 0, tr)

TypeOK ==
  /\ levels \in [Sides -> [Prices -> Seq(Node)]]
  /\ total \in [Sides -> [Prices -> Int]]
  /\ best \in [Sides -> (MinTick - 1)..(MaxTick + 1)]
  /\ DOMAIN index \subseteq OrderIds
  /\ \A i \in DOMAIN index : index[i] \in Entry
  /\ pool \in [inUse : Nat, capacity : Nat]
  /\ nextId \in 1..(MaxOrders + 1)
  /\ updates \in 0..2

(***************************************************************************)
(* Spec invariant 1: every id_index_ entry names exactly one live node, at *)
(* the side and price it records, and every node of a ladder is indexed.   *)
(* The index is written by submit_limit_side and erased by cancel and by   *)
(* match_against_side on a full fill, in separate places of the code.     *)
(***************************************************************************)
IndexConsistent ==
  /\ \A x \in Slots : /\ At(x).id \in DOMAIN index
                      /\ index[At(x).id] = [side |-> x[1], price |-> x[2]]
  /\ \A id \in DOMAIN index : Cardinality({x \in Slots : At(x).id = id}) = 1

(***************************************************************************)
(* The book and its node pool agree: the pool counts as in use exactly    *)
(* the nodes linked into the ladders.  Every                              *)
(* node comes from alloc_node when a residual rests (submit_limit_side,   *)
(* also on modify's resubmit) and must go back through free_node on      *)
(* every path that unlinks one: a full fill in match_against_side and     *)
(* cancel, also when modify cancels.  A missed free leaks a node for good; *)
(* a double free hands out a node that is still linked.                   *)
(***************************************************************************)
NoNodeLeak == pool.inUse = Cardinality(Slots)

(***************************************************************************)
(* LevelFIFO::total_qty equals the sum of the open quantities of the      *)
(* level's nodes after every command (enqueue, erase, reduce_qty on fills, *)
(* cancels and in-place modifies all adjust it).                           *)
(***************************************************************************)
LevelTotals == \A s \in Sides, p \in Prices : total[s][p] = SeqQty(levels[s][p])

(***************************************************************************)
(* No node rests with a zero or negative open quantity: the full-fill test *)
(* match_qty >= maker->qty erases every maker that a fill exhausts.        *)
(***************************************************************************)
RestingQtyPositive == \A x \in Slots : At(x).qty > 0

(***************************************************************************)
(* Spec invariant 3: the cached best of each ladder is its most aggressive *)
(* non-empty tick, or the sentinel when the ladder is empty.  It is moved  *)
(* by submit_limit_side and by refresh_best_after_depletion, which cancel  *)
(* and the matching loop call.                                            *)
(***************************************************************************)
BestIsTop ==
  \A s \in Sides :
    LET ne == {p \in Prices : levels[s][p] # <<>>}
    IN  best[s] = IF ne = {} THEN Empty(s)
                  ELSE IF s = "Bid" THEN Max(ne) ELSE Min(ne)

(***************************************************************************)
(* Spec invariant 2 with the STP exception of scenario 8: a resting bid    *)
(* and a resting ask that cross belong to the same user (the taker skipped *)
(* its own order under self-trade prevention and rested).                 *)
(***************************************************************************)
NoCrossExceptSelf ==
  \A b, a \in Slots :
    (b[1] = "Bid" /\ a[1] = "Ask" /\ b[2] >= a[2]) => At(b).user = At(a).user

(***************************************************************************)
(* Fill-or-kill (glossary): a FOK limit order fills completely or not at   *)
(* all.  check_fok_liquidity decides it before the matching loop runs.    *)
(***************************************************************************)
FokAllOrNothing ==
  (lastCmd.kind = "Limit" /\ lastCmd.tif = "FOK")
    => result.filled \in {0, lastCmd.qty}

\* The open quantity resting on side o at prices a taker limited at lim reaches.
CrossingQty(o, lim) ==
  MapThenSumSet(LAMBDA p : SeqQty(levels[o][p]), {p \in Prices : Crosses(o, p, lim)})

(***************************************************************************)
(* Fill-or-kill, the other half: a FOK limit order that the resting        *)
(* opposite orders within its limit could fill is filled completely, not  *)
(* killed.  check_fok_liquidity decides from the cached best and the       *)
(* level totals over a walk of at most MAX_STEPS ticks, so a stale best,   *)
(* a stale total or a walk that stops short kills a fillable order.  No    *)
(* STP here: with STP the walk counts the taker's own orders.              *)
(***************************************************************************)
FokFillsWhenLiquid ==
  [][(/\ lastCmd'.kind = "Limit" /\ lastCmd'.tif = "FOK"
      /\ CrossingQty(Other(lastCmd'.side), lastCmd'.price) >= lastCmd'.qty)
     => result'.filled = lastCmd'.qty]_vars

\* Every TradeEvent the matching loop emits carries a positive quantity.
TradeQtyPositive == \A i \in DOMAIN trades : trades[i].qty > 0

(***************************************************************************)
(* Quantity conservation (section 3/8) per command: the taker's filled    *)
(* quantity is the sum of its trades and at most its size, and the resting *)
(* quantity changes by what the command rests, less what it traded away   *)
(* from makers, less the open quantity of the order it cancels or          *)
(* replaces.                                                              *)
(***************************************************************************)
BookConservation ==
  [][LET k == lastCmd'.kind
         id == lastCmd'.id
         tq == TradedQty(trades')
         old == IF k \in {"Cancel", "Modify"} /\ id \in DOMAIN index
                THEN NodeOf(State, id).qty ELSE 0
         rested == IF k \in {"Limit", "Modify"} THEN result'.remaining ELSE 0
     IN  /\ result'.filled = tq
         /\ result'.filled <= lastCmd'.qty
         /\ RestingQty' - RestingQty = rested - tq - old]_vars

(***************************************************************************)
(* Price-time priority (section 8) of match_against_side and the enqueue  *)
(* at the tail in submit_limit_side: every trade is at a price within the  *)
(* taker's limit, and every order that arrived ahead of the maker (a       *)
(* better price, or the same price and an earlier arrival) that the taker  *)
(* may trade with (not its own under STP) was filled completely by the     *)
(* same command. Arrival is measured by order id, which the feed issues in *)
(* increasing order; modify re-queues an order under its old id, so this   *)
(* is checked on runs of new orders only. The limit is the one the book   *)
(* applies: a stop order goes to submit_market, whose limit is the empty   *)
(* sentinel of the opposite side.                                           *)
(***************************************************************************)
PriceTimePriority ==
  [][\A t \in ToSet(trades') :
       LET ms == Other(lastCmd'.side)
           mx == CHOOSE x \in Slots : x[1] = ms /\ At(x).id = t.maker
           limit == IF lastCmd'.kind = "Stop" THEN Empty(ms) ELSE lastCmd'.price
       IN  /\ Crosses(ms, t.price, limit)
           /\ \A x \in Slots :
                (/\ x[1] = ms
                 /\ Better(ms, x[2], mx[2]) \/ (x[2] = mx[2] /\ At(x).id < t.maker)
                 /\ ~(lastCmd'.stp /\ At(x).user = lastCmd'.user))
                => At(x).id \notin RestingIds']_vars

(***************************************************************************)
(* PriceLevelsAVL::find_next_bid / find_next_ask: from current (sentinel   *)
(* excluded), the nearest non-empty level strictly below (bids, by        *)
(* lower_bound and walking back) or strictly above (asks, by upper_bound   *)
(* and walking on), else the sentinel.  levels_ is the std::map; a tick    *)
(* with no entry and one with an empty LevelFIFO are skipped alike.       *)
(***************************************************************************)
FindNextBid(lv, cur) ==
  LET ne == {p \in DOMAIN lv : p < cur /\ lv[p] # <<>>}
  IN  IF cur = Empty("Bid") \/ ne = {} THEN Empty("Bid") ELSE Max(ne)

FindNextAsk(lv, cur) ==
  LET ne == {p \in DOMAIN lv : p > cur /\ lv[p] # <<>>}
  IN  IF cur = Empty("Ask") \/ ne = {} THEN Empty("Ask") ELSE Min(ne)

FindNext(s, lv, cur) == IF s = "Bid" THEN FindNextBid(lv, cur) ELSE FindNextAsk(lv, cur)

(***************************************************************************)
(* Spec section 4.2, sparse ladder: when a command empties the best level  *)
(* of a side, the new best is the predecessor (bids) or successor (asks)  *)
(* of that level among the non-empty levels, the answer find_next_bid /    *)
(* find_next_ask give.  Stated for commands that do not also add a better *)
(* level to that side (new orders and cancels; a modify may re-queue at a *)
(* better price).  refresh_best_after_depletion probes tick by tick       *)
(* instead, for at most MAX_SEARCH ticks, on either ladder.               *)
(***************************************************************************)
RefreshFindsNext ==
  [][\A s \in Sides :
       (best[s] # Empty(s) /\ levels'[s][best[s]] = <<>>)
         => best'[s] = FindNext(s, levels'[s], best[s])]_vars

=============================================================================

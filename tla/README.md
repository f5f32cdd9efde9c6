# TLA+ models of the Hyperliquid-style matching engine

This directory holds TLA+ models of the C++ matching engine under `src/`. They
are checked with TLC. `PROJECT.json` lists:
- the components;
- the runs and what each one checks;
- the mutants that show each property can fail;
- the map from every modelled definition to the source lines it translates;
- the findings and the hazards.

## 1. The system

| Part | Source | State | Operations |
|---|---|---|---|
| Order book | `order_book.h`, `order.h`, `price_levels_array.h` | a dense ladder of `LevelFIFO` queues per side; `total_qty` per level; cached `best_bid`/`best_ask` (with sentinels `EMPTY_BID`/`EMPTY_ASK`); the id index `id_index_` of type `FlatMap<OrderId, OrderEntry>`; a node pool | `submit_limit` (GTC/GTD/IOC/FOK, STP flag), `submit_market`, `cancel`, `modify`. Internal steps: `match_against_side`, `refresh_best_after_depletion`, `check_fok_liquidity`, `emit_trade`, `emit_book_update` |
| Id index | `flat_map.h` | an open-addressing table of size 2^k with linear probing, `size_` and `EmptyKey = 0` | `find`, `insert` (overwrites), `erase` (backward shift), `resize` at 70% load |
| Sparse ladder | `price_levels_avl.h` | a `std::map` of levels | the same ladder interface, plus `find_next_bid`/`find_next_ask`; `OrderBook<PriceLevelsAVL>` is instantiated by the tests only |
| Node pool | `mempool.h` | slabs and a free list | `alloc`, `free`; the book calls them through `alloc_node`/`free_node` |
| SPSC queue | `spsc_queue.h` | a ring buffer; atomic `head_`/`tail_` | `push`, `pop` (non-blocking) |
| Engine pipeline | `feed_handler.cpp`, `matching_engine.cpp`, `publisher.cpp`, `main.cpp` | three threads joined by SPSC queues | the feed parses and pushes commands, spinning while the queue is full. The engine pops each command and applies it to its symbol's book; trade and book-update callbacks spin-push to the output queues. The publisher drains them |
| JSON bridge | `tools/engine_bridge.cpp` | one book, `active_orders`, `EngineStats` | reads JSON lines from stdin: `order`, `cancel`, `stats`, `reset` |
| I/O | `network_feed_handler.h`, `websocket_server.h`, `json_serializer.h`, `binary_protocol.h`, the other `tools/` | sockets, sessions, formats, terminal screens | not modelled (see §5) |

How the parts interact:
- The book is single-threaded. One engine thread owns every book, and each
  command runs to completion before the next one starts.
- Concurrency lives only in the pipeline, at the SPSC queues.
- Inside one command, the book's steps form a fixed sequence: match, update
  the index and totals, refresh the best price, rest, emit. That sequence is
  where most of the subtle behaviour is.


## 2. Modules

| Module | Models | Notes |
|---|---|---|
| `OrderBook.tla` | the order book of one symbol, and the engine's dispatch | One action per command: `NewLimit`, `NewMarket`, `NewStop`, `Cancel`, `Modify`. Each is an atomic step, because the engine thread runs a command to completion. `NewStop` is the dispatch of `MatchingEngine::run`, which hands every non-`Limit` order type to `submit_market`. The matching loops are the recursive operators `Walk` (the FIFO walk of one level, with the STP skip) and `Match` (the level loop with its four stopping conditions). `RefreshBest`, `FokLiquidity`, `SubmitLimit`, `SubmitMarket` and `CancelFound` are operators over a state record `[levels, total, best, index]`; `IsValidPrice` and `HasLevel` are the ladder's bound and emptiness tests they call. The book's node pool is composed in as two counters (`PoolAlloc`, `PoolFree`). `Modify`'s replace path composes `CancelFound` with `SubmitLimit`, exactly as the code calls `cancel()` and then `submit_limit()`. |
| `MC_OrderBook.tla` | TLC instantiation of `OrderBook` | users are model values, with symmetry |
| `Dictionary.tla` | the abstract key → value map that the id index promises | |
| `FlatMap.tla` | `FlatMap` | the constructor's rounding of the capacity (`GrowCap`), `find`, `insert_internal` and `erase` (backward shift) translated probe by probe as recursive operators, and `insert`'s resize at `size_ >= 0.7 * capacity_` (`Full`, exact in integers as `10*size >= 7*capacity`). `resize` (`Rehash`) re-inserts the old slots in slot order at their home slot of the doubled table and rebuilds `size_` from zero. The 64-bit mixer is abstracted to the low bits of each key's hash, which is all `hash(k) & buf_mask` reads. Refines `Dictionary` under `dict <- [k \in Keys \|-> Lookup(k)]`. |
| `MC_FlatMap.tla` | TLC instantiation of `FlatMap` | for the wrap run: three keys, any home-slot function fixed at `Init`, any order of calls. For the resize run: the order ids 1..13 with the low 13 bits of the real mixer's `hash(id)` (`MixerLowBits`), issued in ascending order as the feed and `OrderBook` issue them (`ClientSpec`, with the counter `issued`), and erased in any order |
| `BoundedFifo.tla` | the SPSC ring's contract (spec §4.5) | `Put` when fewer than `Cap` items, `Take` from the head |
| `SPSCQueue.tla` | `SPSCQueue<T, N>` with one producer and one consumer thread | `push` is split into `PushCheck` (load `tail_`, acquire-load `head_`, full test), `PushWrite` (the slot store) and `PushPublish` (release-store of `tail_`); `pop` into `PopCheck`, `PopRead`, `PopRelease`. Items are numbered 1, 2, …; a slot never written holds 0. Refines `BoundedFifo` with `Cap <- N - 1` under `queue <- Contents` (the slots from `head_` to `tail_`) and `out <- received`. Acquire/release pairs are taken as sequentially consistent, which is what they guarantee for these two variables. |
| `SlabPool.tla` | `SlabPool<T>` | the free list as a sequence of `<<slab, object>>` nodes. `add_slab` pushes a slab's objects in order, so its last object ends at the head. `Alloc` grows the pool when the list is empty and then pops; `AllocAbort` is the `mmap` failure (`std::abort`); `Free(n)` pushes a held node |
| `Pipeline.tla` | `main.cpp`'s process: the feed thread, one engine thread per symbol, the publisher | the rings are taken at their `BoundedFifo` contract, which `SPSCQueue` is shown to implement. A spin on a full or empty ring is a stuttering step, so a successful push or pop is one step. A book is abstracted to the events one command makes it emit, as `OrderBook` computes them: a new order emits its trades and then one update; a cancel emits one update, or none for an unknown id; a modify emits none, one (in place), or one update, its trades and one more update (cancel and resubmit). `EnginePop` runs the command, and `EngineEmit` is the callback's spinning push of each event. The publisher drains the ring it polls (`PubPop`) and moves on when it is empty (`PubNext`). Records of an unknown `symbol_id` are skipped (`FeedSkip`). |
| `MC_Pipeline.tla` | TLC instantiation of `Pipeline` | every feed file of 3 records over two engines' symbols and one unknown symbol, and the empty file (the open/stat/mmap early returns) |
| `Bridge.tla` | `tools/engine_bridge.cpp` | `EXTENDS OrderBook`. `BridgeOrder` is the `order` line: `submit_limit` (GTC, user 1, fresh id), then recording the id in `active_orders` and counting `resting_orders` if something rested. `BridgeCancel` cancels some key of the unordered `active_orders` and decrements the statistic. `BridgeReset` clears both and keeps the book. The `EngineStats` counters (`resting_orders`, `total_orders_processed`, `total_trades`) are `uint64_t`, kept modulo `StatModulus`. The periodic stats line is `Periodic`: after every handled line, when `total_orders_processed - last_stats_output >= STATS_INTERVAL` (unsigned), the line is printed and `last_stats_output` set. The `stats` line only reads state. Latency measurement is left out: it reads the clock and decides nothing. |
| `MC_Bridge.tla` | TLC instantiation of `Bridge` | one user |

Abstractions in `OrderBook`:

| Code | Model |
|---|---|
| prices | ticks in `MinTick..MaxTick` |
| sentinels | `MinTick-1` and `MaxTick+1` |
| `OrderNode` | `[id, user, qty, stp]` |
| pool pointers | order ids; the pool is modelled on its own in `SlabPool` |
| `order_pool_` | the counters `pool.inUse` and `pool.capacity`: `PoolAlloc` is `alloc_node` (a slab of `SlabObjects` nodes is added when all are in use, which `SlabPool`'s `PoolPartition` shows is exactly when the free list is empty), `PoolFree` is `free_node`. `SlabObjects` is scaled from 1 MiB / `sizeof(OrderNode)` to 1, so the book's two initial slabs run out at the third resting order |
| `MAX_SEARCH` and `MAX_STEPS` | the constants `MaxSearch` and `MaxFokSteps`, clipped at the band width |
| timestamps, symbol ids | dropped: no decision of the book reads them |
| GTD | takes the GTC path; the code never reads expiry |
| stop orders | `NewStop`: `submit_market` at once, as the engine's dispatch does |
| `PriceLevelsAVL` | the same ladder over a window of ticks: a missing map entry reads as an empty level, as `has_level` does; `FindNextBid`/`FindNextAsk` are `find_next_bid`/`find_next_ask`, used by the sparse run to state what the refresh must find |
| events | history variables `trades`, `updates` and `result`; `lastCmd` is a ghost variable recording the command |

Order ids are issued fresh from 1 up to `MaxOrders`, as the feed does.

## 3. Runs

| Run | Config | Expect | Checks |
|---|---|---|---|
| book_full | `MC_OrderBook_full.cfg` | pass | `TypeOK`, `IndexConsistent`, `LevelTotals`, `RestingQtyPositive`, `NoNodeLeak`, `BookConservation` |
| book_core | `MC_OrderBook_core.cfg` | pass | `NoCrossExceptSelf`, `FokAllOrNothing`, `BestIsTop`, `PriceTimePriority`, `FokFillsWhenLiquid` |
| cancel_below_best | `MC_OrderBook_cancel.cfg` | violation | `BestIsTop` |
| stp_cross | `MC_OrderBook_stpcross.cfg` | violation | `NoCrossExceptSelf` |
| modify_zero | `MC_OrderBook_modzero.cfg` | violation | `TradeQtyPositive` |
| sparse_refresh | `MC_OrderBook_sparse.cfg` | violation | `RefreshFindsNext` |
| flatmap_resize | `MC_FlatMap_resize.cfg` | pass | `TypeOK`, `SizeCounts`, `EntriesReachable`, `Refinement` |
| flatmap_wrap | `MC_FlatMap_wrap.cfg` | violation | `Refinement` |
| spsc | `SPSCQueue.cfg` | pass | `TypeOK`, `NoSlotRace`, `Refinement`, `AllDelivered` |
| slabpool | `SlabPool.cfg` | pass | `TypeOK`, `PoolPartition` |
| pipeline | `MC_Pipeline.cfg` | pass | `TypeOK`, `CommandsInOrder`, `EventsInOrder`, `Completion` |
| bridge | `MC_Bridge.cfg` | pass | `NoCounterWrap`, `LastOutNotAhead` |

What the passing runs show:

- **book_full**, limit, market, cancel and modify, with and without STP:
  - the index maps exactly the resting ids to their side, price and node;
  - each level's total equals the sum of its queue;
  - no resting quantity is zero (the run's modify quantities leave out 0; `modify_zero` shows what a modify to 0 does);
  - every command conserves quantity: the fill equals the sum of its trades and is at most the order size, and the resting quantity changes by exactly what rested, minus what traded, minus what was cancelled;
  - the node pool has in use exactly the nodes linked into the ladders (`NoNodeLeak`): every path that unlinks a node (full fill, cancel, modify's cancel) frees it once, and only a resting residual allocates one.
- **book_core**, new limit, market and stop orders without STP or modify:
  - the cached best price is always the top non-empty level;
  - every trade obeys price-time priority: every order that arrived ahead of the maker (a better price, or the same price and a smaller id, which the feed issues in arrival order) had already left the book. Because modify re-queues an order under its old id, this property is checked on runs without modify;
  - the book never rests crossed;
  - FOK fills all or nothing (`FokAllOrNothing`), and a FOK that the resting liquidity within its limit can fill is filled, not killed (`FokFillsWhenLiquid`).
- **flatmap_resize**, 13 real order ids inserted in order and erased in any order, through the resize from 16 to 32 slots that the 13th insert runs on finding `size_ = 12`: `size_` counts exactly the occupied slots (`SizeCounts`), every stored key can be reached by `find` (`EntriesReachable`), and the table implements `Dictionary` (`Refinement`).
- **spsc**, every interleaving of the two threads' steps on a 4-slot ring:
  - the producer never writes a slot the consumer is reading, or is about to release (`NoSlotRace`);
  - the ring implements a 3-place FIFO: the items popped are the items pushed, in order, none lost or duplicated (`Refinement`);
  - every item pushed is eventually popped (`AllDelivered`).
- **slabpool**, alloc and free across slab growth up to the abort: every node of every mapped slab is either on the free list exactly once or held by the client, never both, and `in_use_` counts the held nodes (`PoolPartition`).
- **pipeline**, every 3-record feed, two engines, one-slot rings:
  - each engine receives the records of its symbol in file order, none lost or duplicated (`CommandsInOrder`);
  - for each symbol, the events reach the logs in the order its book emitted them (`EventsInOrder`);
  - however the threads interleave, and although an engine blocks in its callback on a full output ring while the feed blocks on a full input ring, everything read is processed and written (`Completion`).
- **bridge**: across orders, cancels and resets, `resting_orders` equals the size of `active_orders`, so the `uint64_t` never wraps below zero (`NoCounterWrap`); and `last_stats_output` never runs ahead of `orders_processed`, although `reset` zeroes only the latter: the periodic test's `uint64_t` difference wraps, prints the line and brings `last_stats_output` back to 0 (`LastOutNotAhead`; with a signed difference the periodic line would stall after a reset).

What the violation runs show (details in `PROJECT.json` "findings"):

- **cancel_below_best**: cancelling the last order of a level behind the best wipes out the cached best (`order_book.h:207`).
- **stp_cross**: an STP taker stopped by its own orders rests crossed against another user.
- **modify_zero**: modify to 0 leaves a zero-quantity node, and a later taker trades it for 0.
- **sparse_refresh**: on `OrderBook<PriceLevelsAVL>`, `refresh_best_after_depletion` still probes tick by tick for at most `MAX_SEARCH` ticks and never calls `find_next_bid`; a bid farther below the emptied best than the cap is lost, and the best bid reads empty (`order_book.h:491`). The run scales the cap from 10,000 ticks to 1 over a 3-tick band; with the cap at 10,000 the same configuration passes.
- **flatmap_wrap**: the wrapped branch of `erase` (`flat_map.h:93`) moves an entry to a slot from which `find` cannot reach it.

Other disagreements found while modelling are recorded as hazards in `PROJECT.json`, each with its note:
- the 10,000-tick refresh cap is narrower than `main`'s default band on the dense ladder too (`order_book.h:491`);
- a stop order trades at once as a market order (`matching_engine.cpp:44`), where spec §9 says it is held or rejected; the run that showed it gave its slot to `sparse_refresh`;
- `engine_bridge`'s `reset` zeroes `orders_processed` but not `last_stats_output`, so the unsigned difference wraps and the reset line itself prints a spurious periodic stats line (`engine_bridge.cpp:268`);
- modify and unknown-id cancels break spec §4.4.5's one book update per command (`order_book.h:270`);
- `data_generator` writes symbol id 1 while a one-symbol `main` numbers its engine 0, so the feed skips every generated record (`data_generator.cpp:61`);
- the bridge cancels ids whose orders a later order already filled (`engine_bridge.cpp:247`);
- the bridge truncates a sub-cent price to tick 0, outside its band (`engine_bridge.cpp:213`).

Every property of a passing run has a mutant in `PROJECT.json`. A mutant is an operator, placed just before the definition it replaces, that reproduces a plausible slip in that code. Examples:
- a dropped `min` in the fill;
- enqueueing at the head;
- a FOK walk that ignores the limit;
- no backward shift;
- a dropped full test in `push`;
- `head_` released before the slot is read;
- `tail_` stored unmasked or not advanced;
- a free list not advanced on `alloc`;
- a feed or callback push that gives up on a full ring;
- a publisher that never leaves its first queue;
- a `reset` that keeps `active_orders`.

TLC finds the property violated under each mutant.

### Bounds

- **Order book runs:**
  - 2 users (symmetric), so self-trades and cross-user trades both occur;
  - 2–3 ticks, so matching walks more than one level and a gap can form;
  - quantities 1..2, so partial fills and multiple fills per taker occur;
  - 3–4 orders in a behaviour.
  - These bounds reach every path of `match_against_side`, `submit_limit_side` and `modify`. `book_full` uses 2 ticks to finish in about 2 minutes; 3 orders on 2 ticks can all rest, so the pool grows past its two initial slabs.
- **FlatMap runs:**
  - wrap: capacity 16, the constructor's smallest table (the book's index starts at 8192 slots, beyond TLC; the probe logic does not depend on the size), 3 keys and every home-slot assignment, so clusters wrap past slot 15;
  - resize: capacity 16 and 13 ids, one more than the 12 after which `insert` resizes (`12*10 >= 7*16`), with the mixer's real low bits, under which clusters form in both tables. Inserting in ascending order is what the book does (fresh ids); erasing in any order keeps the backward shift exercised across the resize.
- **spsc:** `N = 4` (a power of two, as the `static_assert` requires) and 9 items, so the indices wrap twice and the ring fills.
- **slabpool:** 2 objects per slab, the book's 2 initial slabs and room for 1 more, so the pool grows once and then aborts.
- **pipeline:** one-slot rings and up to 1 trade per command, so every ring fills and both the feed and the engines block; two engines, so the publisher's round robin matters.
- **bridge:** a 2-tick band, quantities 1..2 and 4 orders, so orders rest, fill each other and are cancelled after being filled. The statistics' modulus 65,536 stands for 2^64, and `STATS_INTERVAL` is scaled from 100 to 2, so a periodic line is due every second order; only the unsigned difference's wrap and the `>=` boundary matter, and both are kept.

### Fairness

- **SPSCQueue:** weak fairness of the producer's and of the consumer's steps.
- **Pipeline:** weak fairness of the feed thread, of each engine thread and of the publisher thread.

`main.cpp` runs each of these on a thread of its own, pinned to its own core when cores are given. A thread only ever spins with `yield()`, so it keeps being scheduled. Weak fairness is enough, because a step that becomes possible stays possible until its own thread takes it: only the consumer empties a ring, and only the producer fills it. The book and the bridge are sequential, and their runs check only safety.

## 4. Further work

1. Violation runs with id 0 and with a duplicate id (hazards at `flat_map.h:143/149`); the duplicate would break `NoNodeLeak` as well as `IndexConsistent`.
2. The FOK twin of `sparse_refresh`: `MaxFokSteps` scaled below the band, where `FokFillsWhenLiquid` fails.
3. The pool at node granularity (the free list's order), so that the index erase before `free_node` (`order_book.h:461`) can be checked.

## 5. Not modelled

- **Network feed and WebSocket server** (`network_feed_handler.h`, `websocket_server.h`): compiled only with `HYPERLIQUID_WEBSOCKET`, which nothing in the repository defines, and `NetworkFeedHandler` has no user. Two hazards in their write path are listed in `PROJECT.json`.
- **JSON and binary serialisation** (`json_serializer.h`, `binary_protocol.h`): format conversions. Nothing calls the binary protocol; `engine_bridge`'s `--binary` flag is parsed and never read.
- **Sparse ladder** (`price_levels_avl.h`), partly: its `std::map` bookkeeping (`get_level` creating an entry, `remove_level_if_empty`) is not distinguished from the dense ladder, since an absent level and an empty one answer every query alike.
- **Terminal tools** (`cli_live.cpp`, `cli_viz.cpp`, `demo.cpp`, `log_converter.cpp`, `data_generator.cpp`): screens, random drivers and file conversion. The files the generator writes are among the feed files `Pipeline` enumerates; its symbol id and its stale view of active orders are hazards.
- **Publisher log files**: `Pipeline` takes both logs as open; a failed open is a hazard.
- **Timestamps, latency tracking, CPU affinity:** clock reads and statistics; no decision depends on them. The one ordering concern, modify's resubmit stamp, is listed as a hazard.
- **Out-of-band prices:** undefined behaviour in release builds, so the models draw ticks from the band.

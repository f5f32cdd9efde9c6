\* New limit, market and stop orders without STP or modify: the best price, price-time priority, no crossed book, and FOK all-or-nothing and filled when it can be.
CONSTANTS
  u1 = u1
  u2 = u2
  Users <- MCUsers
  MinTick = 1
  MaxTick = 3
  MaxQty = 2
  MaxOrders = 4
  MaxSearch = 10000
  MaxFokSteps = 10000
  Kinds <- NewWithStop
  TIFs <- MatchTIFs
  StpFlags = {FALSE}
  ModifyQtys <- PositiveQtys
  \* stands for 1 MiB / sizeof(OrderNode): the pool grows at the third node
  SlabObjects = 1
SYMMETRY UserSymmetry
SPECIFICATION Spec
INVARIANT NoCrossExceptSelf
INVARIANT FokAllOrNothing
INVARIANT BestIsTop
PROPERTY PriceTimePriority
PROPERTY FokFillsWhenLiquid
\* Only fresh ids are issued: once they are used up the feed is exhausted
\* and the engine thread idles on its empty input queue.
CHECK_DEADLOCK FALSE

\* OrderBook<PriceLevelsAVL>: limit and market orders on a sparse ladder
\* whose levels lie farther apart than the refresh scan reaches.
CONSTANTS
  u1 = u1
  u2 = u2
  Users <- MCUsers
  MinTick = 1
  MaxTick = 3
  MaxQty = 2
  MaxOrders = 3
  MaxSearch = 1
  MaxFokSteps = 10000
  Kinds <- LimitMarket
  TIFs = {"GTC"}
  StpFlags = {FALSE}
  ModifyQtys <- PositiveQtys
  \* stands for 1 MiB / sizeof(OrderNode): the pool grows at the third node
  SlabObjects = 1
SYMMETRY UserSymmetry
SPECIFICATION Spec
\* Only fresh ids are issued: once they are used up the feed is exhausted
\* and the engine thread idles on its empty input queue.
CHECK_DEADLOCK FALSE
PROPERTY RefreshFindsNext

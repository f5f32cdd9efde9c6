\* Limit orders with STP: a taker blocked by its own order rests across another user's order.
CONSTANTS
  u1 = u1
  u2 = u2
  Users <- MCUsers
  MinTick = 1
  MaxTick = 3
  MaxQty = 2
  MaxOrders = 3
  MaxSearch = 10000
  MaxFokSteps = 10000
  Kinds <- LimitOnly
  TIFs <- MatchTIFs
  StpFlags = {FALSE, TRUE}
  ModifyQtys <- PositiveQtys
  \* stands for 1 MiB / sizeof(OrderNode): the pool grows at the third node
  SlabObjects = 1
SYMMETRY UserSymmetry
SPECIFICATION Spec
INVARIANT NoCrossExceptSelf
CHECK_DEADLOCK FALSE

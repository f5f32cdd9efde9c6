\* Limit orders and cancels: cancelling the last order of a level below the best.
CONSTANTS
  u1 = u1
  u2 = u2
  Users <- MCUsers
  MinTick = 1
  MaxTick = 3
  MaxQty = 2
  MaxOrders = 3
  MaxSearch = 10000
  MaxFokSteps = 10000
  Kinds <- LimitCancel
  TIFs <- MatchTIFs
  StpFlags = {FALSE}
  ModifyQtys <- PositiveQtys
  \* stands for 1 MiB / sizeof(OrderNode): the pool grows at the third node
  SlabObjects = 1
SYMMETRY UserSymmetry
SPECIFICATION Spec
INVARIANT BestIsTop
CHECK_DEADLOCK FALSE

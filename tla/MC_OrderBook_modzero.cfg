\* Modify to quantity zero at the same price.
CONSTANTS
  u1 = u1
  u2 = u2
  Users <- MCUsers
  MinTick = 1
  MaxTick = 3
  MaxQty = 2
  MaxOrders = 3
  MaxSearch = 10000
  MaxFokSteps = 10000
  Kinds <- LimitModify
  TIFs <- MatchTIFs
  StpFlags = {FALSE}
  ModifyQtys <- QtysWithZero
  \* stands for 1 MiB / sizeof(OrderNode): the pool grows at the third node
  SlabObjects = 1
SYMMETRY UserSymmetry
SPECIFICATION Spec
INVARIANT TradeQtyPositive
CHECK_DEADLOCK FALSE

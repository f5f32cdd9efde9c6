\* Every command kind, STP on and off: the book and its node pool stay sound.
CONSTANTS
  u1 = u1
  u2 = u2
  Users <- MCUsers
  MinTick = 1
  MaxTick = 2
  MaxQty = 2
  MaxOrders = 3
  MaxSearch = 10000
  MaxFokSteps = 10000
  Kinds <- AllKinds
  TIFs <- MatchTIFs
  StpFlags = {FALSE, TRUE}
  ModifyQtys <- PositiveQtys
  \* stands for 1 MiB / sizeof(OrderNode): the pool grows at the third node
  SlabObjects = 1
SYMMETRY UserSymmetry
SPECIFICATION Spec
INVARIANT TypeOK
INVARIANT IndexConsistent
INVARIANT LevelTotals
INVARIANT RestingQtyPositive
INVARIANT NoNodeLeak
PROPERTY BookConservation

\* The JSON bridge on a band of two ticks: orders of one user that rest and
\* fill each other, cancels and resets, and the periodic stats lines.
CONSTANTS
  u1 = u1
  Users <- BridgeUsers
  BridgeUser = u1
  MinTick = 1
  MaxTick = 2
  MaxQty = 2
  MaxOrders = 4
  MaxSearch = 10000
  MaxFokSteps = 10000
  Kinds <- LimitCancel
  TIFs = {"GTC"}
  StpFlags = {FALSE}
  ModifyQtys <- PositiveQtys
  \* stands for 1 MiB / sizeof(OrderNode): the pool grows at the third node
  SlabObjects = 1
  \* stands for 2^64: TLC integers are 32-bit, and only the wrap matters
  StatModulus = 65536
  \* stands for 100: MaxOrders orders reach two periodic lines
  StatsPeriod = 2
INIT BInit
NEXT BNext
INVARIANT NoCounterWrap
INVARIANT LastOutNotAhead

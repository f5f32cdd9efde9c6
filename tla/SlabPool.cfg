\* Slabs of 2 nodes; two mapped at construction as the order book's
\* order_pool_(2) does, and one more before mmap fails: the free list empties,
\* a slab is added, and alloc() finally aborts.
CONSTANTS
  PerSlab = 2
  InitialSlabs = 2
  MaxSlabs = 3
SPECIFICATION Spec
INVARIANT TypeOK
INVARIANT PoolPartition
\* After std::abort() the process is gone: the only final state.
CHECK_DEADLOCK FALSE

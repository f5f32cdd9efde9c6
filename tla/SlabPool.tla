-------------------------------- MODULE SlabPool --------------------------------
(***************************************************************************)
(* SlabPool<T> (mempool.h): nodes come from slabs of PerSlab objects, an   *)
(* intrusive LIFO free list threads the free ones. A node is the pair      *)
(* <<slab, i>>. The client is the order book: it frees only nodes it was   *)
(* handed and still holds (a resting order's node, on full fill or         *)
(* cancel). When mmap fails, add_slab() aborts the process; the model lets *)
(* that happen once MaxSlabs slabs exist.                                  *)
(***************************************************************************)
EXTENDS Naturals, Sequences, SequencesExt

CONSTANTS PerSlab,       \* SLAB_SIZE / sizeof(T)
          InitialSlabs,  \* the constructor's initial_slabs
          MaxSlabs       \* slabs the host can map before mmap fails

ASSUME PerSlab >= 1 /\ 1 <= InitialSlabs /\ InitialSlabs <= MaxSlabs

Nodes == (1..MaxSlabs) \X (1..PerSlab)

VARIABLES freeList,   \* free_list_, head first
          slabs,      \* raw_slabs_.size()
          capacity,   \* capacity_
          inUse,      \* in_use_
          held,       \* nodes alloc() returned and the client has not freed
          aborted     \* std::abort() was called

vars == <<freeList, slabs, capacity, inUse, held, aborted>>

\* add_slab(): node->next = free_list_; free_list_ = node for i = 0, 1, ...,
\* so the slab's last object ends up at the head.
SlabNodes(s) == [i \in 1..PerSlab |-> <<s, PerSlab + 1 - i>>]

AddSlab(fl, s) == SlabNodes(s) \o fl

Init ==
  /\ slabs = InitialSlabs
  /\ freeList = FoldLeft(AddSlab, <<>>, [i \in 1..InitialSlabs |-> i])
  /\ capacity = InitialSlabs * PerSlab
  /\ inUse = 0 /\ held = {} /\ aborted = FALSE

\* alloc() on an empty free list when no slab can be mapped: perror, abort.
AllocAbort ==
  /\ ~aborted /\ freeList = <<>> /\ slabs = MaxSlabs
  /\ aborted' = TRUE
  /\ UNCHANGED <<freeList, slabs, capacity, inUse, held>>

\* Mutant: free_list_ is not advanced past the node handed out.
AllocNoPop ==
  /\ ~aborted /\ (freeList # <<>> \/ slabs < MaxSlabs)
  /\ LET fl == IF freeList = <<>> THEN AddSlab(freeList, slabs + 1) ELSE freeList
     IN  /\ freeList' = fl
         /\ held' = held \cup {Head(fl)}
  /\ slabs' = IF freeList = <<>> THEN slabs + 1 ELSE slabs
  /\ capacity' = IF freeList = <<>> THEN capacity + PerSlab ELSE capacity
  /\ inUse' = inUse + 1
  /\ UNCHANGED aborted

\* alloc(): add a slab when the free list is empty, pop its head.
Alloc ==
  /\ ~aborted /\ (freeList # <<>> \/ slabs < MaxSlabs)
  /\ LET fl == IF freeList = <<>> THEN AddSlab(freeList, slabs + 1) ELSE freeList
     IN  /\ freeList' = Tail(fl)
         /\ held' = held \cup {Head(fl)}
  /\ slabs' = IF freeList = <<>> THEN slabs + 1 ELSE slabs
  /\ capacity' = IF freeList = <<>> THEN capacity + PerSlab ELSE capacity
  /\ inUse' = inUse + 1
  /\ UNCHANGED aborted

\* Mutant: in_use_ is not decremented.
FreeNoCount(n) ==
  /\ ~aborted /\ n \in held
  /\ freeList' = <<n>> \o freeList
  /\ held' = held \ {n}
  /\ UNCHANGED <<slabs, capacity, inUse, aborted>>

\* free(ptr): push the node on the free list.
Free(n) ==
  /\ ~aborted /\ n \in held
  /\ freeList' = <<n>> \o freeList
  /\ held' = held \ {n}
  /\ inUse' = inUse - 1
  /\ UNCHANGED <<slabs, capacity, aborted>>

Next == Alloc \/ AllocAbort \/ \E n \in Nodes : Free(n)

Spec == Init /\ [][Next]_vars

--------------------------------------------------------------------------------
TypeOK ==
  /\ freeList \in Seq(Nodes) /\ held \subseteq Nodes
  /\ slabs \in InitialSlabs..MaxSlabs /\ capacity = slabs * PerSlab
  /\ inUse \in 0..capacity /\ aborted \in BOOLEAN

(***************************************************************************)
(* The slabs' nodes are partitioned between the free list and the client:  *)
(* no node is on the free list twice or handed out while still held, none  *)
(* is lost, and in_use_ counts the held ones (alloc()/free() keep the      *)
(* intrusive list and the counter in step).                                *)
(***************************************************************************)
PoolPartition ==
  /\ IsInjective(freeList)
  /\ ToSet(freeList) \cap held = {}
  /\ ToSet(freeList) \cup held = (1..slabs) \X (1..PerSlab)
  /\ inUse = Cardinality(held)

================================================================================

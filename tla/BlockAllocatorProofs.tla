------------------------ MODULE BlockAllocatorProofs ------------------------
(***************************************************************************)
(* The block allocator is exact for every size of disk, every set of       *)
(* callers and every sequence of allocations and deallocations.            *)
(***************************************************************************)
EXTENDS BlockAllocator, BlockPoolLemmas, FiniteSetTheorems

(* The bitmap's own counter never promises more than there is. *)
NumEmptyNeverTooHigh == pool.num_empty <= pool.free_blocks

(***************************************************************************)
(* The conjuncts lean on one another: the exact bitmap makes a fresh block *)
(* one that nobody holds, which keeps the counter exact; the counter and   *)
(* the block that is never used keep free_blocks above zero; and num_empty *)
(* stays below free_blocks because it loses two when the latter loses one. *)
(***************************************************************************)
IInv ==
  /\ TypeOK
  /\ BitmapExact
  /\ FreeBlocksExact
  /\ LastBlockNeverUsed
  /\ NumEmptyNeverTooHigh
  /\ RefusalExplained

LEMMA BlocksFinite ==
  /\ IsFiniteSet(Blocks)
  /\ Cardinality(Blocks) = FS_BLOCKS
<1>1. FS_BLOCKS \in Nat /\ FS_BLOCKS > 1
  BY PoolAssumption DEF FS_BLOCKS
<1>2. 0 \in Int /\ FS_BLOCKS - 1 \in Int
  BY <1>1
<1>3. /\ IsFiniteSet(0 .. FS_BLOCKS - 1)
      /\ Cardinality(0 .. FS_BLOCKS - 1)
           = IF 0 > FS_BLOCKS - 1 THEN 0 ELSE (FS_BLOCKS - 1) - 0 + 1
  BY <1>2, FS_Interval
<1>. QED  BY <1>1, <1>3 DEF Blocks

(* A set of blocks without the last one leaves at least one block out. *)
LEMMA BlockSetFinite ==
  ASSUME NEW S \in SUBSET Blocks
  PROVE  /\ IsFiniteSet(S)
         /\ Cardinality(S) \in Nat
         /\ FS_BLOCKS - 1 \notin S => Cardinality(S) <= FS_BLOCKS - 1
<1>1. IsFiniteSet(S) /\ Cardinality(S) \in Nat
  BY BlocksFinite, FS_Subset, FS_CardinalityType
<1>2. FS_BLOCKS - 1 \in Blocks
  BY PoolAssumption DEF Blocks, FS_BLOCKS
<1>3. /\ IsFiniteSet(Blocks \ {FS_BLOCKS - 1})
      /\ Cardinality(Blocks \ {FS_BLOCKS - 1}) = FS_BLOCKS - 1
  BY <1>2, BlocksFinite, FS_RemoveElement
<1>4. ASSUME FS_BLOCKS - 1 \notin S
      PROVE  Cardinality(S) <= FS_BLOCKS - 1
  <2>1. S \in SUBSET (Blocks \ {FS_BLOCKS - 1})
    BY <1>4
  <2>. QED  BY <1>3, <2>1, FS_Subset
<1>. QED  BY <1>1, <1>4

(***************************************************************************)
(* A freshly initialised disk satisfies the invariant.                     *)
(***************************************************************************)
LEMMA InitIInv == Init => IInv
<1> SUFFICES ASSUME Init PROVE IInv
  OBVIOUS
<1>1. Held = {} /\ Cardinality(Held) = 0
  <2>1. Held = {}
    BY DEF Init, Held
  <2>. QED  BY <2>1, FS_EmptySet
<1>2. TypeOK
  BY InitialPoolResult DEF Init, TypeOK
<1>3. BitmapExact
  BY <1>1, InitialPoolResult DEF Init, BitmapExact
<1>4. FreeBlocksExact
  BY <1>1, InitialPoolResult, PoolAssumption
  DEF Init, FreeBlocksExact, FS_BLOCKS
<1>5. LastBlockNeverUsed
  BY <1>1, InitialPoolResult, PoolAssumption
  DEF Init, LastBlockNeverUsed, FS_BLOCKS
<1>6. NumEmptyNeverTooHigh
  BY InitialPoolResult, PoolAssumption
  DEF Init, NumEmptyNeverTooHigh, FS_BLOCKS
<1>7. RefusalExplained
  BY DEF Init, RefusalExplained
<1>. QED  BY <1>2, <1>3, <1>4, <1>5, <1>6, <1>7 DEF IInv

(***************************************************************************)
(* An allocation that grants a block.                                      *)
(***************************************************************************)
LEMMA GrantIInv ==
  ASSUME IInv, NEW c \in Callers,
         LET got == AllocateBlock(pool) IN
           /\ Grants(pool, got)
           /\ pool' = got.pool
           /\ refused' = FALSE
           /\ owner' = [owner EXCEPT ![got.block] = c]
  PROVE  IInv'
<1> DEFINE b == AllocateBlock(pool).block
<1>1. /\ b \in Blocks \ {FS_BLOCKS - 1}
      /\ b + OVERHEAD_BLOCKS \notin pool.used
      /\ pool' \in Pool
      /\ pool'.used = pool.used \cup {b + OVERHEAD_BLOCKS}
      /\ pool'.free_blocks = pool.free_blocks - 1
      /\ pool'.num_empty = pool.num_empty - 2
      /\ refused' = FALSE
      /\ owner' = [owner EXCEPT ![b] = c]
  BY DEF Grants
<1> HIDE DEF b
<1>2. b \notin Held
  BY <1>1 DEF IInv, BitmapExact
<1>3. Held' = Held \cup {b}
  BY <1>1, <1>2, AllocatorAssumption DEF IInv, TypeOK, Held
<1>4. Cardinality(Held') = Cardinality(Held) + 1 /\ Cardinality(Held) \in Nat
  <2>1. Held \in SUBSET Blocks
    BY DEF Held
  <2>. QED  BY <1>2, <1>3, <2>1, BlockSetFinite, FS_AddElement
<1>5. TypeOK'
  BY <1>1 DEF IInv, TypeOK
<1>6. BitmapExact'
  BY <1>1, <1>3 DEF IInv, BitmapExact
<1>7. FreeBlocksExact'
  BY <1>1, <1>4, PoolAssumption
  DEF IInv, TypeOK, Pool, FreeBlocksExact, FS_BLOCKS
<1>8. LastBlockNeverUsed'
  <2>1. FS_BLOCKS - 1 \notin Held'
    BY <1>1, <1>3 DEF IInv, LastBlockNeverUsed
  <2>2. Held' \in SUBSET Blocks
    BY DEF Held
  <2>3. Cardinality(Held') \in Nat /\ Cardinality(Held') <= FS_BLOCKS - 1
    BY <2>1, <2>2, BlockSetFinite
  <2>. QED  BY <1>7, <2>1, <2>3, PoolAssumption
            DEF FreeBlocksExact, LastBlockNeverUsed, FS_BLOCKS
<1>9. NumEmptyNeverTooHigh'
  BY <1>1 DEF IInv, TypeOK, Pool, NumEmptyNeverTooHigh
<1>10. RefusalExplained'
  BY <1>1 DEF RefusalExplained
<1>. QED  BY <1>5, <1>6, <1>7, <1>8, <1>9, <1>10 DEF IInv

(***************************************************************************)
(* An allocation that is refused: only num_empty can change, and if it is  *)
(* not zero the scan found nothing, so everything it can reach is held.    *)
(***************************************************************************)
LEMMA RefuseIInv ==
  ASSUME IInv,
         LET got == AllocateBlock(pool) IN
           /\ Refuses(pool, got)
           /\ pool' = got.pool,
         refused' = TRUE,
         owner' = owner
  PROVE  IInv'
<1>1. /\ (pool.num_empty = 0 /\ pool' = pool) \/ Scanned(pool.used) = {}
      /\ pool' \in Pool
      /\ pool'.used = pool.used
      /\ pool'.free_blocks = pool.free_blocks
      /\ pool'.num_empty <= pool.num_empty
  BY DEF Refuses
<1>2. Held' = Held
  BY DEF Held
<1>3. TypeOK' /\ BitmapExact' /\ FreeBlocksExact' /\ LastBlockNeverUsed'
  BY <1>1, <1>2
  DEF IInv, TypeOK, BitmapExact, FreeBlocksExact, LastBlockNeverUsed
<1>4. NumEmptyNeverTooHigh'
  BY <1>1 DEF IInv, TypeOK, Pool, NumEmptyNeverTooHigh
<1>5. RefusalExplained'
  <2>1. CASE pool.num_empty = 0 /\ pool' = pool
    BY <2>1 DEF RefusalExplained
  <2>2. CASE Scanned(pool.used) = {}
    <3>1. \A b \in Blocks \ {FS_BLOCKS - 1} : b + OVERHEAD_BLOCKS \in pool.used
      BY <2>2, PoolAssumption DEF Scanned, Blocks, FS_BLOCKS
    <3>2. \A b \in Blocks \ {FS_BLOCKS - 1} : b \in Held
      <4> TAKE b \in Blocks \ {FS_BLOCKS - 1}
      <4>1. b + OVERHEAD_BLOCKS \notin Overhead
        BY PoolAssumption DEF Overhead, Blocks, FS_BLOCKS
      <4>2. PICK h \in Held : b + OVERHEAD_BLOCKS = h + OVERHEAD_BLOCKS
        BY <3>1, <4>1 DEF IInv, BitmapExact
      <4>3. h \in Int /\ b \in Int
        BY PoolAssumption DEF Held, Blocks, FS_BLOCKS
      <4>. QED  BY <4>2, <4>3, PoolAssumption
    <3>3. Held \subseteq Blocks \ {FS_BLOCKS - 1}
      BY DEF IInv, LastBlockNeverUsed, Held
    <3>. QED  BY <1>2, <3>2, <3>3 DEF RefusalExplained
  <2>. QED  BY <1>1, <2>1, <2>2
<1>. QED  BY <1>3, <1>4, <1>5 DEF IInv

(***************************************************************************)
(* A block given back.                                                     *)
(***************************************************************************)
LEMMA DeallocateIInv ==
  ASSUME IInv, NEW b \in Blocks, Deallocate(b)
  PROVE  IInv'
<1>1. /\ pool' \in Pool
      /\ pool'.used = pool.used \ {b + OVERHEAD_BLOCKS}
      /\ pool'.free_blocks = pool.free_blocks + 1
      /\ pool'.num_empty = pool.num_empty + 1
      /\ refused' = FALSE
      /\ owner' = [owner EXCEPT ![b] = Nobody]
  BY DeallocateBlockResult DEF IInv, TypeOK, Deallocate
<1>2. b \in Held
  BY DEF Deallocate, Held
<1>3. Held' = Held \ {b}
  BY <1>1 DEF IInv, TypeOK, Held
<1>4. Cardinality(Held') = Cardinality(Held) - 1 /\ Cardinality(Held) \in Nat
  <2>1. Held \in SUBSET Blocks
    BY DEF Held
  <2>. QED  BY <1>2, <1>3, <2>1, BlockSetFinite, FS_RemoveElement
<1>5. TypeOK'
  BY <1>1 DEF IInv, TypeOK
<1>6. BitmapExact'
  <2>1. b + OVERHEAD_BLOCKS \notin Overhead
    BY PoolAssumption DEF Overhead, Blocks, FS_BLOCKS
  <2>2. \A h \in Held : h + OVERHEAD_BLOCKS = b + OVERHEAD_BLOCKS => h = b
    BY PoolAssumption DEF Held, Blocks, FS_BLOCKS
  <2>. QED  BY <1>1, <1>3, <2>1, <2>2 DEF IInv, BitmapExact
<1>7. FreeBlocksExact'
  BY <1>1, <1>4, PoolAssumption
  DEF IInv, TypeOK, Pool, FreeBlocksExact, FS_BLOCKS
<1>8. LastBlockNeverUsed'
  BY <1>1, <1>3 DEF IInv, TypeOK, Pool, LastBlockNeverUsed
<1>9. NumEmptyNeverTooHigh'
  BY <1>1 DEF IInv, TypeOK, Pool, NumEmptyNeverTooHigh
<1>10. RefusalExplained'
  BY <1>1 DEF RefusalExplained
<1>. QED  BY <1>5, <1>6, <1>7, <1>8, <1>9, <1>10 DEF IInv

(***************************************************************************)
(* An allocation grants or refuses, because the invariant keeps            *)
(* free_blocks above zero and the overhead marked.                         *)
(***************************************************************************)
LEMMA AllocateCases ==
  ASSUME IInv
  PROVE  Refuses(pool, AllocateBlock(pool)) \/ Grants(pool, AllocateBlock(pool))
BY AllocateBlockResult
DEF IInv, TypeOK, Pool, BitmapExact, LastBlockNeverUsed

LEMMA AllocateIInv ==
  ASSUME IInv, NEW c \in Callers, Allocate(c)
  PROVE  IInv'
<1> DEFINE got == AllocateBlock(pool)
<1>1. CASE Refuses(pool, got)
  <2>1. pool' = got.pool /\ refused' = TRUE /\ owner' = owner
    BY <1>1 DEF Allocate, Refuses
  <2>. QED  BY <1>1, <2>1, RefuseIInv
<1>2. CASE Grants(pool, got)
  <2>1. got.block # NULL
    BY <1>2, PoolAssumption DEF Grants, Blocks, NULL
  <2>2. /\ pool' = got.pool
        /\ refused' = FALSE
        /\ owner' = [owner EXCEPT ![got.block] = c]
    BY <2>1 DEF Allocate
  <2>. QED  BY <1>2, <2>2, GrantIInv
<1>. QED  BY <1>1, <1>2, AllocateCases

(***************************************************************************)
(* Type correctness and all the invariants at once: they are inductive     *)
(* together.                                                               *)
(***************************************************************************)
THEOREM Inductive == Spec => []IInv
<1>1. Init => IInv
  BY InitIInv
<1>2. IInv /\ [Next]_vars => IInv'
  <2> SUFFICES ASSUME IInv, [Next]_vars PROVE IInv'
    OBVIOUS
  <2>1. CASE Initialize
    <3>1. Init'
      BY <2>1 DEF Initialize, Init
    <3>. QED  BY <3>1, InitIInv, PTL
  <2>2. ASSUME NEW c \in Callers, Allocate(c) PROVE IInv'
    BY <2>2, AllocateIInv
  <2>3. ASSUME NEW b \in Blocks, Deallocate(b) PROVE IInv'
    BY <2>3, DeallocateIInv
  <2>4. CASE UNCHANGED vars
    BY <2>4 DEF vars, IInv, TypeOK, BitmapExact, FreeBlocksExact, Held,
                LastBlockNeverUsed, NumEmptyNeverTooHigh, RefusalExplained
  <2>. QED  BY <2>1, <2>2, <2>3, <2>4 DEF Next
<1>. QED  BY <1>1, <1>2, PTL DEF Spec

(***************************************************************************)
(* The type invariant of the block allocator.                              *)
(***************************************************************************)
THEOREM TypeCorrect == Spec => []TypeOK
<1>1. IInv => TypeOK
  BY DEF IInv
<1>. QED  BY <1>1, Inductive, PTL

(***************************************************************************)
(* The bitmap marks the overhead and the blocks held, and nothing else:    *)
(* _ramdisk_allocate_block never gives out a block that somebody holds.    *)
(***************************************************************************)
THEOREM BitmapIsExact == Spec => []BitmapExact
<1>1. IInv => BitmapExact
  BY DEF IInv
<1>. QED  BY <1>1, Inductive, PTL

(***************************************************************************)
(* The superblock counts the free blocks exactly.                          *)
(***************************************************************************)
THEOREM FreeBlocksIsExact == Spec => []FreeBlocksExact
<1>1. IInv => FreeBlocksExact
  BY DEF IInv
<1>. QED  BY <1>1, Inductive, PTL

(***************************************************************************)
(* The last block of the disk is out of reach and free_blocks is never     *)
(* zero, whatever the size of the disk.                                    *)
(***************************************************************************)
THEOREM LastBlockIsNeverUsed == Spec => []LastBlockNeverUsed
<1>1. IInv => LastBlockNeverUsed
  BY DEF IInv
<1>. QED  BY <1>1, Inductive, PTL

(***************************************************************************)
(* A refusal means a full disk or a counter that drifted to zero.          *)
(***************************************************************************)
THEOREM RefusalIsExplained == Spec => []RefusalExplained
<1>1. IInv => RefusalExplained
  BY DEF IInv
<1>. QED  BY <1>1, Inductive, PTL

(***************************************************************************)
(* No step takes a block from its holder and gives it to somebody else.    *)
(***************************************************************************)
THEOREM BlocksAreNeverReassigned == Spec => NeverReassigned
<1>1. ASSUME IInv, [Next]_vars
      PROVE  [\A b \in Blocks : owner[b] # Nobody
                => owner'[b] \in {owner[b], Nobody}]_vars
  <2> SUFFICES ASSUME Next, NEW b \in Blocks, owner[b] # Nobody
               PROVE  owner'[b] \in {owner[b], Nobody}
    BY <1>1
  <2>1. CASE Initialize
    BY <2>1 DEF Initialize
  <2>2. ASSUME NEW c \in Callers, Allocate(c)
        PROVE  owner'[b] \in {owner[b], Nobody}
    <3> DEFINE got == AllocateBlock(pool)
    <3>1. CASE got.block = NULL
      BY <2>2, <3>1 DEF Allocate
    <3>2. CASE got.block # NULL
      <4>1. Grants(pool, got)
        BY <1>1, <3>2, AllocateCases DEF Refuses
      <4>2. got.block \notin Held
        BY <1>1, <4>1 DEF Grants, IInv, BitmapExact
      <4>3. got.block # b
        BY <4>2 DEF Held
      <4>. QED  BY <1>1, <2>2, <3>2, <4>3 DEF Allocate, IInv, TypeOK
    <3>. QED  BY <3>1, <3>2
  <2>3. ASSUME NEW d \in Blocks, Deallocate(d)
        PROVE  owner'[b] \in {owner[b], Nobody}
    BY <1>1, <2>3 DEF Deallocate, IInv, TypeOK
  <2>. QED  BY <2>1, <2>2, <2>3 DEF Next
<1>. QED  BY <1>1, Inductive, PTL DEF Spec, NeverReassigned

(***************************************************************************)
(* num_empty never comes nearer to free_blocks again: an allocation takes  *)
(* two of it for one block, or one for none, and a deallocation gives back *)
(* one.  Only rd_init repairs it.                                          *)
(***************************************************************************)
THEOREM DriftIsNeverRepaired == Spec => DriftNeverRepaired
<1> DEFINE Drift(p) == p.num_empty - p.free_blocks
           Step == Drift(pool') <= Drift(pool) \/ pool' = InitialPool
<1>1. ASSUME IInv, Next PROVE Step
  <2>1. pool.num_empty \in Int /\ pool.free_blocks \in Int
    BY <1>1 DEF IInv, TypeOK, Pool
  <2>2. CASE Initialize
    BY <2>2 DEF Initialize
  <2>3. ASSUME NEW c \in Callers, Allocate(c) PROVE Step
    <3> DEFINE got == AllocateBlock(pool)
    <3>1. pool' = got.pool
      BY <2>3 DEF Allocate
    <3>2. CASE Refuses(pool, got)
      <4>1. /\ pool' \in Pool
            /\ pool'.free_blocks = pool.free_blocks
            /\ pool'.num_empty <= pool.num_empty
        BY <3>1, <3>2 DEF Refuses
      <4>. QED  BY <2>1, <4>1 DEF Pool
    <3>3. CASE Grants(pool, got)
      <4>1. /\ pool'.free_blocks = pool.free_blocks - 1
            /\ pool'.num_empty = pool.num_empty - 2
        BY <3>1, <3>3 DEF Grants
      <4>. QED  BY <2>1, <4>1
    <3>. QED  BY <1>1, <3>2, <3>3, AllocateCases
  <2>4. ASSUME NEW b \in Blocks, Deallocate(b) PROVE Step
    <3>1. /\ pool'.free_blocks = pool.free_blocks + 1
          /\ pool'.num_empty = pool.num_empty + 1
      BY <1>1, <2>4, DeallocateBlockResult DEF IInv, TypeOK, Deallocate
    <3>. QED  BY <2>1, <3>1
  <2>. QED  BY <1>1, <2>2, <2>3, <2>4 DEF Next
<1>2. ASSUME IInv, [Next]_vars PROVE [Step]_vars
  BY <1>1, <1>2
<1>. QED  BY <1>2, Inductive, PTL DEF Spec, DriftNeverRepaired

=============================================================================

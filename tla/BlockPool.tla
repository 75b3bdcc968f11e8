----------------------------- MODULE BlockPool -----------------------------
(***************************************************************************)
(* The block allocator of the RAM disk as pure operators: the free-block   *)
(* counter of superblock.c, the bitmap of bitmap.c and the two functions   *)
(* of ramdisk.c that combine them.  A pool is a record                     *)
(*                                                                         *)
(*   free_blocks   the counter in the superblock                           *)
(*   used          the set of bitmap indices whose bit is set              *)
(*   num_empty     the counter the bitmap keeps for itself                 *)
(*                                                                         *)
(* Bitmap index i stands for block i - OVERHEAD_BLOCKS of the data area;   *)
(* the first OVERHEAD_BLOCKS indices are the superblock, the inode table   *)
(* and the bitmap itself and are set once by _ramdisk_initialize.          *)
(***************************************************************************)
EXTENDS Integers, FiniteSets, FiniteSetsExt

CONSTANTS
  TOTAL_BLOCKS,     \* bits of the bitmap (8192 in defines.h)
  OVERHEAD_BLOCKS   \* bits reserved for the disk's own tables (261)

ASSUME PoolAssumption ==
  /\ TOTAL_BLOCKS \in Nat
  /\ OVERHEAD_BLOCKS \in Nat \ {0}
  /\ OVERHEAD_BLOCKS < TOTAL_BLOCKS - 1

FS_BLOCKS == TOTAL_BLOCKS - OVERHEAD_BLOCKS
Bits      == 0 .. TOTAL_BLOCKS - 1
Overhead  == 0 .. OVERHEAD_BLOCKS - 1

(* A block pointer is an index into the data area; NULL is the null pointer. *)
Blocks == 0 .. FS_BLOCKS - 1
NULL   == -1

Pool == [free_blocks : Int, used : SUBSET Bits, num_empty : Int]

(***************************************************************************)
(* superblock_initialize, bitmap_initialize and the loop of                *)
(* _ramdisk_initialize that marks the overhead.                            *)
(***************************************************************************)
InitialPool ==
  [free_blocks |-> TOTAL_BLOCKS - OVERHEAD_BLOCKS,
   used        |-> Overhead,
   num_empty   |-> TOTAL_BLOCKS - OVERHEAD_BLOCKS]

-----------------------------------------------------------------------------
(* Mutant: the scan goes up to the last bit. *)
BugScanned(used) == (0 .. TOTAL_BLOCKS - 1) \ used

(***************************************************************************)
(* bitmap_findemptyblockofsize(1, bitmap): the scan starts at 0 and wraps  *)
(* to 0 on reaching index TOTAL_BLOCKS - 1, which it therefore never       *)
(* looks at.  The first clear bit of the indices it does look at, or -1.   *)
(***************************************************************************)
Scanned(used) == (0 .. TOTAL_BLOCKS - 2) \ used

FindEmptyBlock(pool) ==
  IF pool.num_empty = 0 \/ Scanned(pool.used) = {}
  THEN -1
  ELSE Min(Scanned(pool.used))

(* Mutants: the bit of a scan that failed is set; the bit of the block     *)
(* given out is not.                                                       *)
BugGetOneBlockFailed(pool) ==
  LET index == FindEmptyBlock(pool) IN
  IF pool.num_empty = 0 THEN [index |-> -1, pool |-> pool]
  ELSE [index |-> index,
        pool  |-> [pool EXCEPT !.used = @ \cup {index}, !.num_empty = @ - 2]]

BugGetOneBlockUnset(pool) ==
  [index |-> FindEmptyBlock(pool),
   pool  |-> [pool EXCEPT !.num_empty = @ - 2]]

(***************************************************************************)
(* bitmap_get_one_block: bitmap_setatindex already counts the new block,   *)
(* and the function then decrements num_empty a second time.  When the     *)
(* scan fails, setatindex rejects index -1 and only the second decrement   *)
(* happens.                                                                *)
(***************************************************************************)
GetOneBlock(pool) ==
  LET index == FindEmptyBlock(pool)
      Marked(used, count) == [free_blocks |-> pool.free_blocks,
                              used        |-> used,
                              num_empty   |-> pool.num_empty - count]
  IN
  IF pool.num_empty = 0 THEN [index |-> -1, pool |-> pool]
  ELSE IF index < 0     THEN [index |-> -1, pool |-> Marked(pool.used, 1)]
  ELSE [index |-> index, pool |-> Marked(pool.used \cup {index}, 2)]

(* Mutants: the counter goes down before the index is known to be good; a  *)
(* first data block that is found is taken for a failure.                  *)
BugAllocateBlockCountsEarly(pool) ==
  LET got == GetOneBlock(pool)
      counted == [got.pool EXCEPT !.free_blocks = @ - 1]
  IN  IF pool.free_blocks = 0 THEN [block |-> NULL, pool |-> pool]
      ELSE [block |-> IF got.index < OVERHEAD_BLOCKS THEN NULL
                      ELSE got.index - OVERHEAD_BLOCKS,
            pool  |-> counted]

BugAllocateBlockOffByOne(pool) ==
  LET got == GetOneBlock(pool) IN
  IF pool.free_blocks = 0 \/ got.index <= OVERHEAD_BLOCKS
  THEN [block |-> NULL, pool |-> pool]
  ELSE [block |-> got.index - OVERHEAD_BLOCKS,
        pool  |-> [got.pool EXCEPT !.free_blocks = @ - 1]]

(***************************************************************************)
(* _ramdisk_allocate_block: the block it returns (or NULL) and the pool it *)
(* leaves, which differs from the one it found even when it returns NULL   *)
(* because the scan failed.                                                *)
(***************************************************************************)
AllocateBlock(pool) ==
  LET got == GetOneBlock(pool) IN
  IF pool.free_blocks = 0 THEN [block |-> NULL, pool |-> pool]
  ELSE IF got.index < OVERHEAD_BLOCKS
  THEN [block |-> NULL, pool |-> got.pool]
  ELSE [block |-> got.index - OVERHEAD_BLOCKS,
        pool  |-> [free_blocks |-> pool.free_blocks - 1,
                   used        |-> got.pool.used,
                   num_empty   |-> got.pool.num_empty]]

(* Mutants: the pointer is used as a bitmap index; the bitmap counts a     *)
(* block it gets back twice, as it does one it gives out.                  *)
BugDeallocateBlockIndex(pool, b) ==
  IF b \notin Blocks THEN pool
  ELSE [free_blocks |-> pool.free_blocks + 1,
        used        |-> pool.used \ {b},
        num_empty   |-> pool.num_empty + 1]

BugDeallocateBlockCount(pool, b) ==
  IF b \notin Blocks THEN pool
  ELSE [free_blocks |-> pool.free_blocks + 1,
        used        |-> pool.used \ {b + OVERHEAD_BLOCKS},
        num_empty   |-> pool.num_empty + 2]

(***************************************************************************)
(* _ramdisk_deallocate_block, with bitmap_removeatindex inside it: a       *)
(* pointer outside the data area (NULL included) is rejected; otherwise    *)
(* the bit is cleared and both counters go up by one, whether or not the   *)
(* bit was set.                                                            *)
(***************************************************************************)
DeallocateBlock(pool, b) ==
  IF b \notin Blocks THEN pool
  ELSE [free_blocks |-> pool.free_blocks + 1,
        used        |-> pool.used \ {b + OVERHEAD_BLOCKS},
        num_empty   |-> pool.num_empty + 1]

=============================================================================

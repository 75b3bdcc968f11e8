--------------------------- MODULE BlockAllocator ---------------------------
(***************************************************************************)
(* The block allocator as a state machine.  Callers (the inodes, in the    *)
(* file system) ask _ramdisk_allocate_block for blocks and give them back  *)
(* with _ramdisk_deallocate_block; rd_init throws everything away.         *)
(*                                                                         *)
(* owner records who was given which block: it is not in the code, which   *)
(* keeps no owners, and is what "allocated" means to the callers.          *)
(***************************************************************************)
EXTENDS BlockPool

CONSTANTS
  Callers,   \* who may hold blocks
  MaxDrift   \* bound of the model: how far num_empty may fall behind free_blocks

Nobody == "nobody"

ASSUME AllocatorAssumption ==
  /\ MaxDrift \in Nat
  /\ Nobody \notin Callers

VARIABLES
  pool,    \* the superblock's counter and the bitmap
  owner,   \* owner[b]: the caller that holds block b, or Nobody
  refused  \* the last step was an allocation that returned NULL

vars == <<pool, owner, refused>>

Held == {b \in Blocks : owner[b] # Nobody}

Init ==
  /\ pool = InitialPool
  /\ owner = [b \in Blocks |-> Nobody]
  /\ refused = FALSE

(* rd_init on a disk in use: every caller loses its blocks. *)
Initialize ==
  /\ pool' = InitialPool
  /\ owner' = [b \in Blocks |-> Nobody]
  /\ refused' = FALSE

Allocate(c) ==
  /\ pool.free_blocks - pool.num_empty < MaxDrift
  /\ LET got == AllocateBlock(pool) IN
       /\ pool' = got.pool
       /\ refused' = (got.block = NULL)
       /\ owner' = IF got.block = NULL THEN owner
                   ELSE [owner EXCEPT ![got.block] = c]

(* Callers give back what they hold, and follow no pointer after that. *)
Deallocate(b) ==
  /\ owner[b] # Nobody
  /\ pool' = DeallocateBlock(pool, b)
  /\ owner' = [owner EXCEPT ![b] = Nobody]
  /\ refused' = FALSE

Next ==
  \/ Initialize
  \/ \E c \in Callers : Allocate(c)
  \/ \E b \in Blocks : Deallocate(b)

Spec == Init /\ [][Next]_vars

-----------------------------------------------------------------------------
TypeOK ==
  /\ pool \in Pool
  /\ owner \in [Blocks -> Callers \cup {Nobody}]
  /\ refused \in BOOLEAN

(***************************************************************************)
(* The bitmap never disagrees with the callers: a bit is set exactly for   *)
(* the overhead and for the blocks somebody holds, so no block is lost and *)
(* none can be given out twice.                                            *)
(***************************************************************************)
BitmapExact ==
  pool.used = Overhead \cup {b + OVERHEAD_BLOCKS : b \in Held}

(***************************************************************************)
(* The superblock's counter, kept apart from the bitmap and updated in     *)
(* different functions, is the number of blocks nobody holds.              *)
(***************************************************************************)
FreeBlocksExact == pool.free_blocks = FS_BLOCKS - Cardinality(Held)

(***************************************************************************)
(* The scan never reaches the last bit, so the last block of the disk is   *)
(* never given to anyone: the disk is full with one block free, and        *)
(* free_blocks = 0, which _ramdisk_allocate_block tests first, never       *)
(* happens.                                                                *)
(***************************************************************************)
LastBlockNeverUsed ==
  /\ FS_BLOCKS - 1 \notin Held
  /\ pool.free_blocks >= 1

(***************************************************************************)
(* A refused allocation has one of two causes: every block the scan can    *)
(* reach is held, or num_empty has drifted to exactly zero.                *)
(***************************************************************************)
RefusalExplained ==
  refused => \/ Held = Blocks \ {FS_BLOCKS - 1}
             \/ pool.num_empty = 0

(***************************************************************************)
(* What the message "no more empty blocks" and the description of          *)
(* bitmap_findemptyblockofsize claim: an allocation is refused only when   *)
(* there is no empty block left (the unreachable last one apart).          *)
(***************************************************************************)
RefusedOnlyWhenFull == refused => Held = Blocks \ {FS_BLOCKS - 1}

(***************************************************************************)
(* No step takes a block from its holder and gives it to another: a block  *)
(* changes hands only by way of Nobody.                                    *)
(***************************************************************************)
NeverReassigned ==
  [][\A b \in Blocks : owner[b] # Nobody => owner'[b] \in {owner[b], Nobody}]_vars

(***************************************************************************)
(* num_empty drifts away from the true count and never back: only          *)
(* re-initialising the disk repairs it.                                    *)
(***************************************************************************)
DriftNeverRepaired ==
  [][\/ pool'.num_empty - pool'.free_blocks <= pool.num_empty - pool.free_blocks
     \/ pool' = InitialPool]_vars

=============================================================================

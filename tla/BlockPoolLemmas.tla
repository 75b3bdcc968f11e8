-------------------------- MODULE BlockPoolLemmas --------------------------
(***************************************************************************)
(* What the operators of BlockPool return, for every size of disk.         *)
(***************************************************************************)
EXTENDS BlockPool, WellFoundedInduction, TLAPS

(***************************************************************************)
(* A non-empty set of naturals has a least element, and Min is it.         *)
(***************************************************************************)
LEMMA MinIsLeast ==
  ASSUME NEW S \in SUBSET Nat, S # {}
  PROVE  Min(S) \in S /\ \A j \in S : Min(S) <= j
<1> DEFINE R == OpToRel(<, Nat)
<1>1. IsWellFoundedOn(R, Nat)
  BY NatLessThanWellFounded
<1> HIDE DEF R
<1>2. PICK i \in S : \A j \in S : ~ (<<j, i>> \in R)
  BY <1>1, WFMin
<1>3. \A j \in S : ~ (j < i)
  BY <1>2 DEF R, OpToRel
<1>4. \A j \in S : i <= j
  BY <1>3
<1>. QED  BY <1>4 DEF Min

(***************************************************************************)
(* The scan of bitmap_findemptyblockofsize returns a clear bit other than  *)
(* the last one, or -1 when the counter is zero or there is no such bit.   *)
(***************************************************************************)
LEMMA FindEmptyBlockResult ==
  ASSUME NEW p \in Pool
  PROVE  \/ FindEmptyBlock(p) \in Scanned(p.used)
         \/ FindEmptyBlock(p) = -1 /\ (p.num_empty = 0 \/ Scanned(p.used) = {})
<1>1. CASE p.num_empty = 0 \/ Scanned(p.used) = {}
  BY <1>1 DEF FindEmptyBlock
<1>2. CASE ~ (p.num_empty = 0 \/ Scanned(p.used) = {})
  <2>1. Scanned(p.used) \in SUBSET Nat
    BY PoolAssumption DEF Scanned
  <2>2. Min(Scanned(p.used)) \in Scanned(p.used)
    BY <1>2, <2>1, MinIsLeast
  <2>. QED  BY <1>2, <2>2 DEF FindEmptyBlock
<1>. QED  BY <1>1, <1>2

(***************************************************************************)
(* What an allocation can do while the overhead is marked as used.  Either *)
(* it refuses and changes at most num_empty, downwards, because the        *)
(* counter is zero or no bit it can reach is clear; or it returns a block  *)
(* other than the last whose bit was clear, and accounts for it.           *)
(***************************************************************************)
Refuses(p, got) ==
  /\ got.block = NULL
  /\ (p.num_empty = 0 /\ got.pool = p) \/ Scanned(p.used) = {}
  /\ got.pool \in Pool
  /\ got.pool.used = p.used
  /\ got.pool.free_blocks = p.free_blocks
  /\ got.pool.num_empty <= p.num_empty

Grants(p, got) ==
  /\ got.block \in Blocks \ {FS_BLOCKS - 1}
  /\ got.block + OVERHEAD_BLOCKS \notin p.used
  /\ got.pool \in Pool
  /\ got.pool.used = p.used \cup {got.block + OVERHEAD_BLOCKS}
  /\ got.pool.free_blocks = p.free_blocks - 1
  /\ got.pool.num_empty = p.num_empty - 2

LEMMA AllocateBlockResult ==
  ASSUME NEW p \in Pool, Overhead \subseteq p.used, p.free_blocks # 0
  PROVE  Refuses(p, AllocateBlock(p)) \/ Grants(p, AllocateBlock(p))
<1> DEFINE index == FindEmptyBlock(p)
<1>1. CASE p.num_empty = 0
  <2>1. GetOneBlock(p) = [index |-> -1, pool |-> p]
    BY <1>1 DEF GetOneBlock
  <2>2. AllocateBlock(p) = [block |-> NULL, pool |-> p]
    BY <2>1, PoolAssumption DEF AllocateBlock
  <2>. QED  BY <1>1, <2>2 DEF Refuses, Pool
<1>2. CASE p.num_empty # 0 /\ index = -1
  <2> DEFINE q == [free_blocks |-> p.free_blocks,
                   used        |-> p.used,
                   num_empty   |-> p.num_empty - 1]
  <2>1. GetOneBlock(p) = [index |-> -1, pool |-> q]
    BY <1>2 DEF GetOneBlock
  <2>2. AllocateBlock(p) = [block |-> NULL, pool |-> q]
    BY <2>1, PoolAssumption DEF AllocateBlock
  <2>3. Scanned(p.used) = {}
    <3>1. -1 \notin Scanned(p.used)
      BY DEF Scanned
    <3>. QED  BY <1>2, <3>1, FindEmptyBlockResult
  <2>. QED  BY <2>2, <2>3 DEF Refuses, Pool
<1>3. CASE p.num_empty # 0 /\ index # -1
  <2>1. index \in Scanned(p.used)
    BY <1>3, FindEmptyBlockResult
  <2>2. /\ index \in OVERHEAD_BLOCKS .. TOTAL_BLOCKS - 2
        /\ index \notin p.used
    BY <2>1, PoolAssumption DEF Scanned, Overhead
  <2> DEFINE q == [free_blocks |-> p.free_blocks,
                   used        |-> p.used \cup {index},
                   num_empty   |-> p.num_empty - 2]
             r == [free_blocks |-> p.free_blocks - 1,
                   used        |-> p.used \cup {index},
                   num_empty   |-> p.num_empty - 2]
  <2>3. GetOneBlock(p) = [index |-> index, pool |-> q]
    BY <1>3, <2>2, PoolAssumption DEF GetOneBlock
  <2>4. AllocateBlock(p) = [block |-> index - OVERHEAD_BLOCKS, pool |-> r]
    <3>1. /\ GetOneBlock(p).index = index
          /\ GetOneBlock(p).pool.used = p.used \cup {index}
          /\ GetOneBlock(p).pool.num_empty = p.num_empty - 2
      BY <2>3
    <3>2. ~ (index < OVERHEAD_BLOCKS)
      BY <2>2, PoolAssumption
    <3>. QED  BY <3>1, <3>2 DEF AllocateBlock
  <2>5. r \in Pool
    BY <2>2, PoolAssumption DEF Pool, Bits
  <2>6. /\ index - OVERHEAD_BLOCKS \in Blocks \ {FS_BLOCKS - 1}
        /\ (index - OVERHEAD_BLOCKS) + OVERHEAD_BLOCKS = index
    BY <2>2, PoolAssumption DEF Blocks, FS_BLOCKS
  <2> HIDE DEF index
  <2>. QED  BY <2>2, <2>4, <2>5, <2>6 DEF Grants
<1>. QED  BY <1>1, <1>2, <1>3

(***************************************************************************)
(* Giving a block back clears its bit and adds one to both counters.       *)
(***************************************************************************)
LEMMA DeallocateBlockResult ==
  ASSUME NEW p \in Pool, NEW b \in Blocks
  PROVE  /\ DeallocateBlock(p, b) \in Pool
         /\ DeallocateBlock(p, b).used = p.used \ {b + OVERHEAD_BLOCKS}
         /\ DeallocateBlock(p, b).free_blocks = p.free_blocks + 1
         /\ DeallocateBlock(p, b).num_empty = p.num_empty + 1
BY DEF DeallocateBlock, Pool

LEMMA InitialPoolResult ==
  /\ InitialPool \in Pool
  /\ InitialPool.used = Overhead
  /\ InitialPool.free_blocks = FS_BLOCKS
  /\ InitialPool.num_empty = FS_BLOCKS
<1>1. Overhead \subseteq Bits
  BY PoolAssumption DEF Overhead, Bits
<1>. QED  BY <1>1, PoolAssumption DEF InitialPool, Pool, FS_BLOCKS

=============================================================================

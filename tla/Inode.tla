------------------------------- MODULE Inode -------------------------------
(***************************************************************************)
(* The block tree of an inode (inode.c and the pointer tables of block.c)  *)
(* as operators on a RAM disk rd, a record with the fields                 *)
(*                                                                         *)
(*   pool         superblock counter and bitmap (BlockPool)                *)
(*   free_inodes  the superblock's other counter                           *)
(*   inodes       the inode table                                          *)
(*   data, ptrs   the data blocks, seen as cells and as tables of pointers *)
(*                                                                         *)
(* Sizes and offsets count cells of DIRECTORY_ENTRY_SIZE bytes: a cell of  *)
(* a directory is one entry, a cell of a file is that many bytes of it.    *)
(* Zero stands for a cell of zero bytes, which in a directory is a free    *)
(* entry.  A block is used either as cells or as pointers, so the two      *)
(* views are kept apart.                                                   *)
(***************************************************************************)
EXTENDS BlockPool, Sequences, SequencesExt

CONSTANTS
  INODES,           \* size of the inode table (1024)
  DIRECT_POINTERS,  \* IndexNodeDirectPointers (8); the other two kinds number 1
  BLOCK_PTRS,       \* BLOCK_PTRS_PER_STORAGE_BLOCK (64)
  BLOCK_CELLS,      \* DIRECTORY_ENTRIES_PER_BLOCK (16), cells of a data block
  Names,            \* names of files and directories
  Data              \* what a process may write to a cell

ASSUME InodeAssumption ==
  /\ INODES \in Nat \ {0}
  /\ DIRECT_POINTERS \in Nat \ {0}
  /\ BLOCK_PTRS \in Nat \ {0}
  /\ BLOCK_CELLS \in Nat \ {0, 1}

UNALLOCATED == "RAMDISK_UNALLOCATED"
FILE        == "RAMDISK_FILE"
DIR         == "RAMDISK_DIR"

Inums   == 0 .. INODES - 1
Ptr     == Blocks \cup {NULL}
Directs == 0 .. DIRECT_POINTERS - 1
Places  == 0 .. BLOCK_PTRS - 1
Offs    == 0 .. BLOCK_CELLS - 1

(***************************************************************************)
(* Cells: a directory entry or a file's bytes.  Fill is what block_fill    *)
(* writes; Stale is whatever is left in a block that is not allocated.     *)
(***************************************************************************)
DirEntry(name, inum) == [name |-> name, data |-> inum]
Bytes(v) == [name |-> "bytes", data |-> v]
Zero  == [name |-> "", data |-> 0]
Fill  == [name |-> "~", data |-> 0]
Stale == [name |-> "stale", data |-> 0]

Cells == {Zero, Fill, Stale} \cup {Bytes(v) : v \in Data}
         \cup {DirEntry(name, i) : name \in Names, i \in Inums}

ZeroCells == [o \in Offs |-> Zero]
NullPtrs  == [p \in Places |-> NULL]

(* r_inode_init *)
InitialInode ==
  [type     |-> UNALLOCATED,
   size     |-> 0,
   direct   |-> [k \in Directs |-> NULL],
   indirect |-> NULL,
   double   |-> NULL]

(* Division of C, which truncates towards zero. *)
TruncDiv(a, b) == IF a < 0 THEN -((-a) \div b) ELSE a \div b

(* The blocks whose bit is set *)
Allocated(rd) == {b \in Blocks : b + OVERHEAD_BLOCKS \in rd.pool.used}

-----------------------------------------------------------------------------
(* _ramdisk_allocate_block with the _null_out_block inside it *)
Granted(rd, got) ==
  [block |-> got.block,
   rd    |-> IF got.block = NULL THEN [rd EXCEPT !.pool = got.pool]
             ELSE [rd EXCEPT !.pool = got.pool,
                             !.data[got.block] = ZeroCells,
                             !.ptrs[got.block] = NullPtrs]]

Allocate(rd) == Granted(rd, AllocateBlock(rd.pool))

(* _ramdisk_deallocate_block leaves the contents, which nobody may trust. *)
Deallocate(rd, b) ==
  IF b \notin Blocks THEN rd
  ELSE [rd EXCEPT !.pool = DeallocateBlock(rd.pool, b),
                  !.data[b] = [o \in Offs |-> Stale],
                  !.ptrs[b] = NullPtrs]

(* block_at *)
BlockAt(rd, table, p) == IF table = NULL THEN NULL ELSE rd.ptrs[table][p]

(***************************************************************************)
(* add_block_to_indirect_storage: the first free place of the table, which *)
(* it returns; -1 without a table, BLOCK_PTRS when the table is full.      *)
(***************************************************************************)
AddToTable(rd, table, b) ==
  LET free == {p \in Places : rd.ptrs[table][p] = NULL} IN
  IF table = NULL   THEN [place |-> -1, rd |-> rd]
  ELSE IF free = {} THEN [place |-> BLOCK_PTRS, rd |-> rd]
  ELSE [place |-> Min(free), rd |-> [rd EXCEPT !.ptrs[table][Min(free)] = b]]

(* set_indirect_storage_block(table, p, NULL) *)
ClearPlace(rd, table, p) ==
  IF table = NULL \/ p \notin Places THEN rd
  ELSE [rd EXCEPT !.ptrs[table][p] = NULL]

(***************************************************************************)
(* Where block number k of a file is kept: in the inode, in the indirect   *)
(* table, or in table "table" of the double indirect one; past that range  *)
(* there is nothing.                                                       *)
(***************************************************************************)
Position(k) ==
  LET k1 == k - DIRECT_POINTERS
      k2 == k1 - BLOCK_PTRS
  IN  IF k1 < 0          THEN [kind |-> "direct", table |-> 0, place |-> k]
      ELSE IF k2 < 0     THEN [kind |-> "indirect", table |-> 0, place |-> k1]
      ELSE IF k2 < BLOCK_PTRS * BLOCK_PTRS
      THEN [kind |-> "double", table |-> k2 \div BLOCK_PTRS, place |-> k2 % BLOCK_PTRS]
      ELSE [kind |-> "none", table |-> 0, place |-> 0]

(* Mutant: the two indices into the double indirect table are swapped. *)
BugBlockIn(rd, node, pos) ==
  CASE pos.kind = "direct"   -> node.direct[pos.place]
    [] pos.kind = "indirect" -> BlockAt(rd, node.indirect, pos.place)
    [] pos.kind = "double"   ->
         BlockAt(rd, BlockAt(rd, node.double, pos.place), pos.table)
    [] pos.kind = "none"     -> NULL

(* inode_get_block_for_byte_index, for an address in cells *)
BlockIn(rd, node, pos) ==
  CASE pos.kind = "direct"   -> node.direct[pos.place]
    [] pos.kind = "indirect" -> BlockAt(rd, node.indirect, pos.place)
    [] pos.kind = "double"   ->
         BlockAt(rd, BlockAt(rd, node.double, pos.table), pos.place)
    [] pos.kind = "none"     -> NULL

GetBlock(rd, node, address) ==
  BlockIn(rd, node, Position(TruncDiv(address, BLOCK_CELLS)))

GetLastBlock(rd, node) == GetBlock(rd, node, node.size)

-----------------------------------------------------------------------------
(***************************************************************************)
(* inode_add_block.  The block it has just allocated goes to the place     *)
(* given by the size of the inode; if a pointer table is missing there,    *)
(* the block becomes the table and another one is allocated, and what was  *)
(* done stays done when that fails.  A block in hand and the disk it was   *)
(* taken from are a record got; the block is NULL if there was none.       *)
(***************************************************************************)
InHand(b, rd) == [block |-> b, rd |-> rd]

(* The block in hand goes into the indirect table, at no other place. *)
IntoIndirect(got, table, place) ==
  LET added == AddToTable(got.rd, table, got.block) IN
  IF got.block = NULL THEN got
  ELSE InHand(IF added.place = place THEN got.block ELSE NULL, added.rd)

(* Mutant: the block that became the table is also given out as data. *)
BugAddIndirect(rd, i, b, place) ==
  IntoIndirect(InHand(b, IF rd.inodes[i].indirect # NULL THEN rd
                         ELSE [rd EXCEPT !.inodes[i].indirect = b]),
               IF rd.inodes[i].indirect # NULL THEN rd.inodes[i].indirect ELSE b,
               place)

AddIndirect(rd, i, b, place) ==
  IF rd.inodes[i].indirect # NULL
  THEN IntoIndirect(InHand(b, rd), rd.inodes[i].indirect, place)
  ELSE IntoIndirect(Allocate([rd EXCEPT !.inodes[i].indirect = b]), b, place)

(* Into a table of the double indirect one, wherever there is a place. *)
IntoTable(got, table) ==
  IF got.block = NULL THEN got
  ELSE InHand(got.block, AddToTable(got.rd, table, got.block).rd)

(* The block in hand as a new table: of the double indirect one, and a     *)
(* block for it.                                                           *)
NewTable(rd, double, t) == IntoTable(Allocate(rd), BlockAt(rd, double, t))

(* Mutant: the block that became a table is also its first block. *)
BugIntoDouble(got, double, pos) ==
  LET rd == AddToTable(got.rd, double, got.block).rd IN
  IF got.block = NULL THEN got
  ELSE IF BlockAt(got.rd, double, pos.table) # NULL
  THEN IntoTable(got, BlockAt(got.rd, double, pos.table))
  ELSE IntoTable(InHand(got.block, rd), BlockAt(rd, double, pos.table))

IntoDouble(got, double, pos) ==
  IF got.block = NULL THEN got
  ELSE IF BlockAt(got.rd, double, pos.table) # NULL
  THEN IntoTable(got, BlockAt(got.rd, double, pos.table))
  ELSE NewTable(AddToTable(got.rd, double, got.block).rd, double, pos.table)

AddDouble(rd, i, b, pos) ==
  IF rd.inodes[i].double # NULL
  THEN IntoDouble(InHand(b, rd), rd.inodes[i].double, pos)
  ELSE IntoDouble(Allocate([rd EXCEPT !.inodes[i].double = b]), b, pos)

(* The block in hand goes where block pos of inode i belongs. *)
Attach(got, i, pos) ==
  IF got.block = NULL THEN got
  ELSE CASE pos.kind = "direct"   ->
              [got EXCEPT !.rd.inodes[i].direct[pos.place] = got.block]
         [] pos.kind = "indirect" -> AddIndirect(got.rd, i, got.block, pos.place)
         [] pos.kind = "double"   -> AddDouble(got.rd, i, got.block, pos)
         [] pos.kind = "none"     -> InHand(NULL, got.rd)

AddBlock(rd, i) ==
  Attach(Allocate(rd), i, Position(rd.inodes[i].size \div BLOCK_CELLS))

-----------------------------------------------------------------------------
(***************************************************************************)
(* inode_remove_block: the last block, with the pointer table it was the   *)
(* first of.  The double indirect table goes with any block under its      *)
(* first entry.                                                            *)
(***************************************************************************)
RemoveIndirect(rd, i, place) ==
  LET table == rd.inodes[i].indirect
      rd1   == ClearPlace(Deallocate(rd, BlockAt(rd, table, place)), table, place)
  IN  IF place # 0 THEN rd1
      ELSE [Deallocate(rd1, table) EXCEPT !.inodes[i].indirect = NULL]

RemoveDouble(rd, i, pos) ==
  LET double == rd.inodes[i].double
      table  == BlockAt(rd, double, pos.table)
      rd1    == ClearPlace(Deallocate(rd, BlockAt(rd, table, pos.place)), table, pos.place)
      rd2    == IF pos.place # 0 THEN rd1
                ELSE ClearPlace(Deallocate(rd1, table), double, pos.table)
  IN  IF table = NULL         THEN rd
      ELSE IF pos.table # 0   THEN rd2
      ELSE [Deallocate(rd2, double) EXCEPT !.inodes[i].double = NULL]

RemoveBlock(rd, i) ==
  LET pos == Position(TruncDiv(rd.inodes[i].size - 1, BLOCK_CELLS)) IN
  CASE pos.kind = "direct"   ->
         [Deallocate(rd, rd.inodes[i].direct[pos.place])
            EXCEPT !.inodes[i].direct[pos.place] = NULL]
    [] pos.kind = "indirect" -> RemoveIndirect(rd, i, pos.place)
    [] pos.kind = "double"   -> RemoveDouble(rd, i, pos)
    [] pos.kind = "none"     -> rd

(***************************************************************************)
(* inode_reduce_size: one block goes when the last cell and the last cell  *)
(* after the reduction are in different blocks.  With the division of C an *)
(* inode reduced to nothing keeps its first block.                         *)
(***************************************************************************)
ReduceSize(rd, i, reduce) ==
  LET node == rd.inodes[i]
      rd1  == IF GetBlock(rd, node, node.size - 1)
                   = GetBlock(rd, node, node.size - reduce - 1)
              THEN rd ELSE RemoveBlock(rd, i)
  IN  [rd1 EXCEPT !.inodes[i].size = @ - reduce]

(***************************************************************************)
(* inode_release: the blocks in the order they are given back.  Each loop  *)
(* stops at the first null pointer, and at a null pointer in the inode the *)
(* function returns.  The pointers themselves are left to the              *)
(* _ramdisk_deallocate_inode that always follows, and clears the inode.    *)
(***************************************************************************)
(* Mutant: the loops end one pointer early. *)
BugUpToNull(f, n) ==
  LET stop == Min({k \in 0 .. n - 1 : f[k] = NULL} \cup {n - 1})
  IN  [k \in 1 .. stop |-> f[k - 1]]

UpToNull(f, n) ==
  LET stop == Min({k \in 0 .. n - 1 : f[k] = NULL} \cup {n})
  IN  [k \in 1 .. stop |-> f[k - 1]]

(* Mutant: the blocks of a pointer table are given back, the table is not. *)
BugTableOrder(rd, table) == UpToNull(rd.ptrs[table], BLOCK_PTRS)

TableOrder(rd, table) == Append(UpToNull(rd.ptrs[table], BLOCK_PTRS), table)

DoubleOrder(rd, double) ==
  LET tables == UpToNull(rd.ptrs[double], BLOCK_PTRS)
  IN  Append(FlattenSeq([t \in 1 .. Len(tables) |-> TableOrder(rd, tables[t])]), double)

(* Mutant: the double indirect table is forgotten. *)
BugReleaseOrder(rd, node) ==
  LET direct == UpToNull(node.direct, DIRECT_POINTERS) IN
  IF Len(direct) < DIRECT_POINTERS \/ node.indirect = NULL
  THEN direct
  ELSE direct \o TableOrder(rd, node.indirect)

ReleaseOrder(rd, node) ==
  LET direct == UpToNull(node.direct, DIRECT_POINTERS) IN
  IF Len(direct) < DIRECT_POINTERS \/ node.indirect = NULL
  THEN direct
  ELSE direct \o TableOrder(rd, node.indirect)
              \o IF node.double = NULL THEN <<>> ELSE DoubleOrder(rd, node.double)

(* given[n] is the disk when the first n blocks of the order are given back. *)
GivenBack(rd, order) ==
  LET given[n \in 0 .. Len(order)] ==
        IF n = 0 THEN rd ELSE Deallocate(given[n - 1], order[n])
  IN  given

Release(rd, i) ==
  LET order == ReleaseOrder(rd, rd.inodes[i]) IN GivenBack(rd, order)[Len(order)]

=============================================================================

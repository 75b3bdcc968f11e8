----------------------------- MODULE Directory -----------------------------
(***************************************************************************)
(* Directories and path names: the entry functions of block.c, the inode   *)
(* table and the path functions of ramdisk.c, as operators on a RAM disk.  *)
(*                                                                         *)
(* A path name is the sequence of the names between its delimiters, after  *)
(* the leading one, empty names (NoName) included: "/" is <<NoName>>,      *)
(* "/a/b" is <<a, b>>, "/a/" is <<a, NoName>> and "//b" is <<NoName, b>>.  *)
(* <<>> stands for every path name that does not begin with a delimiter.   *)
(***************************************************************************)
EXTENDS Inode

NoName == Zero.name

ASSUME NameAssumption ==
  Names \cap {NoName, Bytes(0).name, Fill.name, Stale.name} = {}

(* A directory with an entry for each inode but the root needs no block of *)
(* the double indirect table (1023 entries, 72 blocks of 16).              *)
ASSUME DirectoryAssumption ==
  INODES - 1 <= (DIRECT_POINTERS + BLOCK_PTRS) * BLOCK_CELLS

Root == 0

(* _ramdisk_allocate_inode: the first inode that is not allocated. *)
AllocateInode(rd, type) ==
  LET free == {i \in Inums : rd.inodes[i].type = UNALLOCATED} IN
  IF rd.free_inodes = 0 \/ free = {} THEN [inum |-> -1, rd |-> rd]
  ELSE [inum |-> Min(free),
        rd   |-> [rd EXCEPT !.inodes[Min(free)].type = type,
                            !.free_inodes = @ - 1]]

(* Mutants: the pointers of the inode are left; the inode is not counted. *)
BugDeallocateInodePointers(rd, i) ==
  IF i \notin Inums \/ rd.inodes[i].type = UNALLOCATED THEN rd
  ELSE [rd EXCEPT !.inodes[i].type = UNALLOCATED, !.inodes[i].size = 0,
                  !.free_inodes = @ + 1]

BugDeallocateInodeCount(rd, i) ==
  IF i \notin Inums THEN rd ELSE [rd EXCEPT !.inodes[i] = InitialInode]

(* _ramdisk_deallocate_inode *)
DeallocateInode(rd, i) ==
  IF i \notin Inums \/ rd.inodes[i].type = UNALLOCATED THEN rd
  ELSE [rd EXCEPT !.inodes[i] = InitialInode, !.free_inodes = @ + 1]

-----------------------------------------------------------------------------
(***************************************************************************)
(* get_directory_inode_index: the entries of a block with the given name.  *)
(* The empty name is the name of every free entry.                         *)
(***************************************************************************)
EntriesNamed(rd, b, name) == {o \in Offs : rd.data[b][o].name = name}

(***************************************************************************)
(* _ramdisk_find_directory_entry goes through the blocks up to the size of *)
(* the directory, stopping at a null pointer or at the first match.        *)
(***************************************************************************)
NotFound == [inum |-> -1, block |-> NULL, off |-> 0]

EntryIn(rd, b, name) ==
  LET o == Min(EntriesNamed(rd, b, name)) IN
  IF b = NULL THEN NotFound
  ELSE [inum |-> rd.data[b][o].data, block |-> b, off |-> o]

FindEntry(rd, node, name) ==
  LET DirBlock(k) == GetBlock(rd, node, k * BLOCK_CELLS)
      stops == {k \in 0 .. node.size - 1 :
                  /\ k * BLOCK_CELLS < node.size
                  /\ \/ DirBlock(k) = NULL
                     \/ EntriesNamed(rd, DirBlock(k), name) # {}}
  IN  IF node.type # DIR \/ stops = {} THEN NotFound
      ELSE EntryIn(rd, DirBlock(Min(stops)), name)

(***************************************************************************)
(* add_directory_entry of block.c: the first free entry of the block.      *)
(***************************************************************************)
FreeEntries(rd, b) == {o \in Offs : rd.data[b][o] = Zero}

PutEntry(rd, b, name, inum) ==
  IF FreeEntries(rd, b) = {} THEN rd
  ELSE [rd EXCEPT !.data[b][Min(FreeEntries(rd, b))] = DirEntry(name, inum)]

(***************************************************************************)
(* _ramdisk_add_directory_entry: the new inode is allocated first, and     *)
(* stays allocated when the directory then cannot grow.  The entry goes    *)
(* into the last block, a new one if there is none or if it is full.       *)
(***************************************************************************)
LastOrNew(rd, parent) ==
  LET last == GetLastBlock(rd, rd.inodes[parent]) IN
  IF last = NULL THEN AddBlock(rd, parent) ELSE InHand(last, rd)

WithRoom(got, parent) ==
  IF got.block = NULL                          THEN got
  ELSE IF FreeEntries(got.rd, got.block) # {}  THEN got
  ELSE AddBlock(got.rd, parent)

Insert(got, parent, name, inum) ==
  IF got.block = NULL THEN [inum |-> -1, rd |-> got.rd]
  ELSE [inum |-> inum,
        rd   |-> [PutEntry(got.rd, got.block, name, inum)
                    EXCEPT !.inodes[parent].size = @ + 1]]

Grow(child, parent, name) ==
  Insert(WithRoom(LastOrNew(child.rd, parent), parent), parent, name, child.inum)

CannotAdd(rd, parent, name) ==
  \/ rd.inodes[parent].type # DIR
  \/ name = NoName
  \/ FindEntry(rd, rd.inodes[parent], name).inum # -1

(* Mutant: that no inode could be had is not noticed. *)
BugAddEntry(rd, parent, name, type) ==
  IF CannotAdd(rd, parent, name) THEN [inum |-> -1, rd |-> rd]
  ELSE Grow(AllocateInode(rd, type), parent, name)

AddEntry(rd, parent, name, type) ==
  IF CannotAdd(rd, parent, name) \/ AllocateInode(rd, type).inum < 0
  THEN [inum |-> -1, rd |-> rd]
  ELSE Grow(AllocateInode(rd, type), parent, name)

(* Mutants: the gap is left open; the last entry is cleared without having *)
(* been copied to the gap.                                                 *)
BugRemoveEntryGap(rd, parent, found) ==
  ReduceSize([rd EXCEPT !.data[found.block][found.off] = Zero], parent, 1)

BugRemoveEntryLast(rd, parent, found) ==
  LET node == rd.inodes[parent]
      lastBlock  == GetBlock(rd, node, node.size - 1)
      lastOffset == (node.size - 1) % BLOCK_CELLS
  IN  ReduceSize([rd EXCEPT !.data[lastBlock][lastOffset] = Zero], parent, 1)

(* Mutant: the place the last entry came from keeps it. *)
BugRemoveEntryStays(rd, parent, found) ==
  LET node == rd.inodes[parent]
      lastBlock  == GetBlock(rd, node, node.size - 1)
      lastOffset == (node.size - 1) % BLOCK_CELLS
  IN  ReduceSize([rd EXCEPT !.data[found.block][found.off] =
                              rd.data[lastBlock][lastOffset]], parent, 1)

(***************************************************************************)
(* The end of rd_unlink: the last entry of the directory is copied over    *)
(* the one at found, the place it came from is cleared, and the directory  *)
(* shrinks by one entry.                                                   *)
(***************************************************************************)
RemoveEntry(rd, parent, found) ==
  LET node == rd.inodes[parent]
      lastBlock  == GetBlock(rd, node, node.size - 1)
      lastOffset == (node.size - 1) % BLOCK_CELLS
      rd1 == [rd EXCEPT !.data[found.block][found.off] = rd.data[lastBlock][lastOffset]]
      rd2 == [rd1 EXCEPT !.data[lastBlock][lastOffset] = Zero]
  IN  ReduceSize(rd2, parent, 1)

-----------------------------------------------------------------------------
(***************************************************************************)
(* _ramdisk_walk_path: the inode a path name leads to, or -1.  Steps[n] is *)
(* where its first n names lead.                                           *)
(***************************************************************************)
NextInode(rd, inum, name) ==
  IF inum < 0 THEN inum ELSE FindEntry(rd, rd.inodes[inum], name).inum

Steps(rd, path) ==
  LET step[n \in 0 .. Len(path)] ==
        IF n = 0 THEN Root ELSE NextInode(rd, step[n - 1], path[n])
  IN  step

WalkPath(rd, path) ==
  IF path = <<>>             THEN -1
  ELSE IF path = <<NoName>>  THEN Root
  ELSE Steps(rd, path)[Len(path)]

(* _ramdisk_get_parent, whose other result is the last name of the path *)
GetParent(rd, path) ==
  IF path = <<>>          THEN -1
  ELSE IF Len(path) = 1   THEN Root
  ELSE WalkPath(rd, Front(path))

=============================================================================

------------------------------ MODULE Ramdisk ------------------------------
(***************************************************************************)
(* The RAM disk: the ten calls of ramdisk.c as actions on the disk (the    *)
(* global RAMDISK) and on the descriptor tables (the global fdtablea), by  *)
(* any of a set of processes, in any order.  Each call is one step: the    *)
(* ioctl entry point holds the module's mutex around the whole of it       *)
(* (KernelLock says when that is so).  ret is what the last call returned. *)
(*                                                                         *)
(* Behaviours start on an initialised disk.  Before the first RD_INIT      *)
(* RAMDISK is a null pointer, and no other call may be made.               *)
(***************************************************************************)
EXTENDS Directory

CONSTANTS
  Pids, NUM_TABLES, TABLE_SIZE,  \* of the descriptor tables
  Paths,        \* path names the processes use
  MkdirPaths,   \* those among them that rd_mkdir is called with
  Fds,          \* descriptor numbers they use
  ReadLens,     \* lengths, in cells, of the reads
  WriteLens,    \* and of the writes
  SeekOffsets,  \* where rd_seek may be told to go, in cells; -1 is the end
  MaxDrift      \* bound of the model: how far num_empty may fall behind

INSTANCE FdTable

ASSUME RamdiskAssumption ==
  /\ NoPid \notin Pids
  /\ NUM_TABLES \in Nat \ {0}
  /\ TABLE_SIZE \in Nat \ {0}
  /\ MkdirPaths \subseteq Paths
  /\ \A path \in Paths : path \in Seq(Names \cup {NoName})
  /\ Fds \subseteq Int
  /\ ReadLens \subseteq Nat
  /\ WriteLens \subseteq Nat
  /\ SeekOffsets \subseteq Int
  /\ MaxDrift \in Nat

VARIABLES
  RAMDISK,   \* the disk (see Inode)
  fdtablea,  \* the descriptor tables (see FdTable)
  ret        \* what the last call returned

vars == <<RAMDISK, fdtablea, ret>>

(* _ramdisk_initialize: an empty disk whose inode 0 is the root directory. *)
EmptyDisk ==
  LET rd == [pool        |-> InitialPool,
             free_inodes |-> INODES,
             inodes      |-> [i \in Inums |-> InitialInode],
             data        |-> [b \in Blocks |-> [o \in Offs |-> Stale]],
             ptrs        |-> [b \in Blocks |-> NullPtrs]]
  IN  AllocateInode(rd, DIR).rd

Init ==
  /\ RAMDISK = EmptyDisk
  /\ fdtablea = InitialTables
  /\ ret = 1

(* What a call does that only answers. *)
Answer(r) ==
  /\ ret' = r
  /\ UNCHANGED <<RAMDISK, fdtablea>>

(* The bound on the bitmap's drifting counter, for the calls that allocate. *)
DriftBound == RAMDISK.pool.free_blocks - RAMDISK.pool.num_empty < MaxDrift

-----------------------------------------------------------------------------
rd_init ==
  /\ RAMDISK' = EmptyDisk
  /\ fdtablea' = InitialTables
  /\ ret' = 1

rd_test == Answer(1)

(* rd_creat and rd_mkdir differ in the type of what they make. *)
Make(path, type) ==
  LET parent == GetParent(RAMDISK, path)
      made   == AddEntry(RAMDISK, parent, Last(path), type)
  IN  /\ DriftBound
      /\ IF parent < 0 THEN Answer(-1)
         ELSE /\ RAMDISK' = made.rd
              /\ ret' = IF made.inum >= 0 THEN 0 ELSE -1
              /\ UNCHANGED fdtablea

rd_creat(path) == Make(path, FILE)
rd_mkdir(path) == Make(path, DIR)

rd_open(pid, path) ==
  LET idx  == WalkPath(RAMDISK, path)
      made == CreateEntry(fdtablea, pid, idx)
  IN  IF idx < 0 THEN Answer(-1)
      ELSE /\ fdtablea' = made.tables
           /\ ret' = made.fd
           /\ UNCHANGED RAMDISK

rd_close(pid, fd) ==
  LET removed == RemoveAtFd(fdtablea, pid, fd) IN
  /\ fdtablea' = removed.tables
  /\ ret' = removed.ret
  /\ UNCHANGED RAMDISK

(* The inode and the position behind a descriptor, and the move of it that *)
(* ends a transfer (a descriptor that has an inode can be moved).          *)
InodeOf(pid, fd)    == InodeForFd(fdtablea, pid, fd)
PositionOf(pid, fd) == PositionForFd(fdtablea, pid, fd)
MoveTo(pid, fd, offset) == fdtablea' = SeekWithFd(fdtablea, pid, fd, offset).tables

(* The checks that rd_read, rd_write and rd_readdir begin with *)
Usable(pid, fd, type) ==
  /\ InodeOf(pid, fd) >= 0
  /\ PositionOf(pid, fd) >= 0
  /\ RAMDISK.inodes[InodeOf(pid, fd)].type = type

(***************************************************************************)
(* rd_read: up to the end of the file, but not at all if one of the blocks *)
(* on the way is missing.                                                  *)
(***************************************************************************)
Lesser(m, n) == IF m < n THEN m ELSE n
(* Mutant: every write sets the size to where it ends. *)
BugGreater(m, n) == n

Greater(m, n) == IF m < n THEN n ELSE m

rd_read(pid, fd, num_bytes) ==
  LET node  == RAMDISK.inodes[InodeOf(pid, fd)]
      pos   == PositionOf(pid, fd)
      total == Lesser(num_bytes, node.size - pos)
      holes == {p \in pos .. pos + total - 1 : GetBlock(RAMDISK, node, p) = NULL}
  IN  IF ~Usable(pid, fd, FILE)   THEN Answer(-1)
      ELSE IF pos >= node.size    THEN Answer(0)
      ELSE IF holes # {}          THEN Answer(-1)
      ELSE /\ MoveTo(pid, fd, pos + total)
           /\ ret' = total
           /\ UNCHANGED RAMDISK

(***************************************************************************)
(* One turn of the loop of rd_write, for a process that writes value v to  *)
(* inode i.  A missing block is added where the size of the file says,     *)
(* whatever the position.  The record w is the disk, the position, the     *)
(* cells still to write and whether the loop was left for want of a block. *)
(***************************************************************************)
WriteChunk(w, i, v) ==
  LET found == GetBlock(w.rd, w.rd.inodes[i], w.pos)
      got   == IF found = NULL THEN AddBlock(w.rd, i)
               ELSE [block |-> found, rd |-> w.rd]
      off   == w.pos % BLOCK_CELLS
      n     == Lesser(w.left, BLOCK_CELLS - off)
      Old(o) == IF found = NULL THEN Fill ELSE w.rd.data[found][o]
      cells == [o \in Offs |-> IF o \in off .. off + n - 1 THEN Bytes(v) ELSE Old(o)]
  IN  IF got.block = NULL
      THEN [w EXCEPT !.rd = got.rd, !.failed = TRUE]
      ELSE [rd     |-> [got.rd EXCEPT !.data[got.block] = cells,
                                      !.inodes[i].size  = Greater(@, w.pos + n)],
            pos    |-> w.pos + n,
            left   |-> w.left - n,
            failed |-> FALSE]

(* The turns end when all is written or a block could not be had. *)
Turn(w, i, v) == IF w.left = 0 \/ w.failed THEN w ELSE WriteChunk(w, i, v)

Turns(rd, i, pos, num_bytes, v) ==
  LET turn[n \in 0 .. num_bytes] ==
        IF n = 0 THEN [rd |-> rd, pos |-> pos, left |-> num_bytes, failed |-> FALSE]
        ELSE Turn(turn[n - 1], i, v)
  IN  turn

Write(rd, i, pos, num_bytes, v) == Turns(rd, i, pos, num_bytes, v)[num_bytes]

(***************************************************************************)
(* rd_write.  When a block cannot be had in the middle of a write, what    *)
(* was written stays, in a file that has grown, but the call answers -1    *)
(* and the descriptor does not move.                                       *)
(***************************************************************************)
rd_write(pid, fd, num_bytes, v) ==
  LET w == Write(RAMDISK, InodeOf(pid, fd), PositionOf(pid, fd), num_bytes, v) IN
  /\ DriftBound
  /\ IF ~Usable(pid, fd, FILE) THEN Answer(-1)
     ELSE /\ RAMDISK' = w.rd
          /\ IF w.failed
             THEN /\ ret' = -1
                  /\ UNCHANGED fdtablea
             ELSE /\ ret' = num_bytes
                  /\ MoveTo(pid, fd, w.pos)

(***************************************************************************)
(* rd_seek answers 0 whatever happens and takes any offset.  -1 means the  *)
(* end of the file; on a descriptor that is not open the size is then read *)
(* in front of the inode table and may be anything.                        *)
(***************************************************************************)
Target(pid, fd, offset) ==
  IF offset # -1 THEN {offset}
  ELSE IF InodeOf(pid, fd) >= 0 THEN {RAMDISK.inodes[InodeOf(pid, fd)].size}
  ELSE SeekOffsets

rd_seek(pid, fd, offset) ==
  /\ \E target \in Target(pid, fd, offset) : MoveTo(pid, fd, target)
  /\ ret' = 0
  /\ UNCHANGED RAMDISK

(* Mutants: open descriptors are ignored; the inode is not deallocated. *)
BugUnlink(path, minds_open, frees) ==
  LET idx    == WalkPath(RAMDISK, path)
      parent == GetParent(RAMDISK, path)
      found  == FindEntry(RAMDISK, RAMDISK.inodes[parent], Last(path))
      item   == RAMDISK.inodes[found.inum]
      empty  == Release(RAMDISK, found.inum)
      freed  == IF frees THEN DeallocateInode(empty, found.inum) ELSE empty
  IN  IF \/ minds_open /\ CheckForInode(fdtablea, idx) = 1
         \/ parent < 0
         \/ found.inum < 0
         \/ item.type = DIR /\ item.size > 0
      THEN Answer(-1)
      ELSE /\ RAMDISK' = RemoveEntry(freed, parent, found)
           /\ ret' = 0
           /\ UNCHANGED fdtablea

BugUnlinkOpen(path) == BugUnlink(path, FALSE, TRUE)
BugUnlinkKeeps(path) == BugUnlink(path, TRUE, FALSE)

(***************************************************************************)
(* rd_unlink: refused while any process, the caller included, has the      *)
(* inode the path leads to open, and for a directory that is not empty.    *)
(* The item removed is looked up again, by its last name in the parent.    *)
(***************************************************************************)
rd_unlink(path) ==
  LET idx    == WalkPath(RAMDISK, path)
      parent == GetParent(RAMDISK, path)
      found  == FindEntry(RAMDISK, RAMDISK.inodes[parent], Last(path))
      item   == RAMDISK.inodes[found.inum]
      freed  == DeallocateInode(Release(RAMDISK, found.inum), found.inum)
  IN  IF \/ CheckForInode(fdtablea, idx) = 1
         \/ parent < 0
         \/ found.inum < 0
         \/ item.type = DIR /\ item.size > 0
      THEN Answer(-1)
      ELSE /\ RAMDISK' = RemoveEntry(freed, parent, found)
           /\ ret' = 0
           /\ UNCHANGED fdtablea

(***************************************************************************)
(* rd_readdir: the end of the directory is recognised only by a position   *)
(* equal to its size.                                                      *)
(***************************************************************************)
rd_readdir(pid, fd) ==
  LET node == RAMDISK.inodes[InodeOf(pid, fd)]
      pos  == PositionOf(pid, fd)
  IN  IF ~Usable(pid, fd, DIR)                    THEN Answer(-1)
      ELSE IF pos = node.size                     THEN Answer(0)
      ELSE IF GetBlock(RAMDISK, node, pos) = NULL THEN Answer(-1)
      ELSE /\ MoveTo(pid, fd, pos + 1)
           /\ ret' = 1
           /\ UNCHANGED RAMDISK

Next ==
  \/ rd_init
  \/ rd_test
  \/ \E path \in Paths : rd_creat(path)
  \/ \E path \in MkdirPaths : rd_mkdir(path)
  \/ \E path \in Paths : rd_unlink(path)
  \/ \E pid \in Pids, path \in Paths : rd_open(pid, path)
  \/ \E pid \in Pids, fd \in Fds : rd_close(pid, fd)
  \/ \E pid \in Pids, fd \in Fds : rd_readdir(pid, fd)
  \/ \E pid \in Pids, fd \in Fds, offset \in SeekOffsets : rd_seek(pid, fd, offset)
  \/ \E pid \in Pids, fd \in Fds, n \in ReadLens : rd_read(pid, fd, n)
  \/ \E pid \in Pids, fd \in Fds, n \in WriteLens, v \in Data : rd_write(pid, fd, n, v)

Spec == Init /\ [][Next]_vars

-----------------------------------------------------------------------------
TypeOK ==
  /\ RAMDISK.pool \in Pool
  /\ RAMDISK.free_inodes \in Int
  /\ RAMDISK.inodes \in
       [Inums -> [type : {UNALLOCATED, FILE, DIR}, size : Nat,
                  direct : [Directs -> Ptr], indirect : Ptr, double : Ptr]]
  /\ RAMDISK.data \in [Blocks -> [Offs -> Cells]]
  /\ RAMDISK.ptrs \in [Blocks -> [Places -> Ptr]]
  /\ fdtablea \in FdTableArray
  /\ ret \in Int

-----------------------------------------------------------------------------
(* Blocks: who points at them. *)

TablesOf(rd, i) ==
  LET double == rd.inodes[i].double IN
  ({rd.inodes[i].indirect, double}
     \cup IF double = NULL THEN {} ELSE Range(rd.ptrs[double])) \ {NULL}

(* Every pointer in an inode or in the pointer tables it leads to *)
Pointers(rd) ==
  LET tables == UNION {TablesOf(rd, i) : i \in Inums}
      all == {<<"direct", i, k, rd.inodes[i].direct[k]>> : i \in Inums, k \in Directs}
        \cup {<<"indirect", i, 0, rd.inodes[i].indirect>> : i \in Inums}
        \cup {<<"double", i, 0, rd.inodes[i].double>> : i \in Inums}
        \cup {<<"table", t, p, rd.ptrs[t][p]>> : t \in tables, p \in Places}
  IN  {x \in all : x[4] # NULL}

InTrees(rd) == {x[4] : x \in Pointers(rd)}

(* Blocks taken from the bitmap that nothing leads to any more. *)
Lost(rd) == Allocated(rd) \ InTrees(rd)

(***************************************************************************)
(* No block has two places in the trees of the inodes: not in two files,   *)
(* not twice in one, not as data and as a pointer table; and every block   *)
(* in a tree is allocated, so that the bitmap will not give it out again.  *)
(***************************************************************************)
BlocksHaveOnePlace ==
  /\ \A x, y \in Pointers(RAMDISK) : x[4] = y[4] => x = y
  /\ InTrees(RAMDISK) \subseteq Allocated(RAMDISK)

(***************************************************************************)
(* The two counters of the superblock, updated far from the tables they    *)
(* count, are exact.                                                       *)
(***************************************************************************)
CountersExact ==
  /\ RAMDISK.pool.free_blocks = FS_BLOCKS - Cardinality(Allocated(RAMDISK))
  /\ RAMDISK.free_inodes
       = Cardinality({i \in Inums : RAMDISK.inodes[i].type = UNALLOCATED})

(* A block is missing below the size of the inode. *)
HasHole(rd, i) ==
  LET node == rd.inodes[i] IN \E p \in 0 .. node.size - 1 : GetBlock(rd, node, p) = NULL

(* Cells of the largest file: every pointer of an inode and its tables used *)
MaxFile == (DIRECT_POINTERS + BLOCK_PTRS + BLOCK_PTRS * BLOCK_PTRS) * BLOCK_CELLS

(* A step in which a process writes from beyond the end of a file, or past *)
(* what a file can hold                                                    *)
WritesOutside ==
  \E pid \in Pids, fd \in Fds, n \in WriteLens, v \in Data :
    /\ Usable(pid, fd, FILE)
    /\ \/ PositionOf(pid, fd) > RAMDISK.inodes[InodeOf(pid, fd)].size
       \/ PositionOf(pid, fd) + n > MaxFile
    /\ rd_write(pid, fd, n, v)

(***************************************************************************)
(* A pointer table that was attached when the direct pointers were all in  *)
(* use, and for which there then was no block, is behind a null pointer    *)
(* once the directory has shrunk: it is stranded there.                    *)
(***************************************************************************)
Stranded(rd, i) ==
  /\ \E k \in Directs : rd.inodes[i].direct[k] = NULL
  /\ rd.inodes[i].indirect # NULL \/ rd.inodes[i].double # NULL

UnlinksStranded ==
  \E path \in Paths, i \in Inums :
    Stranded(RAMDISK, i) /\ rd_unlink(path) /\ RAMDISK'.inodes[i].type = UNALLOCATED

(***************************************************************************)
(* What inode_release takes for granted at the first null direct pointer,  *)
(* "if it's in the direct pointers, you are done": an inode that is        *)
(* unlinked has nothing behind one.                                        *)
(***************************************************************************)
NothingBehindNull == [][~UnlinksStranded]_RAMDISK

(***************************************************************************)
(* A block gets lost only in a write that begins beyond the end of a file, *)
(* or after one left a hole, or that goes past the largest size, and when  *)
(* a directory goes that has a stranded table: creating, growing,          *)
(* shrinking and removing files and directories otherwise keep track of    *)
(* every block, also when they fail half way for want of blocks.           *)
(***************************************************************************)
LostOnlyOutside ==
  [][\/ Lost(RAMDISK') \subseteq Lost(RAMDISK)
     \/ \E i \in Inums : HasHole(RAMDISK, i)
     \/ WritesOutside
     \/ UnlinksStranded]_RAMDISK

(***************************************************************************)
(* inode_add_block assumes (its own comment) that blocks are added only at *)
(* the end of the file, so that a file's blocks are those below its size.  *)
(* rd_seek lets a process write beyond the end and break this.             *)
(***************************************************************************)
FilesAreContiguous == \A i \in Inums : ~HasHole(RAMDISK, i)

-----------------------------------------------------------------------------
(* Directories. *)

Cell(rd, i, p) ==
  LET b == GetBlock(rd, rd.inodes[i], p) IN
  IF b = NULL THEN Stale ELSE rd.data[b][p % BLOCK_CELLS]

Directories(rd) == {i \in Inums : rd.inodes[i].type = DIR}

(* <<directory, position>> of every entry *)
EntryPlaces(rd) ==
  {x \in Directories(rd) \X (0 .. INODES - 1) : x[2] < rd.inodes[x[1]].size}

EntryAt(rd, x) == Cell(rd, x[1], x[2])

(***************************************************************************)
(* The inodes a path without empty names can lead to: the least set with   *)
(* the root that has, with a directory, all that its entries lead to.      *)
(***************************************************************************)
Links(rd) == {<<x[1], EntryAt(rd, x).data>> : x \in EntryPlaces(rd)}

ClosedUnder(links) ==
  {known \in SUBSET Inums :
     Root \in known /\ \A l \in links : l[1] \in known => l[2] \in known}

Reachable(rd) ==
  LET closed == ClosedUnder(Links(rd)) IN {i \in Inums : \A known \in closed : i \in known}

(***************************************************************************)
(* A directory of size n is n entries in a row with different names, and   *)
(* nothing but free entries up to the end of its last block: rd_unlink     *)
(* fills the gap it makes, and rd_creat looks for a free entry only in the *)
(* last block.                                                             *)
(***************************************************************************)
DirectoriesCompact ==
  \A d \in Directories(RAMDISK) :
    LET size == RAMDISK.inodes[d].size IN
    /\ \A p \in 0 .. size - 1 : Cell(RAMDISK, d, p).name \in Names
    /\ \A p, q \in 0 .. size - 1 :
         Cell(RAMDISK, d, p).name = Cell(RAMDISK, d, q).name => p = q
    /\ \A p \in size .. size + (-size % BLOCK_CELLS) - 1 : Cell(RAMDISK, d, p) = Zero

(***************************************************************************)
(* Every entry leads to an allocated inode other than the root, no two to  *)
(* the same one, and every directory that holds an entry can be reached    *)
(* from the root: the directories are a tree.                              *)
(***************************************************************************)
DirectoryTree ==
  /\ \A x \in EntryPlaces(RAMDISK) :
       /\ EntryAt(RAMDISK, x).data \in Inums \ {Root}
       /\ RAMDISK.inodes[EntryAt(RAMDISK, x).data].type # UNALLOCATED
  /\ {x[1] : x \in EntryPlaces(RAMDISK)} \subseteq Reachable(RAMDISK)
  /\ \A x, y \in EntryPlaces(RAMDISK) :
       EntryAt(RAMDISK, x).data = EntryAt(RAMDISK, y).data => x = y

(* Inodes that are allocated and that no directory entry leads to. *)
Orphans(rd) ==
  {i \in Inums \ {Root} : rd.inodes[i].type # UNALLOCATED}
    \ {EntryAt(rd, x).data : x \in EntryPlaces(rd)}

(***************************************************************************)
(* An inode is orphaned only by a call that makes a file or a directory    *)
(* and fails for want of a block after it took the inode; every other call *)
(* leaves each inode it allocates, or does not free, in some directory.    *)
(***************************************************************************)
OrphansOnlyFromFailedCreation ==
  [][Orphans(RAMDISK') \subseteq Orphans(RAMDISK)
     \/ \E path \in Paths : (rd_creat(path) \/ rd_mkdir(path)) /\ ret' = -1]_RAMDISK

-----------------------------------------------------------------------------
(* Descriptors. *)

InUse(a, t, s) == a[t].table[s].being_used = 1
AllInUse(a) == \A t \in Tables, s \in Slots : InUse(a, t, s)

(***************************************************************************)
(* An inode with a descriptor open on it keeps its type: it is not freed   *)
(* under its readers, and so not given to another file.  rd_unlink finds   *)
(* the inode twice, and when the first search fails it is the unused       *)
(* entries, whose inode number is also -1, that make it give up: with      *)
(* every entry of every table in use nothing does.                         *)
(***************************************************************************)
OpenInodesKept ==
  [][\A t \in Tables, s \in Slots :
       LET i == fdtablea[t].table[s].inode_num IN
       \/ ~InUse(fdtablea, t, s)
       \/ RAMDISK.inodes[i].type \in {UNALLOCATED, RAMDISK'.inodes[i].type}
       \/ ~InUse(fdtablea', t, s)
       \/ AllInUse(fdtablea)]_RAMDISK

-----------------------------------------------------------------------------
(* Files. *)

Contents(rd, i) == [p \in 0 .. rd.inodes[i].size - 1 |-> Cell(rd, i, p)]

(***************************************************************************)
(* A write that begins within a file without holes puts its cells where    *)
(* the descriptor stands and leaves every other cell alone, whatever       *)
(* blocks and pointer tables it had to add; one that fails does so for a   *)
(* prefix of its cells, and only a write that succeeds moves the           *)
(* descriptor.                                                             *)
(***************************************************************************)
Written(old, pos, n, v) ==
  [p \in DOMAIN old \cup pos .. pos + n - 1 |->
     IF p \in pos .. pos + n - 1 THEN Bytes(v) ELSE old[p]]

WritesExact ==
  [][\A pid \in Pids, fd \in Fds, n \in WriteLens, v \in Data :
       LET i   == InodeOf(pid, fd)
           pos == PositionOf(pid, fd)
           old == Contents(RAMDISK, i)
           Done(k) == Contents(RAMDISK', i)
                        = IF k = 0 THEN old ELSE Written(old, pos, k, v)
       IN  (/\ ret' \in {n, -1}
            /\ Usable(pid, fd, FILE)
            /\ pos <= RAMDISK.inodes[i].size
            /\ ~HasHole(RAMDISK, i)
            /\ rd_write(pid, fd, n, v))
           => \/ ret' = n /\ Done(n) /\ PositionForFd(fdtablea', pid, fd) = pos + n
              \/ /\ ret' = -1 /\ (\E k \in 0 .. n - 1 : Done(k))
                 /\ UNCHANGED fdtablea]_vars

=============================================================================

--------------------------- MODULE RamdiskProofs ---------------------------
(***************************************************************************)
(* Every call on the RAM disk keeps the disk in order.                     *)
(*                                                                         *)
(* The invariant is inductive because of what its parts give each other:   *)
(* an inode's block tree can be released since no block has two places in  *)
(* the trees (InodeLemmas); an entry is found since the names of a         *)
(* directory are in a row and differ (DirectoryLemmas); a new entry has    *)
(* room since the directories are a tree, which bounds their sizes by the  *)
(* number of inodes (TreeRoom below); and what rd_unlink frees is in no    *)
(* other entry, for the same reason.                                       *)
(*                                                                         *)
(* What a write does to the cells of a file, and that calls do not lose    *)
(* blocks, follows from that and from the shapes of the block trees, which *)
(* are kept by every call as well (ShapesHold).                            *)
(***************************************************************************)
EXTENDS Ramdisk, DirectoryLemmas

(***************************************************************************)
(* Descriptors.  An entry in use holds an inode number, any other holds    *)
(* none.                                                                   *)
(***************************************************************************)
GoodEntry(e) ==
  /\ e \in Entry
  /\ IF e.being_used = 1 THEN e.inode_num \in Inums ELSE e.inode_num = NoInode

Held(a) ==
  /\ a \in FdTableArray
  /\ \A t \in Tables, s \in Slots : GoodEntry(a[t].table[s])

(* The types of what an entry of a descriptor table holds *)
LEMMA FdTypes ==
  ASSUME NEW a \in FdTableArray, NEW t \in Tables
  PROVE  /\ a[t].pid \in Pids \cup {NoPid} /\ a[t].table \in [Slots -> Entry]
         /\ \A s \in Slots : /\ a[t].table[s] \in Entry
                             /\ a[t].table[s].being_used \in {0, 1}
                             /\ a[t].table[s].inode_num \in Int
                             /\ a[t].table[s].offset \in Int
BY DEF FdTableArray, Entry

(* A table whose entries are good replaces another. *)
LEMMA StoreHeld ==
  ASSUME NEW a, Held(a), NEW t \in Tables, NEW pid \in Pids,
         NEW table \in [Slots -> Entry], \A s \in Slots : GoodEntry(table[s])
  PROVE  Held(Store(a, t, pid, table))
<1> DEFINE e == Store(a, t, pid, table)
<1>1. a \in FdTableArray
  BY DEF Held
<1>2. e \in FdTableArray
  BY <1>1 DEF FdTableArray, Store
<1>3. \A u \in Tables : e[u].table = IF u = t THEN table ELSE a[u].table
  BY <1>1 DEF FdTableArray, Store
<1> HIDE DEF e
<1>4. Held(e)
  BY <1>2, <1>3 DEF Held
<1>. QED  BY <1>4 DEF e

(* The table that a process finds is its own. *)
LEMMA OwnedTable ==
  ASSUME NEW a, Held(a), NEW pid, HasTable(a, pid)
  PROVE  /\ Min(OwnedBy(a, pid)) \in Tables
         /\ a[Min(OwnedBy(a, pid))].pid = pid
         /\ TableOf(a, pid) = a[Min(OwnedBy(a, pid))].table
         /\ TableOf(a, pid) \in [Slots -> Entry]
         /\ \A s \in Slots : GoodEntry(TableOf(a, pid)[s])
<1>1. OwnedBy(a, pid) \in SUBSET Nat /\ OwnedBy(a, pid) # {}
  BY RamdiskAssumption DEF HasTable, OwnedBy, Tables
<1>2. Min(OwnedBy(a, pid)) \in OwnedBy(a, pid)
  BY <1>1, MinIsLeast
<1>3. Min(OwnedBy(a, pid)) \in Tables /\ a[Min(OwnedBy(a, pid))].pid = pid
  BY <1>2 DEF OwnedBy
<1>. QED  BY <1>3, FdTypes DEF TableOf, Held

(* An entry of the caller's own table is replaced. *)
LEMMA UpdateHeld ==
  ASSUME NEW a, Held(a), NEW pid \in Pids, HasTable(a, pid), NEW fd \in Slots,
         NEW e, GoodEntry(e)
  PROVE  Held(Update(a, pid, [TableOf(a, pid) EXCEPT ![fd] = e]))
<1> DEFINE old == TableOf(a, pid)
           new == [old EXCEPT ![fd] = e]
<1>1. old \in [Slots -> Entry] /\ \A s \in Slots : GoodEntry(old[s])
  BY OwnedTable
<1> HIDE DEF old
<1>2. new \in [Slots -> Entry] /\ \A s \in Slots : GoodEntry(new[s])
  BY <1>1 DEF GoodEntry
<1> HIDE DEF new
<1>3. Held(Update(a, pid, new))
  BY <1>2, OwnedTable, StoreHeld DEF Update
<1>. QED  BY <1>3 DEF new, old

(* An entry that is not in use is good. *)
LEMMA UnusedGood == GoodEntry(UnusedEntry)
BY DEF GoodEntry, UnusedEntry, Entry, NoInode

(* Moving a descriptor keeps the tables. *)
LEMMA SeekHeld ==
  ASSUME NEW a, Held(a), NEW pid \in Pids, NEW fd, NEW offset \in Int
  PROVE  Held(SeekWithFd(a, pid, fd, offset).tables)
<1> DEFINE old == TableOf(a, pid)[fd]
<1>1. CASE ~ CanSeek(a, pid, fd)
  BY <1>1 DEF SeekWithFd
<1>2. CASE CanSeek(a, pid, fd)
  <2>1. HasTable(a, pid) /\ fd \in Slots
    BY <1>2 DEF CanSeek
  <2>2. GoodEntry(old)
    BY <2>1, OwnedTable
  <2>3. GoodEntry(SeekEntry(old, offset))
    BY <2>2 DEF GoodEntry, SeekEntry, Entry
  <2> HIDE DEF old
  <2>4. Held(Update(a, pid, [TableOf(a, pid) EXCEPT ![fd] = SeekEntry(old, offset)]))
    BY <2>1, <2>3, UpdateHeld
  <2>. QED  BY <1>2, <2>4 DEF SeekWithFd, old
<1>. QED  BY <1>1, <1>2

(* Closing a descriptor keeps the tables, also when there is none. *)
LEMMA RemoveHeld ==
  ASSUME NEW a, Held(a), NEW pid \in Pids, NEW fd
  PROVE  Held(RemoveAtFd(a, pid, fd).tables) /\ RemoveAtFd(a, pid, fd).ret \in Int
<1>1. CASE ~ HasTable(a, pid) \/ fd \notin Slots \/ TableOf(a, pid)[fd].being_used # 1
  BY <1>1 DEF RemoveAtFd
<1>2. CASE ~ (~ HasTable(a, pid) \/ fd \notin Slots \/ TableOf(a, pid)[fd].being_used # 1)
  <2>1. Held(Update(a, pid, [TableOf(a, pid) EXCEPT ![fd] = UnusedEntry]))
    BY <1>2, UnusedGood, UpdateHeld
  <2>. QED  BY <1>2, <2>1 DEF RemoveAtFd
<1>. QED  BY <1>1, <1>2

(* Opening a descriptor on an inode keeps the tables, also when they are full. *)
LEMMA CreateHeld ==
  ASSUME NEW a, Held(a), NEW pid \in Pids, NEW i \in Inums
  PROVE  Held(CreateEntry(a, pid, i).tables) /\ CreateEntry(a, pid, i).fd \in Int
<1> DEFINE owner == IF HasTable(a, pid) THEN pid ELSE NoPid
           t == Min(OwnedBy(a, owner))
           table == a[t].table
           fd == Min(Unused(table))
           made == [being_used |-> 1, inode_num |-> i, offset |-> 0]
           new == [table EXCEPT ![fd] = made]
<1>1. CASE ~ HasTable(a, pid) /\ ~ HasTable(a, NoPid)
  BY <1>1 DEF CreateEntry
<1>2. CASE ~ (~ HasTable(a, pid) /\ ~ HasTable(a, NoPid))
  <2>1. HasTable(a, owner)
    BY <1>2
  <2>2. CreateEntry(a, pid, i) = IF Unused(table) = {}
           THEN [fd |-> -1, tables |-> Store(a, t, pid, table)]
           ELSE [fd |-> fd, tables |-> Store(a, t, pid, new)]
    BY <1>2 DEF CreateEntry
  <2> HIDE DEF owner
  <2>3. t \in Tables /\ table \in [Slots -> Entry] /\ \A s \in Slots : GoodEntry(table[s])
    BY <2>1, OwnedTable
  <2> HIDE DEF t, table
  <2>4. Held(Store(a, t, pid, table))
    BY <2>3, StoreHeld
  <2>5. CASE Unused(table) # {}
    <3>1. Unused(table) \in SUBSET Nat
      BY RamdiskAssumption DEF Unused, Slots
    <3>2. fd \in Unused(table)
      BY <2>5, <3>1, MinIsLeast
    <3>3. fd \in Slots /\ fd \in Int
      BY <3>1, <3>2 DEF Unused
    <3>4. GoodEntry(made)
      BY InodeAssumption DEF GoodEntry, Entry, Inums
    <3> HIDE DEF fd, made
    <3>5. new \in [Slots -> Entry] /\ \A s \in Slots : GoodEntry(new[s])
      BY <2>3, <3>3, <3>4 DEF GoodEntry
    <3> HIDE DEF new
    <3>6. Held(Store(a, t, pid, new))
      BY <2>3, <3>5, StoreHeld
    <3>. QED  BY <2>2, <2>5, <3>3, <3>6
  <2>6. CASE Unused(table) = {}
    BY <2>2, <2>4, <2>6
  <2>. QED  BY <2>5, <2>6
<1>. QED  BY <1>1, <1>2

(* What the lookups of a descriptor return *)
LEMMA ForFdTypes ==
  ASSUME NEW a, Held(a), NEW pid, NEW fd
  PROVE  InodeForFd(a, pid, fd) \in Inums \cup {-1} /\ PositionForFd(a, pid, fd) \in Int
<1>1. CASE CanSeek(a, pid, fd)
  <2>1. GoodEntry(TableOf(a, pid)[fd])
    BY <1>1, OwnedTable DEF CanSeek
  <2>. QED  BY <1>1, <2>1 DEF InodeForFd, PositionForFd, GoodEntry, NoInode, Entry
<1>2. CASE ~ CanSeek(a, pid, fd)
  BY <1>2 DEF InodeForFd, PositionForFd
<1>. QED  BY <1>1, <1>2

(* The tables that the module starts with *)
LEMMA InitialHeld == Held(InitialTables)
<1>1. \A t \in Tables : /\ InitialTables[t].pid = NoPid
                        /\ InitialTables[t].table = [s \in Slots |-> UnusedEntry]
  BY DEF InitialTables
<1>2. UnusedEntry \in Entry
  BY UnusedGood DEF GoodEntry
<1>3. InitialTables \in FdTableArray
  BY <1>2 DEF FdTableArray, InitialTables
<1>. QED  BY <1>1, <1>3, UnusedGood DEF Held

-----------------------------------------------------------------------------
(***************************************************************************)
(* The directories as a tree, in terms of their entries by position        *)
(***************************************************************************)
Positions(rd, d) == 0 .. rd.inodes[d].size - 1

EntriesLead(rd) ==
  \A d \in Directories(rd) : \A p \in Positions(rd, d) :
    /\ DirCell(rd, d, p).data \in Inums \ {Root}
    /\ rd.inodes[DirCell(rd, d, p).data].type # UNALLOCATED

EntriesDiffer(rd) ==
  \A d, e \in Directories(rd) : \A p \in Positions(rd, d), q \in Positions(rd, e) :
    DirCell(rd, d, p).data = DirCell(rd, e, q).data => d = e /\ p = q

(* A set with the root and all that its directories lead to *)
Closed(rd, known) ==
  /\ Root \in known
  /\ \A d \in Directories(rd) : \A p \in Positions(rd, d) :
       d \in known => DirCell(rd, d, p).data \in known

Reached(rd, i) == \A known \in SUBSET Inums : Closed(rd, known) => i \in known

RootedTree(rd) ==
  /\ rd.inodes[Root].type = DIR
  /\ EntriesLead(rd)
  /\ EntriesDiffer(rd)
  /\ \A d \in Directories(rd) : rd.inodes[d].size > 0 => Reached(rd, d)

(***************************************************************************)
(* Every call keeps this of the disk.                                      *)
(***************************************************************************)
DiskInv(rd) == Counted(rd) /\ AllInOrder(rd) /\ RootedTree(rd)

(* The facts that every proof below begins with *)
LEMMA DiskInvTypes ==
  ASSUME NEW rd, DiskInv(rd)
  PROVE  /\ rd \in Disks /\ Sound(rd)
         /\ \A i \in Inums : rd.inodes[i].size \in Nat
         /\ Root \in Inums /\ Root \in Directories(rd)
         /\ \A d \in Directories(rd) : d \in Inums /\ rd.inodes[d].type = DIR /\ InOrder(rd, d)
<1>1. rd \in Disks /\ Sound(rd)
  BY DEF DiskInv, Counted, Sound
<1>2. Root \in Inums
  BY InodeAssumption DEF Root, Inums
<1>. QED  BY <1>1, <1>2, DiskTypes DEF DiskInv, RootedTree, Directories, AllInOrder

(***************************************************************************)
(* As no two entries lead to the same inode, and none to the root or to a  *)
(* free one, a directory cannot have INODES - 1 entries while an inode is  *)
(* free.                                                                   *)
(***************************************************************************)
LEMMA TreeRoom ==
  ASSUME NEW rd, DiskInv(rd)
  PROVE  RoomLeft(rd)
<1>1. SUFFICES ASSUME NEW c \in Unallocated(rd), NEW d \in Inums, rd.inodes[d].type = DIR
               PROVE  rd.inodes[d].size < INODES - 1
  BY DEF RoomLeft
<1> DEFINE n == rd.inodes[d].size
           S == Inums \ {Root, c}
           f == [p \in 0 .. n - 1 |-> DirCell(rd, d, p).data]
<1>2. n \in Nat /\ d \in Directories(rd) /\ c \in Inums /\ c # Root
  BY <1>1, DiskInvTypes DEF Directories, Unallocated, DIR, UNALLOCATED
<1>3. \A p \in 0 .. n - 1 : DirCell(rd, d, p).data \in S
  <2>1. \A p \in 0 .. n - 1 : /\ DirCell(rd, d, p).data \in Inums \ {Root}
                              /\ rd.inodes[DirCell(rd, d, p).data].type # UNALLOCATED
    BY <1>2 DEF DiskInv, RootedTree, EntriesLead, Positions
  <2>. QED  BY <1>1, <2>1 DEF Unallocated
<1>4. \A p, q \in 0 .. n - 1 : DirCell(rd, d, p).data = DirCell(rd, d, q).data => p = q
  BY <1>2 DEF DiskInv, RootedTree, EntriesDiffer, Positions
<1>5. f \in Injection(0 .. n - 1, S)
  BY <1>3, <1>4 DEF Injection, IsInjective
<1>6. IsFiniteSet(Inums) /\ Cardinality(Inums) = INODES
  BY InodeAssumption, FS_Interval DEF Inums
<1>7. IsFiniteSet(S) /\ Cardinality(S) = INODES - 2
  <2>1. IsFiniteSet(Inums \ {Root}) /\ Cardinality(Inums \ {Root}) = INODES - 1
    BY <1>6, DiskInvTypes, FS_RemoveElement
  <2>2. c \in Inums \ {Root} /\ S = (Inums \ {Root}) \ {c}
    BY <1>2
  <2>3. Cardinality((Inums \ {Root}) \ {c}) = (INODES - 1) - 1
    BY <2>1, <2>2, FS_RemoveElement
  <2>. QED  BY <2>1, <2>2, <2>3, FS_RemoveElement, InodeAssumption
<1> HIDE DEF f, S
<1>8. Cardinality(0 .. n - 1) <= Cardinality(S)
  BY <1>5, <1>7, FS_Injection
<1>9. Cardinality(0 .. n - 1) = n
  BY <1>2, FS_Interval, SMTT(20), ZenonT(40)
<1>. QED  BY <1>2, <1>7, <1>8, <1>9, InodeAssumption

-----------------------------------------------------------------------------
(***************************************************************************)
(* On a second disk the directories of the first have all their entries.   *)
(***************************************************************************)
EntriesStay(rd, e) ==
  \A d \in Directories(rd) :
    /\ d \in Directories(e)
    /\ \A p \in Positions(rd, d) : p \in Positions(e, d) /\ DirCell(e, d, p) = DirCell(rd, d, p)

(* What could be reached can still be. *)
LEMMA ReachedStays ==
  ASSUME NEW rd, NEW e, EntriesStay(rd, e), NEW i, Reached(rd, i)
  PROVE  Reached(e, i)
<1>1. SUFFICES ASSUME NEW known \in SUBSET Inums, Closed(e, known)
               PROVE  Closed(rd, known)
  BY DEF Reached
<1>. QED  BY <1>1 DEF Closed, EntriesStay

(* A directory that is kept has the entries it had. *)
LEMMA KeptEntries ==
  ASSUME NEW rd, NEW e, NEW d, DirKept(rd, e, d)
  PROVE  /\ Positions(e, d) = Positions(rd, d) /\ e.inodes[d].size = rd.inodes[d].size
         /\ \A p \in Positions(rd, d) : DirCell(e, d, p) = DirCell(rd, d, p)
         /\ InOrder(e, d)
BY DEF DirKept, Positions

(* No entry changes; at most one inode, which was free, is taken. *)
LEMMA TreeSame ==
  ASSUME NEW rd, DiskInv(rd), NEW e, Counted(e), NEW c,
         \A j \in Inums : e.inodes[j].type # rd.inodes[j].type => j = c,
         c \in Inums => /\ rd.inodes[c].type = UNALLOCATED
                        /\ e.inodes[c].type = DIR => e.inodes[c].size = 0 /\ InOrder(e, c),
         DirsKept(rd, e, {})
  PROVE  DiskInv(e)
<1>1. \A d \in Directories(rd) : d \in Directories(e) /\ DirKept(rd, e, d)
  BY DEF Directories, DirsKept, DIR, UNALLOCATED
<1>2. \A d \in Directories(e) : d \in Directories(rd) \/ (d = c /\ e.inodes[d].size = 0)
  BY DEF Directories
<1>3. \A d \in Directories(e) : Positions(e, d) # {} => d \in Directories(rd)
  BY <1>2 DEF Positions
<1>4. EntriesStay(rd, e)
  BY <1>1, KeptEntries DEF EntriesStay
<1>5. AllInOrder(e)
  BY <1>1, <1>2, KeptEntries DEF AllInOrder, Directories
<1>6. e.inodes[Root].type = DIR
  BY <1>1, DiskInvTypes DEF Directories
<1>7. EntriesLead(e)
  <2>1. SUFFICES ASSUME NEW d \in Directories(e), NEW p \in Positions(e, d)
                 PROVE  /\ DirCell(e, d, p).data \in Inums \ {Root}
                        /\ e.inodes[DirCell(e, d, p).data].type # UNALLOCATED
    BY DEF EntriesLead
  <2>2. d \in Directories(rd) /\ p \in Positions(rd, d) /\ DirCell(e, d, p) = DirCell(rd, d, p)
    BY <1>1, <1>3, <2>1, KeptEntries
  <2>3. /\ DirCell(rd, d, p).data \in Inums \ {Root}
        /\ rd.inodes[DirCell(rd, d, p).data].type # UNALLOCATED
    BY <2>2 DEF DiskInv, RootedTree, EntriesLead
  <2>. QED  BY <2>2, <2>3
<1>8. EntriesDiffer(e)
  <2>1. \A d \in Directories(e) : \A p \in Positions(e, d) :
          d \in Directories(rd) /\ p \in Positions(rd, d) /\ DirCell(e, d, p) = DirCell(rd, d, p)
    BY <1>1, <1>3, KeptEntries
  <2>. QED  BY <2>1 DEF DiskInv, RootedTree, EntriesDiffer
<1>9. ASSUME NEW d \in Directories(e), e.inodes[d].size > 0
      PROVE  Reached(e, d)
  <2>1. d \in Directories(rd)
    BY <1>2, <1>9
  <2>2. rd.inodes[d].size > 0
    BY <1>1, <1>9, <2>1, KeptEntries
  <2>. QED  BY <1>4, <2>1, <2>2, ReachedStays DEF DiskInv, RootedTree
<1>. QED  BY <1>5, <1>6, <1>7, <1>8, <1>9 DEF DiskInv, RootedTree

(***************************************************************************)
(* A new inode gets an entry in a directory that can be reached.           *)
(***************************************************************************)
LEMMA TreeEntered ==
  ASSUME NEW rd, DiskInv(rd), NEW made, NEW d \in Inums, NEW name, NEW type \in {FILE, DIR},
         Entered(rd, made, d, name, type), Reached(rd, d)
  PROVE  DiskInv(made.rd) /\ EntriesStay(rd, made.rd)
<1> DEFINE e == made.rd
           c == made.inum
           n == rd.inodes[d].size
<1>1. /\ c \in Unallocated(rd) /\ c \in Inums /\ rd.inodes[d].type = DIR /\ c # d
      /\ Counted(e) /\ e.inodes[c].type = type /\ e.inodes[c].size = 0
      /\ type = DIR => InOrder(e, c)
      /\ \A j \in Inums \ {c} : e.inodes[j].type = rd.inodes[j].type
  BY DEF Entered, Created, Unallocated, DIR, UNALLOCATED
<1>2. /\ InOrder(e, d) /\ e.inodes[d].size = n + 1
      /\ \A p \in 0 .. n - 1 : DirCell(e, d, p) = DirCell(rd, d, p)
      /\ DirCell(e, d, n).data = c
  BY DEF Entered, DirExtended, DirEntry
<1>3. \A x \in Inums \ {d} : rd.inodes[x].type = DIR => DirKept(rd, e, x)
  BY DEF Entered, DirsKept
<1>4. n \in Nat /\ rd.inodes[c].type = UNALLOCATED /\ c # Root
  BY <1>1, DiskInvTypes DEF Unallocated, Directories, DIR, UNALLOCATED
<1> HIDE DEF e, c, n
<1>5. Positions(e, d) = Positions(rd, d) \cup {n} /\ Positions(rd, d) = 0 .. n - 1
  BY <1>2, <1>4 DEF Positions, n
<1>6. \A x \in Directories(rd) : x # c /\ x \in Directories(e)
  BY <1>1, <1>4 DEF Directories, DIR, UNALLOCATED
<1>7. EntriesStay(rd, e)
  <2>1. \A x \in Directories(rd) \ {d} : \A p \in Positions(rd, x) :
          p \in Positions(e, x) /\ DirCell(e, x, p) = DirCell(rd, x, p)
    BY <1>3, KeptEntries DEF Directories
  <2>2. \A p \in Positions(rd, d) : p \in Positions(e, d) /\ DirCell(e, d, p) = DirCell(rd, d, p)
    BY <1>2, <1>5
  <2>. QED  BY <1>6, <2>1, <2>2 DEF EntriesStay
<1>8. ASSUME NEW x \in Directories(e), NEW p \in Positions(e, x)
      PROVE  \/ x = d /\ p = n /\ DirCell(e, x, p).data = c
             \/ /\ x \in Directories(rd) /\ p \in Positions(rd, x)
                /\ DirCell(e, x, p) = DirCell(rd, x, p)
  <2>1. x # c
    <3>1. Positions(e, c) = {}
      BY <1>1 DEF Positions
    <3>. QED  BY <1>8, <3>1
  <2>2. x \in Directories(rd)
    BY <1>1, <1>8, <2>1 DEF Directories
  <2>3. CASE x = d
    BY <1>2, <1>5, <1>8, <2>2, <2>3
  <2>4. CASE x # d
    BY <1>3, <1>8, <2>2, <2>4, KeptEntries DEF Directories
  <2>. QED  BY <2>3, <2>4
<1>9. ASSUME NEW x \in Directories(rd), NEW p \in Positions(rd, x)
      PROVE  /\ DirCell(rd, x, p).data \in Inums \ {Root}
             /\ rd.inodes[DirCell(rd, x, p).data].type # UNALLOCATED
             /\ DirCell(rd, x, p).data # c
  BY <1>4 DEF DiskInv, RootedTree, EntriesLead
<1>10. EntriesLead(e)
  <2>1. type # UNALLOCATED
    BY DEF FILE, DIR, UNALLOCATED
  <2>2. SUFFICES ASSUME NEW x \in Directories(e), NEW p \in Positions(e, x)
                 PROVE  /\ DirCell(e, x, p).data \in Inums \ {Root}
                        /\ e.inodes[DirCell(e, x, p).data].type # UNALLOCATED
    BY DEF EntriesLead
  <2>. QED  BY <1>1, <1>4, <1>8, <1>9, <2>1, <2>2
<1>11. EntriesDiffer(e)
  <2>1. SUFFICES ASSUME NEW x \in Directories(e), NEW y \in Directories(e),
                        NEW p \in Positions(e, x), NEW q \in Positions(e, y),
                        DirCell(e, x, p).data = DirCell(e, y, q).data
                 PROVE  x = y /\ p = q
    BY DEF EntriesDiffer
  <2>. QED  BY <1>8, <1>9, <2>1 DEF DiskInv, RootedTree, EntriesDiffer
<1>12. AllInOrder(e)
  <2>1. SUFFICES ASSUME NEW x \in Inums, e.inodes[x].type = DIR PROVE InOrder(e, x)
    BY DEF AllInOrder
  <2>. QED  BY <1>1, <1>2, <1>3, <2>1, KeptEntries
<1>13. ASSUME NEW x \in Directories(e), e.inodes[x].size > 0
       PROVE  Reached(e, x)
  <2>1. x # c /\ x \in Directories(rd)
    BY <1>1, <1>13 DEF Directories
  <2>2. x = d \/ rd.inodes[x].size > 0
    BY <1>3, <1>13, <2>1, KeptEntries DEF Directories
  <2>3. Reached(rd, x)
    BY <2>1, <2>2 DEF DiskInv, RootedTree
  <2>. QED  BY <1>7, <2>3, ReachedStays
<1>14. e.inodes[Root].type = DIR
  BY <1>6, DiskInvTypes DEF Directories
<1>15. DiskInv(e)
  BY <1>1, <1>10, <1>11, <1>12, <1>13, <1>14 DEF DiskInv, RootedTree
<1>. QED  BY <1>7, <1>15 DEF e

(***************************************************************************)
(* The entry at position p of directory d goes, with the inode c that it   *)
(* leads to, which is no directory or an empty one.                        *)
(***************************************************************************)
EntryGone(rd, e, d, p) ==
  \A x \in Directories(e) : \A q \in Positions(e, x) :
    \E r \in Positions(rd, x) :
      /\ x \in Directories(rd)
      /\ DirCell(e, x, q) = DirCell(rd, x, r)
      /\ r = IF x = d /\ q = p THEN LastEntry(rd, d) ELSE q
      /\ ~ (x = d /\ r = p)

EntriesElse(rd, e, d, p, c) ==
  \A x \in Directories(rd) \ {c} : \A r \in Positions(rd, x) :
    \/ x = d /\ r = p
    \/ x \in Directories(e) /\ \E q \in Positions(e, x) : DirCell(e, x, q) = DirCell(rd, x, r)

(* rd_unlink removes this entry, and no other, from the directories. *)
LEMMA UnlinkedEntries ==
  ASSUME NEW rd, DiskInv(rd), NEW e, NEW d \in Directories(rd), NEW p \in Positions(rd, d),
         NEW c \in Inums \ {d}, Unlinked(rd, e, d, p, c)
  PROVE  EntryGone(rd, e, d, p) /\ EntriesElse(rd, e, d, p, c)
<1> DEFINE n == rd.inodes[d].size
           l == LastEntry(rd, d)
<1>1. n \in Nat /\ l = n - 1 /\ p \in 0 .. n - 1 /\ l \in 0 .. n - 1
  BY DiskInvTypes DEF Positions, LastEntry
<1>2. /\ e.inodes[d].size = l
      /\ \A q \in 0 .. l - 1 : DirCell(e, d, q) = DirCell(rd, d, IF q = p THEN l ELSE q)
  BY DEF Unlinked
<1>3. Positions(rd, d) = 0 .. n - 1 /\ Positions(e, d) = 0 .. l - 1
  BY <1>2 DEF Positions
<1>4. \A x \in Inums : x \in Directories(e) <=> x \in Directories(rd) \ {c}
  BY DEF Unlinked, Directories, DIR, UNALLOCATED
<1>5. \A x \in Directories(rd) \ {c, d} : DirKept(rd, e, x)
  BY DEF Unlinked, DirsKept, Directories
<1>6. Directories(rd) \subseteq Inums /\ Directories(e) \subseteq Inums
  BY DEF Directories
<1> HIDE DEF n, l
<1>7. EntryGone(rd, e, d, p)
  <2>1. ASSUME NEW x \in Directories(e), NEW q \in Positions(e, x), x # d
        PROVE  /\ x \in Directories(rd) /\ q \in Positions(rd, x)
               /\ DirCell(e, x, q) = DirCell(rd, x, q)
    BY <1>4, <1>5, <1>6, <2>1, KeptEntries
  <2>2. ASSUME NEW q \in Positions(e, d)
        PROVE  LET r == IF q = p THEN l ELSE q IN
               r \in Positions(rd, d) /\ DirCell(e, d, q) = DirCell(rd, d, r) /\ r # p
    <3>1. q \in 0 .. l - 1 /\ q \in 0 .. n - 1 /\ q # l
      BY <1>1, <1>3, <2>2
    <3>2. CASE q = p
      BY <1>1, <1>2, <1>3, <3>1, <3>2
    <3>3. CASE q # p
      BY <1>2, <1>3, <3>1, <3>3
    <3>. QED  BY <3>2, <3>3
  <2>3. ASSUME NEW x \in Directories(e), NEW q \in Positions(e, x)
        PROVE  \E r \in Positions(rd, x) :
                 /\ x \in Directories(rd)
                 /\ DirCell(e, x, q) = DirCell(rd, x, r)
                 /\ r = IF x = d /\ q = p THEN l ELSE q
                 /\ ~ (x = d /\ r = p)
    <3>1. CASE x = d
      BY <2>2, <2>3, <3>1
    <3>2. CASE x # d
      BY <2>1, <2>3, <3>2
    <3>. QED  BY <3>1, <3>2
  <2>. QED  BY <2>3 DEF EntryGone, l
<1>8. EntriesElse(rd, e, d, p, c)
  <2>1. SUFFICES ASSUME NEW x \in Directories(rd) \ {c}, NEW r \in Positions(rd, x),
                        ~ (x = d /\ r = p)
                 PROVE  \E q \in Positions(e, x) : DirCell(e, x, q) = DirCell(rd, x, r)
    BY <1>4, <1>6 DEF EntriesElse
  <2>2. CASE x = d
    <3>1. CASE r = l
      <4>1. p \in Positions(e, d) /\ DirCell(e, d, p) = DirCell(rd, d, l)
        BY <1>1, <1>2, <1>3, <2>1, <2>2, <3>1
      <4>. QED  BY <2>2, <3>1, <4>1
    <3>2. CASE r # l
      <4>1. r \in Positions(e, d) /\ DirCell(e, d, r) = DirCell(rd, d, r)
        BY <1>1, <1>2, <1>3, <2>1, <2>2, <3>2
      <4>. QED  BY <2>2, <4>1
    <3>. QED  BY <3>1, <3>2
  <2>3. CASE x # d
    BY <1>5, <2>1, <2>3, KeptEntries
  <2>. QED  BY <2>2, <2>3
<1>. QED  BY <1>7, <1>8

(* What is left is a tree: the inode that goes has no entries of its own. *)
LEMMA TreeUnlinked ==
  ASSUME NEW rd, DiskInv(rd), NEW e, NEW d \in Directories(rd), NEW p \in Positions(rd, d),
         NEW c, c = DirCell(rd, d, p).data,
         c # d, rd.inodes[c].type = DIR => rd.inodes[c].size = 0,
         Unlinked(rd, e, d, p, c)
  PROVE  DiskInv(e) /\ EntriesElse(rd, e, d, p, c)
<1>1. c \in Inums \ {Root} /\ rd.inodes[c].type # UNALLOCATED /\ c \in Inums \ {d}
  BY DEF DiskInv, RootedTree, EntriesLead
<1>2. EntryGone(rd, e, d, p) /\ EntriesElse(rd, e, d, p, c)
  BY <1>1, UnlinkedEntries
<1>3. /\ Counted(e) /\ InOrder(e, d)
      /\ \A j \in Inums \ {c} : e.inodes[j].type = rd.inodes[j].type
      /\ e.inodes[c].type = UNALLOCATED
      /\ \A x \in Inums \ {c, d} : rd.inodes[x].type = DIR => DirKept(rd, e, x)
      /\ e.inodes[d].size = LastEntry(rd, d)
  BY DEF Unlinked, DirsKept
<1>4. AllInOrder(e)
  <2>1. SUFFICES ASSUME NEW x \in Inums, e.inodes[x].type = DIR PROVE InOrder(e, x)
    BY DEF AllInOrder
  <2>2. x # c
    BY <1>3, <2>1 DEF DIR, UNALLOCATED
  <2>. QED  BY <1>3, <2>1, <2>2, KeptEntries
<1>5. e.inodes[Root].type = DIR
  BY <1>1, <1>3, DiskInvTypes DEF Directories
<1>6. \A x \in Directories(e) : \A q \in Positions(e, x) : DirCell(e, x, q).data # c
  <2>1. SUFFICES ASSUME NEW x \in Directories(e), NEW q \in Positions(e, x)
                 PROVE  DirCell(e, x, q).data # c
    OBVIOUS
  <2>2. PICK r \in Positions(rd, x) : /\ x \in Directories(rd)
                                      /\ DirCell(e, x, q) = DirCell(rd, x, r)
                                      /\ ~ (x = d /\ r = p)
    BY <1>2, <2>1 DEF EntryGone
  <2>. QED  BY <2>2 DEF DiskInv, RootedTree, EntriesDiffer
<1>7. EntriesLead(e)
  <2>1. SUFFICES ASSUME NEW x \in Directories(e), NEW q \in Positions(e, x)
                 PROVE  /\ DirCell(e, x, q).data \in Inums \ {Root}
                        /\ e.inodes[DirCell(e, x, q).data].type # UNALLOCATED
    BY DEF EntriesLead
  <2>2. PICK r \in Positions(rd, x) : /\ x \in Directories(rd)
                                      /\ DirCell(e, x, q) = DirCell(rd, x, r)
    BY <1>2, <2>1 DEF EntryGone
  <2>3. /\ DirCell(rd, x, r).data \in Inums \ {Root}
        /\ rd.inodes[DirCell(rd, x, r).data].type # UNALLOCATED
    BY <2>2 DEF DiskInv, RootedTree, EntriesLead
  <2>. QED  BY <1>3, <1>6, <2>1, <2>2, <2>3
<1>8. EntriesDiffer(e)
  <2>1. SUFFICES ASSUME NEW x \in Directories(e), NEW y \in Directories(e),
                        NEW q \in Positions(e, x), NEW s \in Positions(e, y),
                        DirCell(e, x, q).data = DirCell(e, y, s).data
                 PROVE  x = y /\ q = s
    BY DEF EntriesDiffer
  <2>2. PICK r \in Positions(rd, x) : /\ x \in Directories(rd)
                                      /\ DirCell(e, x, q) = DirCell(rd, x, r)
                                      /\ r = IF x = d /\ q = p THEN LastEntry(rd, d) ELSE q
    BY <1>2, <2>1 DEF EntryGone
  <2>3. PICK u \in Positions(rd, y) : /\ y \in Directories(rd)
                                      /\ DirCell(e, y, s) = DirCell(rd, y, u)
                                      /\ u = IF y = d /\ s = p THEN LastEntry(rd, d) ELSE s
    BY <1>2, <2>1 DEF EntryGone
  <2>4. x = y /\ r = u
    BY <2>1, <2>2, <2>3 DEF DiskInv, RootedTree, EntriesDiffer
  <2>5. ASSUME NEW z \in Positions(e, d) PROVE z # LastEntry(rd, d)
    <3>1. rd.inodes[d].size \in Nat
      BY DiskInvTypes
    <3>. QED  BY <1>3, <2>5, <3>1 DEF Positions, LastEntry
  <2>. QED  BY <2>2, <2>3, <2>4, <2>5
<1>9. ASSUME NEW x \in Directories(e), e.inodes[x].size > 0
      PROVE  Reached(e, x)
  <2>1. x \in Directories(rd) /\ x # c
    BY <1>3, <1>9 DEF Directories, DIR, UNALLOCATED
  <2>2. rd.inodes[x].size > 0
    <3>1. CASE x = d
      <4>1. rd.inodes[d].size \in Nat
        BY DiskInvTypes
      <4>. QED  BY <3>1, <4>1 DEF Positions
    <3>2. CASE x # d
      BY <1>3, <1>9, <2>1, <3>2, KeptEntries DEF Directories
    <3>. QED  BY <3>1, <3>2
  <2>3. Reached(rd, x)
    BY <2>1, <2>2 DEF DiskInv, RootedTree
  <2>4. SUFFICES ASSUME NEW known \in SUBSET Inums, Closed(e, known)
                 PROVE  Closed(rd, known \cup {c})
    BY <1>1, <2>1, <2>3 DEF Reached
  <2>5. SUFFICES ASSUME NEW y \in Directories(rd), NEW r \in Positions(rd, y), y \in known \cup {c}
                 PROVE  DirCell(rd, y, r).data \in known \cup {c}
    BY <2>4 DEF Closed
  <2>6. y # c
    <3>1. y = c => Positions(rd, y) = {}
      BY <2>5 DEF Positions, Directories
    <3>. QED  BY <2>5, <3>1
  <2>7. CASE y = d /\ r = p
    BY <2>7
  <2>8. CASE ~ (y = d /\ r = p)
    <3>1. y \in Directories(e) /\ \E q \in Positions(e, y) : DirCell(e, y, q) = DirCell(rd, y, r)
      BY <1>2, <2>5, <2>6, <2>8 DEF EntriesElse
    <3>. QED  BY <2>4, <2>5, <2>6, <3>1 DEF Closed
  <2>. QED  BY <2>7, <2>8
<1>10. DiskInv(e)
  BY <1>3, <1>4, <1>5, <1>7, <1>8, <1>9 DEF DiskInv, RootedTree
<1>. QED  BY <1>2, <1>10

-----------------------------------------------------------------------------
(***************************************************************************)
(* _ramdisk_walk_path and _ramdisk_get_parent                              *)
(***************************************************************************)
Labels == Names \cup {NoName}

(* Where a path can lead: nowhere, or to an inode that can be reached. *)
Leads(rd, i) == i = -1 \/ (i \in Inums /\ Reached(rd, i))

(* The inode that an entry leads to can be reached when its directory can. *)
LEMMA ReachedEntry ==
  ASSUME NEW rd, DiskInv(rd), NEW d \in Directories(rd), Reached(rd, d),
         NEW p \in Positions(rd, d)
  PROVE  DirCell(rd, d, p).data \in Inums /\ Reached(rd, DirCell(rd, d, p).data)
BY DEF Reached, Closed, DiskInv, RootedTree, EntriesLead

(* The root can be reached. *)
LEMMA RootReached ==
  ASSUME NEW rd
  PROVE  Reached(rd, Root)
BY DEF Reached, Closed

(* One step of the walk along a path *)
LEMMA NextInodeLeads ==
  ASSUME NEW rd, DiskInv(rd), NEW i, Leads(rd, i), NEW name \in Labels
  PROVE  Leads(rd, NextInode(rd, i, name))
<1> DEFINE found == FindEntry(rd, rd.inodes[i], name)
<1>1. rd \in Disks /\ Root \in Inums
  BY DiskInvTypes
<1>2. CASE i = -1
  BY <1>2 DEF NextInode, Leads
<1>3. CASE i \in Inums /\ Reached(rd, i)
  <2>1. ~ (i < 0)
    BY <1>3, InodeAssumption DEF Inums
  <2>2. rd.inodes[i].type = DIR => InOrder(rd, i)
    BY <1>3 DEF DiskInv, AllInOrder
  <2>3. NextInode(rd, i, name) = found.inum
    BY <2>1 DEF NextInode
  <2>4. CASE name = NoName
    <3>1. found = NotFound \/ found.inum = Root
      BY <1>1, <1>3, <2>2, <2>4, FindNoName
    <3>2. NotFound.inum = -1
      BY DEF NotFound
    <3> HIDE DEF found
    <3>. QED  BY <1>1, <2>3, <3>1, <3>2, RootReached DEF Leads
  <2>5. CASE name \in Names
    <3>1. found = NotFound \/ (rd.inodes[i].type = DIR /\ \E p : Finds(rd, i, name, found, p))
      BY <1>1, <1>3, <2>2, <2>5, FindEntryResult
    <3>2. CASE found = NotFound
      BY <2>3, <3>2 DEF NotFound, Leads
    <3>3. CASE rd.inodes[i].type = DIR /\ \E p : Finds(rd, i, name, found, p)
      <4>1. PICK p : Finds(rd, i, name, found, p)
        BY <3>3
      <4>2. p \in Positions(rd, i) /\ found.inum = DirCell(rd, i, p).data
        BY <4>1 DEF Finds, Positions
      <4>3. i \in Directories(rd)
        BY <1>3, <3>3 DEF Directories
      <4> HIDE DEF found
      <4>. QED  BY <1>3, <2>3, <4>2, <4>3, ReachedEntry DEF Leads
    <3>. QED  BY <3>1, <3>2, <3>3
  <2>. QED  BY <2>4, <2>5 DEF Labels
<1>. QED  BY <1>2, <1>3 DEF Leads

(* The equation of the recursive function in Steps *)
Leading(rd, path, f, m) ==
  f = [n \in 0 .. m |-> IF n = 0 THEN Root ELSE NextInode(rd, f[n - 1], path[n])]

(* There is a function that satisfies the equation. *)
LEMMA LeadingExists ==
  ASSUME NEW rd, NEW path, NEW m \in Nat
  PROVE  \E f : Leading(rd, path, f, m)
<1> DEFINE Bad == {n \in Nat : ~ \E f : Leading(rd, path, f, n)}
<1> SUFFICES ASSUME Bad # {} PROVE FALSE
  OBVIOUS
<1>1. PICK n \in Bad : \A k \in Bad : n <= k
  <2>1. Bad \in SUBSET Nat
    OBVIOUS
  <2> HIDE DEF Bad
  <2>. QED  BY <2>1, MinIsLeast
<1>2. n # 0
  <2>1. Leading(rd, path, [k \in 0 .. 0 |-> Root], 0)
    BY DEF Leading
  <2>. QED  BY <2>1
<1>3. n - 1 \in Nat /\ n - 1 \notin Bad
  BY <1>1, <1>2
<1>4. PICK f : Leading(rd, path, f, n - 1)
  BY <1>3
<1> DEFINE g == [k \in 0 .. n |-> IF k = 0 THEN Root ELSE NextInode(rd, f[k - 1], path[k])]
<1>5. \A k \in 0 .. n - 1 : g[k] = f[k]
  <2>1. \A k \in 0 .. n - 1 : f[k] = IF k = 0 THEN Root ELSE NextInode(rd, f[k - 1], path[k])
    BY <1>4 DEF Leading
  <2>2. \A k \in 0 .. n - 1 : k \in 0 .. n
    BY <1>1
  <2>. QED  BY <2>1, <2>2
<1>6. \A k \in 0 .. n : k = 0 \/ k - 1 \in 0 .. n - 1
  BY <1>1
<1>7. g = [k \in 0 .. n |-> IF k = 0 THEN Root ELSE NextInode(rd, g[k - 1], path[k])]
  BY <1>5, <1>6
<1>8. Leading(rd, path, g, n)
  BY <1>7 DEF Leading
<1>. QED  BY <1>1, <1>8

(* The recursive function in Steps satisfies its equation. *)
LEMMA StepsLead ==
  ASSUME NEW rd, NEW path \in Seq(Labels)
  PROVE  /\ Steps(rd, path)[0] = Root
         /\ \A n \in 1 .. Len(path) :
              Steps(rd, path)[n] = NextInode(rd, Steps(rd, path)[n - 1], path[n])
<1> DEFINE f == CHOOSE f : Leading(rd, path, f, Len(path))
<1>1. Len(path) \in Nat
  OBVIOUS
<1>2. Leading(rd, path, f, Len(path))
  BY <1>1, LeadingExists
<1>3. Steps(rd, path) = f
  BY DEF Steps, Leading
<1> HIDE DEF f
<1>4. \A n \in 0 .. Len(path) : f[n] = IF n = 0 THEN Root ELSE NextInode(rd, f[n - 1], path[n])
  BY <1>2 DEF Leading
<1>. QED  BY <1>1, <1>3, <1>4

(* No step of the walk leaves what can be reached. *)
LEMMA StepsReach ==
  ASSUME NEW rd, DiskInv(rd), NEW path \in Seq(Labels)
  PROVE  \A n \in 0 .. Len(path) : Leads(rd, Steps(rd, path)[n])
<1> DEFINE Bad == {n \in 0 .. Len(path) : ~ Leads(rd, Steps(rd, path)[n])}
<1> SUFFICES ASSUME Bad # {} PROVE FALSE
  OBVIOUS
<1>1. Len(path) \in Nat /\ Bad \in SUBSET Nat
  OBVIOUS
<1>2. PICK n \in Bad : \A k \in Bad : n <= k
  <2> HIDE DEF Bad
  <2>. QED  BY <1>1, MinIsLeast
<1>3. n # 0
  BY StepsLead, DiskInvTypes, RootReached DEF Leads
<1>4. n - 1 \in 0 .. Len(path) /\ n - 1 \notin Bad /\ n \in 1 .. Len(path) /\ path[n] \in Labels
  BY <1>1, <1>2, <1>3
<1>5. Leads(rd, Steps(rd, path)[n - 1])
  BY <1>4
<1>6. Leads(rd, NextInode(rd, Steps(rd, path)[n - 1], path[n]))
  BY <1>4, <1>5, NextInodeLeads
<1>. QED  BY <1>2, <1>4, <1>6, StepsLead

(* A path leads nowhere or to an inode that can be reached. *)
LEMMA WalkLeads ==
  ASSUME NEW rd, DiskInv(rd), NEW path \in Seq(Labels)
  PROVE  Leads(rd, WalkPath(rd, path))
<1>1. Leads(rd, Root) /\ Leads(rd, -1)
  BY DiskInvTypes, RootReached DEF Leads
<1>2. Len(path) \in 0 .. Len(path)
  OBVIOUS
<1>. QED  BY <1>1, <1>2, StepsReach DEF WalkPath

(* The path without its last name *)
LEMMA FrontIs ==
  ASSUME NEW S, NEW path \in Seq(S), Len(path) # 0
  PROVE  /\ Front(path) \in Seq(S) /\ Len(Front(path)) = Len(path) - 1
         /\ \A n \in 1 .. Len(path) - 1 : Front(path)[n] = path[n]
         /\ Last(path) = path[Len(path)] /\ Last(path) \in S
<1> DEFINE n == Len(path)
<1>1. n \in Nat /\ n # 0
  OBVIOUS
<1>2. path \in [1 .. n -> S]
  OBVIOUS
<1> HIDE DEF n
<1>3. Last(path) = path[n] /\ path[n] \in S
  BY <1>1, <1>2 DEF Last, n
<1>4. Front(path) = [i \in 1 .. n - 1 |-> path[i]]
  <2>1. Front(path) = SubSeq(path, 1, n - 1)
    BY DEF Front, n
  <2>2. SubSeq(path, 1, n - 1) = [i \in 1 .. n - 1 |-> path[i]]
    <3>1. SubSeq(path, 1, n - 1) = [i \in 1 .. (1 + (n - 1) - 1) |-> path[i + 1 - 1]]
      BY <1>1 DEF n
    <3>. QED  BY <1>1, <3>1
  <2>. QED  BY <2>1, <2>2
<1>5. n - 1 \in Nat /\ \A i \in 1 .. n - 1 : path[i] \in S
  BY <1>1, <1>2
<1>6. Front(path) \in Seq(S) /\ Len(Front(path)) = n - 1
  BY <1>4, <1>5
<1>. QED  BY <1>3, <1>4, <1>5, <1>6 DEF n

(* The parent that a path names can be reached. *)
LEMMA ParentLeads ==
  ASSUME NEW rd, DiskInv(rd), NEW path \in Seq(Labels)
  PROVE  Leads(rd, GetParent(rd, path))
<1>1. Leads(rd, Root) /\ Leads(rd, -1)
  BY DiskInvTypes, RootReached DEF Leads
<1>2. CASE path = <<>> \/ Len(path) = 1
  BY <1>1, <1>2 DEF GetParent
<1>3. CASE ~ (path = <<>> \/ Len(path) = 1)
  <2>1. Front(path) \in Seq(Labels)
    BY <1>3, FrontIs
  <2>. QED  BY <1>3, <2>1, WalkLeads DEF GetParent
<1>. QED  BY <1>2, <1>3

(* The walk to the parent is the start of the walk to the item. *)
LEMMA FrontSteps ==
  ASSUME NEW rd, NEW path \in Seq(Labels), path # <<>>
  PROVE  \A n \in 0 .. Len(path) - 1 : Steps(rd, Front(path))[n] = Steps(rd, path)[n]
<1> DEFINE front == Front(path)
           Bad == {n \in 0 .. Len(path) - 1 : Steps(rd, front)[n] # Steps(rd, path)[n]}
<1> SUFFICES ASSUME Bad # {} PROVE FALSE
  OBVIOUS
<1>1. /\ Len(path) \in Nat /\ Len(path) # 0 /\ Bad \in SUBSET Nat
      /\ front \in Seq(Labels) /\ Len(front) = Len(path) - 1
      /\ \A n \in 1 .. Len(path) - 1 : front[n] = path[n]
  BY FrontIs
<1>2. PICK n \in Bad : \A k \in Bad : n <= k
  <2> HIDE DEF Bad
  <2>. QED  BY <1>1, MinIsLeast
<1> HIDE DEF front
<1>3. n # 0
  BY <1>1, StepsLead
<1>4. n - 1 \notin Bad /\ n - 1 \in 0 .. Len(path) - 1 /\ n \in 1 .. Len(path) - 1 /\ n \in 1 .. Len(path)
  BY <1>1, <1>2, <1>3
<1>5. Steps(rd, front)[n - 1] = Steps(rd, path)[n - 1]
  BY <1>4
<1>6. Steps(rd, front)[n] = NextInode(rd, Steps(rd, front)[n - 1], front[n])
  BY <1>1, <1>4, StepsLead
<1>7. Steps(rd, path)[n] = NextInode(rd, Steps(rd, path)[n - 1], path[n])
  BY <1>4, StepsLead
<1>. QED  BY <1>1, <1>2, <1>4, <1>5, <1>6, <1>7

(***************************************************************************)
(* rd_unlink finds the item twice: if the search along the whole path      *)
(* succeeds, it finds what the search in the parent finds.                 *)
(***************************************************************************)
LEMMA TwoSearches ==
  ASSUME NEW rd, DiskInv(rd), NEW path \in Seq(Labels), path # <<>>, path # <<NoName>>,
         NEW parent, parent = GetParent(rd, path), ~ (parent < 0)
  PROVE  WalkPath(rd, path) \in {-1, FindEntry(rd, rd.inodes[parent], Last(path)).inum}
<1> DEFINE n == Len(path)
           here == Steps(rd, path)[n - 1]
<1>1. n \in Nat /\ n # 0 /\ n \in 1 .. n /\ n - 1 \in 0 .. n - 1 /\ n - 1 \in 0 .. n
  OBVIOUS
<1>2. /\ Last(path) = path[n] /\ Len(Front(path)) = n - 1
      /\ \A k \in 1 .. n - 1 : Front(path)[k] = path[k]
  BY <1>1, FrontIs
<1>3. WalkPath(rd, path) = NextInode(rd, here, path[n])
  BY <1>1, StepsLead DEF WalkPath
<1>4. Leads(rd, here)
  BY <1>1, StepsReach
<1>5. CASE here = -1
  BY <1>3, <1>5 DEF NextInode
<1>6. CASE here # -1
  <2>0. ~ (here < 0)
    BY <1>4, <1>6, InodeAssumption DEF Leads, Inums
  <2>1. here = parent
    <3>1. CASE n = 1
      BY <3>1, StepsLead DEF GetParent
    <3>2. CASE n # 1 /\ Front(path) = <<NoName>>
      <4>0. Len(<<NoName>>) = 1
        OBVIOUS
      <4>11. n - 1 = 1
        BY <1>2, <3>2, <4>0
      <4>12. n = 2
        BY <1>1, <4>11
      <4>1. Len(Front(path)) = n - 1 /\ Front(path)[1] = path[1] /\ n = 2
        BY <1>2, <4>11, <4>12
      <4>2. path[1] = NoName
        BY <3>2, <4>1
      <4>3. here = NextInode(rd, Root, NoName)
        BY <4>1, <4>2, StepsLead
      <4>4. NextInode(rd, Root, NoName) \in {-1, Root}
        <5>1. Root \in Inums /\ rd \in Disks /\ InOrder(rd, Root) /\ ~ (Root < 0)
          BY DiskInvTypes DEF Root
        <5>2. FindEntry(rd, rd.inodes[Root], NoName).inum \in {-1, Root}
          BY <5>1, FindNoName DEF NotFound
        <5>. QED  BY <5>1, <5>2 DEF NextInode
      <4>5. parent = Root
        BY <3>2, <4>1 DEF GetParent, WalkPath
      <4>. QED  BY <1>6, <4>3, <4>4, <4>5
    <3>3. CASE n # 1 /\ Front(path) # <<NoName>>
      <4>0. Len(<<>>) = 0 /\ n - 1 # 0
        BY <1>1, <3>3
      <4>1. Len(Front(path)) = n - 1 /\ Front(path) # <<>>
        BY <1>2, <4>0
      <4>2. parent = Steps(rd, Front(path))[n - 1]
        BY <3>3, <4>1 DEF GetParent, WalkPath
      <4>. QED  BY <1>1, <4>2, FrontSteps
    <3>. QED  BY <3>1, <3>2, <3>3
  <2>2. WalkPath(rd, path) = FindEntry(rd, rd.inodes[parent], path[n]).inum
    BY <1>3, <2>0, <2>1 DEF NextInode
  <2>. QED  BY <1>2, <2>2
<1>. QED  BY <1>5, <1>6

-----------------------------------------------------------------------------
(***************************************************************************)
(* rd_write: whatever it adds to file i, the disk stays sound, inodes      *)
(* other than i and their blocks are not touched, and the tree of i keeps  *)
(* its shape.                                                              *)
(***************************************************************************)
Wrote(rd, e, i) ==
  /\ Sound(e)
  /\ OthersKept(rd, e, i)
  /\ e.free_inodes = rd.free_inodes
  /\ e.inodes[i].type = rd.inodes[i].type
  /\ Formed(rd, i) => Formed(e, i)

(* Two writes to a file, one after the other, are one. *)
LEMMA WroteTransitive ==
  ASSUME NEW rd, NEW e, NEW f, Sound(rd), NEW i \in Inums, Wrote(rd, e, i), Wrote(e, f, i)
  PROVE  Wrote(rd, f, i)
<1>1. rd \in Disks /\ e \in Disks /\ f \in Disks
  BY DEF Wrote, Sound
<1>2. OthersKept(rd, f, i)
  BY <1>1, KeptTransitive DEF Wrote, OthersKept
<1>. QED  BY <1>2 DEF Wrote

(* A block that is in no other tree is written, and the size is set. *)
LEMMA ChunkWritten ==
  ASSUME NEW rd, Sound(rd), NEW i \in Inums, NEW b \in Blocks,
         \A j \in Inums \ {i} : ~ InTree(rd, j, b),
         NEW cells \in [Offs -> Cells], NEW n \in Nat, rd.inodes[i].size <= n
  PROVE  Wrote(rd, [[rd EXCEPT !.data[b] = cells] EXCEPT !.inodes[i].size = n], i)
<1> DEFINE f == [rd EXCEPT !.data[b] = cells]
           e == [f EXCEPT !.inodes[i].size = n]
<1>1. rd \in Disks /\ rd.data \in [Blocks -> [Offs -> Cells]] /\ rd.inodes[i] \in Nodes
  BY DEF Sound, Disks
<1>2. Rewritten(rd, f, b, cells)
  BY CellsSet
<1> HIDE DEF f
<1>3. Retyped(f, e, i, [f.inodes[i] EXCEPT !.size = n])
  BY <1>2, SizeSet DEF Rewritten
<1> HIDE DEF e
<1>4. ASSUME NEW j \in Inums \ {i}
      PROVE  Kept(rd, e, j)
  <2>1. e.inodes[j] = rd.inodes[j]
    BY <1>2, <1>3 DEF Rewritten, Retyped
  <2>2. \A c \in Blocks : InTree(rd, j, c) => e.data[c] = rd.data[c] /\ e.ptrs[c] = rd.ptrs[c]
    BY <1>1, <1>2, <1>3 DEF Rewritten, Retyped
  <2>. QED  BY <2>1, <2>2 DEF Kept
<1>5. e.inodes[i].type = rd.inodes[i].type
  BY <1>1, <1>2, <1>3 DEF Rewritten, Retyped, Nodes
<1>6. e.inodes[i] = [rd.inodes[i] EXCEPT !.size = n] /\ e.ptrs = rd.ptrs
  BY <1>2, <1>3 DEF Rewritten, Retyped
<1>7. ASSUME Formed(rd, i) PROVE Formed(e, i)
  <2>1. /\ e.inodes[i].direct = rd.inodes[i].direct
        /\ e.inodes[i].indirect = rd.inodes[i].indirect
        /\ e.inodes[i].double = rd.inodes[i].double /\ e.inodes[i].size = n
    BY <1>1, <1>6 DEF Nodes
  <2>2. TablesFilled(e, i)
    BY <1>1, <1>6, <1>7, <2>1, SameFilled DEF Formed
  <2>3. Reaches(e.inodes[i])
    <3>1. \A k \in Nat : Slot(k, 0) \in Nat
      BY SlotAtLeast
    <3>2. DIRECT_POINTERS \in Nat /\ DIRECT_POINTERS + BLOCK_PTRS \in Nat /\ Directs \subseteq Nat
      BY InodeAssumption DEF Directs
    <3>3. rd.inodes[i].size \in Nat
      BY <1>1, DiskTypes
    <3>. QED  BY <1>7, <2>1, <3>1, <3>2, <3>3 DEF Formed, Reaches
  <2>. QED  BY <2>2, <2>3 DEF Formed
<1>8. Wrote(rd, e, i)
  BY <1>2, <1>3, <1>4, <1>5, <1>7 DEF Rewritten, Retyped, Wrote, OthersKept
<1>. QED  BY <1>8 DEF e, f

(* The block that a turn of the loop writes to *)
Holds(rd, got, i) ==
  /\ Wrote(rd, got.rd, i)
  /\ got.block # NULL =>
       got.block \in Blocks /\ \A j \in Inums \ {i} : ~ InTree(got.rd, j, got.block)

(* A block of the file is in no other tree. *)
LEMMA FoundHolds ==
  ASSUME NEW rd, Sound(rd), NEW i \in Inums, NEW b, b # NULL, InTree(rd, i, b)
  PROVE  Holds(rd, [block |-> b, rd |-> rd], i)
<1>1. rd \in Disks /\ OnePlace(rd) /\ b \in Blocks
  BY TreeAllocated, AllocatedFinite DEF Sound
<1>2. \A j \in Inums \ {i} : ~ InTree(rd, j, b)
  BY <1>1, TreesDisjoint
<1>3. Wrote(rd, rd, i)
  BY DEF Wrote, OthersKept, Kept
<1>. QED  BY <1>1, <1>2, <1>3 DEF Holds

(* Nor is the block that inode_add_block adds. *)
LEMMA AddedHolds ==
  ASSUME NEW rd, Sound(rd), NEW i \in Inums
  PROVE  Holds(rd, AddBlock(rd, i), i)
<1> DEFINE got == AddBlock(rd, i)
<1>1. Fresh(rd, got, i)
  BY AddBlockFresh
<1> HIDE DEF got
<1>2. rd \in Disks /\ got.rd \in Disks /\ Sound(got.rd) /\ OthersKept(rd, got.rd, i)
  BY <1>1 DEF Fresh, Grows, Sound
<1>3. Wrote(rd, got.rd, i)
  <2>1. Formed(rd, i) => Formed(got.rd, i)
    BY AddBlockFormed DEF got
  <2>. QED  BY <1>1, <2>1 DEF Fresh, Grows, Wrote
<1>4. ASSUME got.block # NULL
      PROVE  got.block \in Blocks /\ \A j \in Inums \ {i} : ~ InTree(got.rd, j, got.block)
  <2>1. got.block \in Allocated(got.rd) /\ got.block \notin Allocated(rd)
    BY <1>1, <1>4 DEF Fresh
  <2>2. ASSUME NEW j \in Inums \ {i}, InTree(got.rd, j, got.block)
        PROVE  FALSE
    <3>1. Kept(rd, got.rd, j)
      BY <1>2 DEF OthersKept
    <3>2. InTree(rd, j, got.block)
      BY <1>2, <2>2, <3>1, KeptTree
    <3>. QED  BY <1>2, <2>1, <2>2, <3>2, TreeAllocated DEF Sound
  <2>. QED  BY <2>1, <2>2, AllocatedFinite
<1>5. Holds(rd, got, i)
  BY <1>3, <1>4 DEF Holds
<1>. QED  BY <1>5 DEF got

(***************************************************************************)
(* The turns of the loop                                                   *)
(***************************************************************************)
Writing(rd, w, i) == Wrote(rd, w.rd, i) /\ w.pos \in Nat /\ w.left \in Nat

(* The cells that a turn writes, and how many there are left then *)
Overlaid(old, off, n, v) ==
  [o \in Offs |-> IF o \in off .. off + n - 1 THEN Bytes(v) ELSE old[o]]

LEMMA ChunkTypes ==
  ASSUME NEW pos \in Nat, NEW left \in Nat, NEW off, off = pos % BLOCK_CELLS,
         NEW n, n = Lesser(left, BLOCK_CELLS - off), NEW v \in Data,
         NEW old \in [Offs -> Cells]
  PROVE  /\ off \in Offs /\ n \in Nat /\ pos + n \in Nat /\ left - n \in Nat
         /\ Overlaid(old, off, n, v) \in [Offs -> Cells]
<1>1. off \in Offs
  BY SlotOf
<1>2. n \in Nat /\ n <= left
  BY <1>1, InodeAssumption DEF Lesser, Offs
<1>3. Bytes(v) \in Cells
  BY DEF Cells
<1>4. Overlaid(old, off, n, v) \in [Offs -> Cells]
  BY <1>3 DEF Overlaid
<1>. QED  BY <1>1, <1>2, <1>4

(* One turn of the loop *)
LEMMA ChunkWriting ==
  ASSUME NEW rd, Sound(rd), NEW i \in Inums, NEW w, Writing(rd, w, i), NEW v \in Data
  PROVE  Writing(rd, WriteChunk(w, i, v), i)
<1> DEFINE node  == w.rd.inodes[i]
           found == GetBlock(w.rd, node, w.pos)
           got   == IF found = NULL THEN AddBlock(w.rd, i)
                    ELSE [block |-> found, rd |-> w.rd]
           off   == w.pos % BLOCK_CELLS
           n     == Lesser(w.left, BLOCK_CELLS - off)
           Old(o) == IF found = NULL THEN Fill ELSE w.rd.data[found][o]
           cells == [o \in Offs |-> IF o \in off .. off + n - 1 THEN Bytes(v) ELSE Old(o)]
           size  == Greater(got.rd.inodes[i].size, w.pos + n)
<1>1. /\ Sound(w.rd) /\ w.rd \in Disks /\ OnePlace(w.rd)
      /\ w.pos \in Nat /\ w.left \in Nat /\ Wrote(rd, w.rd, i)
  BY DEF Writing, Wrote, Sound
<1>2. found \in Ptr /\ (found # NULL => found \in Blocks /\ InTree(w.rd, i, found))
  BY <1>1, GetBlockTree
<1>3. \A o \in Offs : Old(o) \in Cells
  <2>1. Fill \in Cells
    BY DEF Cells
  <2>2. found # NULL => w.rd.data[found] \in [Offs -> Cells]
    BY <1>1, <1>2, DiskTypes
  <2>. QED  BY <2>1, <2>2
<1> HIDE DEF found
<1>4. /\ n \in Nat /\ w.pos + n \in Nat /\ w.left - n \in Nat
      /\ cells \in [Offs -> Cells]
  <2> DEFINE old == [o \in Offs |-> Old(o)]
  <2>1. old \in [Offs -> Cells]
    BY <1>3
  <2>2. cells = Overlaid(old, off, n, v)
    BY DEF Overlaid
  <2>3. off = w.pos % BLOCK_CELLS /\ n = Lesser(w.left, BLOCK_CELLS - off)
    OBVIOUS
  <2> HIDE DEF old, cells, n, off
  <2>4. /\ n \in Nat /\ w.pos + n \in Nat /\ w.left - n \in Nat
        /\ Overlaid(old, off, n, v) \in [Offs -> Cells]
    BY <1>1, <2>1, <2>3, ChunkTypes
  <2>. QED  BY <2>2, <2>4
<1>5. Holds(w.rd, got, i)
  BY <1>1, <1>2, FoundHolds, AddedHolds
<1>6. WriteChunk(w, i, v) =
        IF got.block = NULL THEN [w EXCEPT !.rd = got.rd, !.failed = TRUE]
        ELSE [rd     |-> [got.rd EXCEPT !.data[got.block] = cells,
                                        !.inodes[i].size  = Greater(@, w.pos + n)],
              pos    |-> w.pos + n,
              left   |-> w.left - n,
              failed |-> FALSE]
  BY DEF WriteChunk, found
<1> HIDE DEF got, cells, n
<1>7. Wrote(rd, got.rd, i)
  BY <1>1, <1>5, WroteTransitive DEF Holds
<1>8. CASE got.block = NULL
  <2> DEFINE x == [w EXCEPT !.rd = got.rd, !.failed = TRUE]
  <2>1. WriteChunk(w, i, v) = x
    BY <1>6, <1>8
  <2>. QED  BY <1>1, <1>7, <1>8, <2>1 DEF Writing
<1>9. CASE got.block # NULL
  <2>1. Sound(got.rd) /\ got.rd \in Disks
    BY <1>7 DEF Wrote, Sound
  <2>2. size \in Nat /\ got.rd.inodes[i].size <= size
    BY <1>4, <2>1, DiskTypes DEF Greater
  <2> DEFINE f == [got.rd EXCEPT !.data[got.block] = cells]
             e == [f EXCEPT !.inodes[i].size = size]
  <2>3. Wrote(got.rd, e, i)
    <3> HIDE DEF size
    <3>. QED  BY <1>4, <1>5, <1>9, <2>1, <2>2, ChunkWritten DEF Holds
  <2>4. [got.rd EXCEPT !.data[got.block] = cells,
                       !.inodes[i].size  = Greater(@, w.pos + n)] = e
    BY <2>1 DEF Disks
  <2> HIDE DEF e
  <2>5. Wrote(rd, e, i)
    BY <1>7, <2>3, WroteTransitive
  <2>6. WriteChunk(w, i, v) = [rd |-> e, pos |-> w.pos + n, left |-> w.left - n, failed |-> FALSE]
    BY <1>6, <1>9, <2>4
  <2>. QED  BY <1>4, <2>5, <2>6 DEF Writing
<1>. QED  BY <1>8, <1>9

(* The equation of the recursive function in Turns *)
Turning(w, i, v, f, m) ==
  f = [n \in 0 .. m |-> IF n = 0 THEN w ELSE Turn(f[n - 1], i, v)]

(* There is a function that satisfies the equation. *)
LEMMA TurningExists ==
  ASSUME NEW w, NEW i, NEW v, NEW m \in Nat
  PROVE  \E f : Turning(w, i, v, f, m)
<1> DEFINE Bad == {n \in Nat : ~ \E f : Turning(w, i, v, f, n)}
<1> SUFFICES ASSUME Bad # {} PROVE FALSE
  OBVIOUS
<1>1. PICK n \in Bad : \A k \in Bad : n <= k
  <2>1. Bad \in SUBSET Nat
    OBVIOUS
  <2> HIDE DEF Bad
  <2>. QED  BY <2>1, MinIsLeast
<1>2. n # 0
  <2>1. Turning(w, i, v, [k \in 0 .. 0 |-> w], 0)
    BY DEF Turning
  <2>. QED  BY <2>1
<1>3. n - 1 \in Nat /\ n - 1 \notin Bad
  BY <1>1, <1>2
<1>4. PICK f : Turning(w, i, v, f, n - 1)
  BY <1>3
<1> DEFINE g == [k \in 0 .. n |-> IF k = 0 THEN w ELSE Turn(f[k - 1], i, v)]
<1>5. \A k \in 0 .. n - 1 : g[k] = f[k]
  <2>1. \A k \in 0 .. n - 1 : f[k] = IF k = 0 THEN w ELSE Turn(f[k - 1], i, v)
    BY <1>4 DEF Turning
  <2>2. \A k \in 0 .. n - 1 : k \in 0 .. n
    BY <1>1
  <2>. QED  BY <2>1, <2>2
<1>6. \A k \in 0 .. n : k = 0 \/ k - 1 \in 0 .. n - 1
  BY <1>1
<1>7. g = [k \in 0 .. n |-> IF k = 0 THEN w ELSE Turn(g[k - 1], i, v)]
  BY <1>5, <1>6
<1>8. Turning(w, i, v, g, n)
  BY <1>7 DEF Turning
<1>. QED  BY <1>1, <1>8

(* The whole loop, whatever number of cells is written *)
LEMMA WriteResult ==
  ASSUME NEW rd, Sound(rd), NEW i \in Inums, NEW pos \in Nat, NEW num_bytes \in Nat,
         NEW v \in Data
  PROVE  Writing(rd, Write(rd, i, pos, num_bytes, v), i)
<1> DEFINE w == [rd |-> rd, pos |-> pos, left |-> num_bytes, failed |-> FALSE]
           f == CHOOSE f : Turning(w, i, v, f, num_bytes)
<1>1. Turning(w, i, v, f, num_bytes)
  BY TurningExists
<1>2. Turns(rd, i, pos, num_bytes, v) = f
  BY DEF Turns, Turning
<1>3. Writing(rd, w, i)
  BY DEF Writing, Wrote, OthersKept, Kept
<1> HIDE DEF f, w
<1>4. \A n \in 0 .. num_bytes : f[n] = IF n = 0 THEN w ELSE Turn(f[n - 1], i, v)
  BY <1>1 DEF Turning
<1> DEFINE Bad == {n \in 0 .. num_bytes : ~ Writing(rd, f[n], i)}
<1>5. ASSUME Bad # {} PROVE FALSE
  <2>1. Bad \in SUBSET Nat
    OBVIOUS
  <2>2. PICK n \in Bad : \A k \in Bad : n <= k
    <3> HIDE DEF Bad
    <3>. QED  BY <1>5, <2>1, MinIsLeast
  <2>3. n # 0
    BY <1>3, <1>4
  <2>4. n - 1 \in 0 .. num_bytes /\ n - 1 \notin Bad
    BY <2>2, <2>3
  <2>5. Writing(rd, f[n - 1], i)
    BY <2>4
  <2>6. Writing(rd, Turn(f[n - 1], i, v), i)
    BY <2>5, ChunkWriting DEF Turn
  <2>. QED  BY <1>4, <2>2, <2>3, <2>6
<1>. QED  BY <1>2, <1>5 DEF Write

(* No entry changes when a file is written. *)
LEMMA TreeWrote ==
  ASSUME NEW rd, DiskInv(rd), NEW i \in Inums, rd.inodes[i].type = FILE, NEW e, Wrote(rd, e, i)
  PROVE  DiskInv(e) /\ DirsKept(rd, e, {})
<1>1. rd \in Disks /\ Counted(rd) /\ AllInOrder(rd)
  BY DiskInvTypes DEF DiskInv
<1>2. FILE # DIR /\ FILE # UNALLOCATED
  BY DEF FILE, DIR, UNALLOCATED
<1>3. DirsKept(rd, e, {})
  <2>1. ASSUME NEW d \in Inums, rd.inodes[d].type = DIR
        PROVE  DirKept(rd, e, d)
    <3>1. Kept(rd, e, d)
      BY <1>2, <2>1 DEF Wrote, OthersKept
    <3>. QED  BY <1>1, <2>1, <3>1, KeptInOrder DEF AllInOrder
  <2>. QED  BY <2>1 DEF DirsKept
<1>4. \A j \in Inums : e.inodes[j].type = rd.inodes[j].type
  BY DEF Wrote, OthersKept, Kept
<1>5. SameTable(rd, e, i)
  BY DEF Wrote, OthersKept, Kept, SameTable
<1>6. Counted(e)
  BY <1>1, <1>2, <1>4, <1>5, CountedSame DEF Wrote
<1>7. -1 \notin Inums
  BY InodeAssumption DEF Inums
<1>. QED  BY <1>3, <1>4, <1>6, <1>7, TreeSame

-----------------------------------------------------------------------------
(***************************************************************************)
(* What rd_unlink finds is an entry, and leads to an inode other than the  *)
(* directory it is in.  The empty name, which is that of the free entries, *)
(* would lead to the root; but that is a directory that is not empty       *)
(* whenever another one can be reached.                                    *)
(***************************************************************************)
Removable(rd, d, found, p) ==
  /\ d \in Directories(rd) /\ p \in Positions(rd, d)
  /\ found.inum = DirCell(rd, d, p).data
  /\ found.inum \in Inums \ {d}
  /\ rd.inodes[found.inum].type # UNALLOCATED
  /\ \E name : Finds(rd, d, name, found, p)

(* When the root is empty nothing else can be reached. *)
LEMMA EmptyRoot ==
  ASSUME NEW rd, DiskInv(rd), ~ (rd.inodes[Root].size > 0), NEW d, Reached(rd, d)
  PROVE  d = Root
<1>1. Positions(rd, Root) = {}
  <2>1. Root \in Inums /\ rd.inodes[Root].size \in Nat
    BY DiskInvTypes
  <2>. QED  BY <2>1 DEF Positions
<1>2. {Root} \in SUBSET Inums /\ Closed(rd, {Root})
  BY <1>1, DiskInvTypes DEF Closed
<1>. QED  BY <1>2 DEF Reached

(* When rd_unlink goes on, there is an entry to remove. *)
LEMMA UnlinkFinds ==
  ASSUME NEW rd, DiskInv(rd), NEW path \in Seq(Labels),
         NEW d, d = GetParent(rd, path), ~ (d < 0),
         NEW found, found = FindEntry(rd, rd.inodes[d], Last(path)), ~ (found.inum < 0),
         ~ (rd.inodes[found.inum].type = DIR /\ rd.inodes[found.inum].size > 0)
  PROVE  Last(path) \in Names /\ \E p : Removable(rd, d, found, p)
<1>1. path # <<>>
  BY DEF GetParent
<1>2. Last(path) \in Labels
  BY <1>1, FrontIs
<1>3. d \in Inums /\ Reached(rd, d)
  BY ParentLeads DEF Leads
<1>4. rd \in Disks /\ Root \in Inums /\ Root \in Directories(rd) /\ rd.inodes[Root].type = DIR
  BY DiskInvTypes DEF Directories
<1>5. rd.inodes[d].type = DIR => InOrder(rd, d)
  BY <1>3 DEF DiskInv, AllInOrder
<1>6. found # NotFound
  BY DEF NotFound
<1>7. CASE Last(path) = NoName
  <2>1. rd.inodes[d].size > 0 /\ found.inum = Root
    BY <1>3, <1>4, <1>5, <1>6, <1>7, FindNoName
  <2>2. ~ (rd.inodes[Root].size > 0)
    BY <1>4, <2>1
  <2>. QED  BY <1>3, <2>1, <2>2, EmptyRoot
<1>8. CASE Last(path) \in Names
  <2>1. PICK p : rd.inodes[d].type = DIR /\ Finds(rd, d, Last(path), found, p)
    BY <1>3, <1>4, <1>5, <1>6, <1>8, FindEntryResult
  <2>2. d \in Directories(rd) /\ p \in Positions(rd, d) /\ found.inum = DirCell(rd, d, p).data
    BY <1>3, <2>1 DEF Finds, Positions, Directories
  <2>3. found.inum \in Inums /\ rd.inodes[found.inum].type # UNALLOCATED
    BY <2>2 DEF DiskInv, RootedTree, EntriesLead
  <2>4. rd.inodes[d].size > 0
    <3>1. rd.inodes[d].size \in Nat
      BY <1>3, DiskInvTypes
    <3>. QED  BY <2>2, <3>1 DEF Positions
  <2>5. found.inum # d
    BY <2>1, <2>4
  <2>. QED  BY <1>8, <2>1, <2>2, <2>3, <2>5 DEF Removable
<1>. QED  BY <1>2, <1>7, <1>8 DEF Labels

(* The inode c that is freed was a file or an empty directory. *)
Vacated(rd, e, c) ==
  /\ rd.inodes[c].type = DIR => rd.inodes[c].size = 0
  /\ e.inodes[c].type = UNALLOCATED
  /\ \A j \in Inums \ {c} : e.inodes[j].type = rd.inodes[j].type

(* rd_unlink releases the blocks, frees the inode and removes the entry. *)
LEMMA UnlinkTree ==
  ASSUME NEW rd, DiskInv(rd), NEW d, NEW found, NEW p, Removable(rd, d, found, p),
         ~ (rd.inodes[found.inum].type = DIR /\ rd.inodes[found.inum].size > 0),
         NEW e, e = RemoveEntry(DeallocateInode(Release(rd, found.inum), found.inum), d, found)
  PROVE  /\ DiskInv(e) /\ Vacated(rd, e, found.inum)
         /\ EntriesElse(rd, e, d, p, found.inum) /\ Unlinked(rd, e, d, p, found.inum)
         /\ Shapes(rd) => Shapes(e) /\ (Tight(rd, found.inum) => NoneLost(rd, e))
<1> DEFINE c == found.inum
<1>1. /\ d \in Inums /\ rd.inodes[d].type = DIR /\ c \in Inums \ {d}
      /\ Counted(rd) /\ AllInOrder(rd)
  BY DiskInvTypes DEF DiskInv, Removable, Directories
<1>2. PICK name : Finds(rd, d, name, found, p)
  BY DEF Removable
<1>3. Unlinked(rd, e, d, p, c)
  BY <1>1, <1>2, UnlinkedResult DEF Removable
<1>4. rd.inodes[c].type = DIR => rd.inodes[c].size = 0
  <2>1. rd.inodes[c].size \in Nat
    BY <1>1, DiskInvTypes
  <2>. QED  BY <2>1
<1>5. Vacated(rd, e, c)
  BY <1>3, <1>4 DEF Vacated, Unlinked
<1>6. Shapes(rd) => Shapes(e) /\ (Tight(rd, c) => NoneLost(rd, e))
  BY <1>3 DEF Unlinked
<1>7. DiskInv(e) /\ EntriesElse(rd, e, d, p, c)
  BY <1>1, <1>3, <1>4, TreeUnlinked DEF Removable
<1>. QED  BY <1>3, <1>5, <1>6, <1>7

-----------------------------------------------------------------------------
(***************************************************************************)
(* The disk that _ramdisk_initialize makes                                 *)
(***************************************************************************)
BlankDisk ==
  [pool        |-> InitialPool,
   free_inodes |-> INODES,
   inodes      |-> [i \in Inums |-> InitialInode],
   data        |-> [b \in Blocks |-> [o \in Offs |-> Stale]],
   ptrs        |-> [b \in Blocks |-> NullPtrs]]

(* Before the root is taken, every inode is free and has no blocks. *)
LEMMA BlankCounted ==
  Counted(BlankDisk) /\ Unallocated(BlankDisk) = Inums /\ Allocated(BlankDisk) = {}
<1> DEFINE rd == BlankDisk
<1>1. rd \in Disks
  <2>1. Stale \in Cells
    BY DEF Cells
  <2>2. INODES \in Int
    BY InodeAssumption
  <2>. QED  BY <2>1, <2>2, ZeroTypes, InitialInodeType, InitialPoolResult DEF BlankDisk, Disks
<1>2. \A x, a, k : IsPlace(x, a, k) => PtrAt(rd, x, a, k) = NULL
  <2>1. \A a \in Blocks, k \in Places : rd.ptrs[a][k] = NULL
    BY DEF BlankDisk, NullPtrs
  <2>2. \A a \in Inums, k \in Directs : rd.inodes[a].direct[k] = NULL
    BY DEF BlankDisk, InitialInode
  <2>3. \A a \in Inums : rd.inodes[a].indirect = NULL /\ rd.inodes[a].double = NULL
    BY DEF BlankDisk, InitialInode
  <2> HIDE DEF rd
  <2>. QED  BY <2>1, <2>2, <2>3 DEF IsPlace, PtrAt, NodePtr
<1>3. OnePlace(rd) /\ PlacedAllocated(rd)
  <2> HIDE DEF rd
  <2>. QED  BY <1>2 DEF OnePlace, PlacedAllocated
<1>4. rd.pool = InitialPool /\ rd.free_inodes = INODES /\ \A i \in Inums : rd.inodes[i] = InitialInode
  BY DEF BlankDisk
<1>5. Allocated(rd) = {}
  <2>1. \A b \in Blocks : b + OVERHEAD_BLOCKS \notin Overhead
    BY PoolAssumption DEF Blocks, Overhead
  <2> HIDE DEF rd
  <2>. QED  BY <1>4, <2>1, InitialPoolResult DEF Allocated
<1> HIDE DEF rd
<1>6. PoolExact(rd)
  <2>1. Cardinality({}) = 0
    BY FS_EmptySet
  <2>2. FS_BLOCKS - 0 = FS_BLOCKS
    BY PoolAssumption DEF FS_BLOCKS
  <2>. QED  BY <1>4, <1>5, <2>1, <2>2, InitialPoolResult DEF PoolExact
<1>7. Sound(rd)
  BY <1>1, <1>3, <1>6 DEF Sound
<1>8. Unallocated(rd) = Inums
  BY <1>4 DEF Unallocated, InitialInode
<1>9. Cardinality(Inums) = INODES
  BY InodeAssumption, FS_Interval DEF Inums
<1>10. Counted(rd)
  BY <1>4, <1>7, <1>8, <1>9 DEF Counted
<1>. QED  BY <1>5, <1>8, <1>10 DEF rd

(* The disk that the module starts with *)
LEMMA EmptyDiskInv ==
  /\ DiskInv(EmptyDisk) /\ \A i \in Inums \ {Root} : EmptyDisk.inodes[i].type = UNALLOCATED
  /\ Shapes(EmptyDisk) /\ Allocated(EmptyDisk) = {}
<1> DEFINE got == AllocateInode(BlankDisk, DIR)
           e == got.rd
<1>1. EmptyDisk = e
  BY DEF EmptyDisk, BlankDisk
<1>2. Root \in Inums /\ Inums \in SUBSET Nat /\ \A i \in Inums : Root <= i
  BY InodeAssumption DEF Inums, Root
<1>3. Min(Inums) = Root
  <2>1. Min(Inums) \in Inums /\ Min(Inums) <= Root
    BY <1>2, MinIsLeast
  <2>2. Min(Inums) \in Nat
    BY <1>2, <2>1
  <2> DEFINE m == Min(Inums)
  <2> HIDE DEF m
  <2>3. m \in Nat /\ m <= Root
    BY <2>1, <2>2 DEF m
  <2>4. m = Root
    BY <2>3 DEF Root
  <2>. QED  BY <2>4 DEF m
<1>4. got.inum \in Inums /\ Takes(BlankDisk, e, got.inum, DIR)
  <2>1. DIR \in {FILE, DIR}
    OBVIOUS
  <2>2. \/ got = [inum |-> -1, rd |-> BlankDisk] /\ Unallocated(BlankDisk) = {}
        \/ got.inum \in Inums /\ Takes(BlankDisk, e, got.inum, DIR)
    BY <2>1, BlankCounted, AllocateInodeResult
  <2>. QED  BY <1>2, <2>2, BlankCounted
<1>5. got.inum = Root
  <2>1. {i \in Inums : BlankDisk.inodes[i].type = UNALLOCATED} = Inums
    BY BlankCounted DEF Unallocated
  <2>2. BlankDisk.free_inodes # 0
    BY InodeAssumption DEF BlankDisk
  <2>. QED  BY <1>2, <1>3, <2>1, <2>2 DEF AllocateInode
<1> HIDE DEF got
<1>6. Sound(e) /\ e \in Disks /\ e.inodes[Root] = [InitialInode EXCEPT !.type = DIR]
  BY <1>4, <1>5 DEF Takes, Sound
<1>7. /\ e.inodes[Root].type = DIR /\ e.inodes[Root].size = 0 /\ InOrder(e, Root)
  BY <1>2, <1>6, NewInOrder
<1>8. \A i \in Inums \ {Root} : e.inodes[i] = BlankDisk.inodes[i] /\ e.inodes[i].type = UNALLOCATED
  BY <1>4, <1>5, BlankCounted DEF Takes, Unallocated
<1>9. DIR # UNALLOCATED
  BY DEF DIR, UNALLOCATED
<1>10. Counted(e)
  <2>1. SameTable(BlankDisk, e, Root)
    BY <1>8 DEF SameTable
  <2>. QED  BY <1>2, <1>4, <1>5, <1>6, <1>7, <1>9, <2>1, BlankCounted, CountedTaken DEF Takes
<1>11. AllInOrder(e)
  BY <1>7, <1>8, <1>9 DEF AllInOrder
<1> HIDE DEF e
<1>12. Directories(e) = {Root} /\ Positions(e, Root) = {}
  <2>1. Directories(e) = {Root}
    BY <1>2, <1>7, <1>8, <1>9 DEF Directories
  <2>2. 0 .. 0 - 1 = {}
    OBVIOUS
  <2>3. Positions(e, Root) = {}
    BY <1>7, <2>2 DEF Positions
  <2>. QED  BY <2>1, <2>3
<1>13. RootedTree(e)
  BY <1>7, <1>12 DEF RootedTree, EntriesLead, EntriesDiffer
<1>14. Shapes(e) /\ Allocated(e) = {}
  <2>1. Shapes(BlankDisk)
    BY BlankCounted DEF Shapes, Unallocated, UNALLOCATED, FILE, DIR
  <2>2. Tends(BlankDisk, e)
    <3>1. DIR \in {FILE, DIR}
      OBVIOUS
    <3>. QED  BY <1>4, <3>1, BlankCounted, TakesTends
  <2>. QED  BY <1>4, <2>1, <2>2, BlankCounted DEF Tends, Takes
<1>. QED  BY <1>1, <1>8, <1>10, <1>11, <1>13, <1>14 DEF DiskInv, e

-----------------------------------------------------------------------------
(***************************************************************************)
(* The inductive invariant, and what a call can do while it holds.         *)
(***************************************************************************)
IInv ==
  /\ DiskInv(RAMDISK)
  /\ Held(fdtablea)
  /\ ret \in Int

(* The disk is not touched. *)
Quietly ==
  /\ RAMDISK' = RAMDISK
  /\ Held(fdtablea') /\ ret' \in Int

(* The module is initialised. *)
Starts ==
  /\ RAMDISK' = EmptyDisk
  /\ fdtablea' = InitialTables /\ ret' \in Int

(* A file or a directory is made. *)
Creates ==
  \E d, name, made, type :
    /\ d \in Inums /\ type \in {FILE, DIR} /\ Reached(RAMDISK, d)
    /\ Entered(RAMDISK, made, d, name, type)
    /\ RAMDISK' = made.rd
    /\ fdtablea' = fdtablea /\ ret' \in Int

(* An inode is taken for one, and the directory cannot grow. *)
Spoils ==
  \E made, type :
    /\ type \in {FILE, DIR}
    /\ Orphaned(RAMDISK, made, type)
    /\ RAMDISK' = made.rd
    /\ fdtablea' = fdtablea /\ ret' = -1
    /\ \E path \in Paths : rd_creat(path) \/ rd_mkdir(path)

(* An entry is removed, and the inode it leads to is freed. *)
Unlinks ==
  \E path, d, found, p :
    /\ path \in Paths /\ Last(path) \in Names
    /\ CheckForInode(fdtablea, WalkPath(RAMDISK, path)) # 1
    /\ d = GetParent(RAMDISK, path) /\ ~ (d < 0)
    /\ found = FindEntry(RAMDISK, RAMDISK.inodes[d], Last(path))
    /\ Removable(RAMDISK, d, found, p)
    /\ ~ (RAMDISK.inodes[found.inum].type = DIR /\ RAMDISK.inodes[found.inum].size > 0)
    /\ RAMDISK' = RemoveEntry(DeallocateInode(Release(RAMDISK, found.inum), found.inum), d, found)
    /\ fdtablea' = fdtablea /\ ret' \in Int
    /\ rd_unlink(path)

(* A file is written. *)
Fills ==
  \E i \in Inums :
    /\ RAMDISK.inodes[i].type = FILE
    /\ Wrote(RAMDISK, RAMDISK', i)
    /\ Held(fdtablea') /\ ret' \in Int
    /\ \E pid \in Pids, fd \in Fds, n \in WriteLens, v \in Data :
         i = InodeOf(pid, fd) /\ Usable(pid, fd, FILE) /\ rd_write(pid, fd, n, v)

(* The paths that calls are made with *)
LEMMA PathLabels ==
  ASSUME NEW path \in Paths
  PROVE  path \in Seq(Labels)
BY RamdiskAssumption DEF Labels

(* A call that returns at once *)
LEMMA AnswerQuietly ==
  ASSUME IInv, NEW r \in Int, Answer(r)
  PROVE  Quietly
BY DEF IInv, Answer, Quietly

(* rd_creat and rd_mkdir: nothing, an entry, or an inode without one *)
LEMMA MakeCases ==
  ASSUME IInv, NEW path \in Paths, NEW type \in {FILE, DIR}, Make(path, type),
         rd_creat(path) \/ rd_mkdir(path)
  PROVE  Quietly \/ Creates \/ Spoils
<1> DEFINE parent == GetParent(RAMDISK, path)
           made   == AddEntry(RAMDISK, parent, Last(path), type)
<1>1. DiskInv(RAMDISK) /\ Held(fdtablea) /\ ret \in Int
  BY DEF IInv
<1>2. CASE parent < 0
  <2>1. Answer(-1)
    BY <1>2 DEF Make
  <2>. QED  BY <2>1, AnswerQuietly
<1>3. CASE ~ (parent < 0)
  <2>1. /\ RAMDISK' = made.rd
        /\ ret' = IF made.inum >= 0 THEN 0 ELSE -1
        /\ fdtablea' = fdtablea
    BY <1>3 DEF Make
  <2>2. path \in Seq(Labels)
    BY PathLabels
  <2>3. parent \in Inums /\ Reached(RAMDISK, parent)
    BY <1>1, <1>3, <2>2, ParentLeads DEF Leads
  <2>4. path # <<>>
    BY <1>3 DEF GetParent
  <2>5. Last(path) \in Names \cup {NoName}
    BY <2>2, <2>4, FrontIs DEF Labels
  <2>6. Counted(RAMDISK) /\ AllInOrder(RAMDISK) /\ RoomLeft(RAMDISK)
    BY <1>1, TreeRoom DEF DiskInv
  <2> HIDE DEF parent
  <2>7. \/ Refused(RAMDISK, made)
        \/ Orphaned(RAMDISK, made, type)
        \/ Entered(RAMDISK, made, parent, Last(path), type)
    BY <2>3, <2>5, <2>6, AddEntryResult
  <2> HIDE DEF made
  <2>8. ret' \in Int
    BY <2>1
  <2>9. CASE Refused(RAMDISK, made)
    BY <1>1, <2>1, <2>8, <2>9 DEF Refused, Quietly
  <2>10. CASE Orphaned(RAMDISK, made, type)
    <3>1. ret' = -1
      BY <2>1, <2>10 DEF Orphaned
    <3>. QED  BY <2>1, <2>10, <3>1 DEF Spoils
  <2>11. CASE Entered(RAMDISK, made, parent, Last(path), type)
    BY <2>1, <2>3, <2>8, <2>11 DEF Creates
  <2>. QED  BY <2>7, <2>9, <2>10, <2>11
<1>. QED  BY <1>2, <1>3

(* rd_unlink: nothing, or an entry removed *)
LEMMA UnlinkCases ==
  ASSUME IInv, NEW path \in Paths, rd_unlink(path)
  PROVE  Quietly \/ Unlinks
<1> DEFINE idx    == WalkPath(RAMDISK, path)
           d      == GetParent(RAMDISK, path)
           found  == FindEntry(RAMDISK, RAMDISK.inodes[d], Last(path))
           item   == RAMDISK.inodes[found.inum]
           stops  == \/ CheckForInode(fdtablea, idx) = 1
                     \/ d < 0
                     \/ found.inum < 0
                     \/ item.type = DIR /\ item.size > 0
<1>1. CASE stops
  <2>1. Answer(-1)
    BY <1>1 DEF rd_unlink
  <2>. QED  BY <2>1, AnswerQuietly
<1>2. CASE ~ stops
  <2>1. /\ RAMDISK' = RemoveEntry(DeallocateInode(Release(RAMDISK, found.inum), found.inum), d, found)
        /\ ret' = 0 /\ fdtablea' = fdtablea
    BY <1>2 DEF rd_unlink
  <2>2. DiskInv(RAMDISK) /\ path \in Seq(Labels)
    BY PathLabels DEF IInv
  <2>3. /\ CheckForInode(fdtablea, idx) # 1 /\ ~ (d < 0) /\ ~ (found.inum < 0)
        /\ ~ (RAMDISK.inodes[found.inum].type = DIR /\ RAMDISK.inodes[found.inum].size > 0)
    BY <1>2
  <2>4. Last(path) \in Names /\ \E p : Removable(RAMDISK, d, found, p)
    <3> HIDE DEF d
    <3>1. d = GetParent(RAMDISK, path)
      BY DEF d
    <3>2. found = FindEntry(RAMDISK, RAMDISK.inodes[d], Last(path))
      OBVIOUS
    <3> HIDE DEF found
    <3>. QED  BY <2>2, <2>3, <3>1, <3>2, UnlinkFinds
  <2>5. ret' \in Int
    BY <2>1
  <2>. QED  BY <2>1, <2>3, <2>4, <2>5 DEF Unlinks
<1>. QED  BY <1>1, <1>2

(* rd_open changes the tables only. *)
LEMMA OpenQuietly ==
  ASSUME IInv, NEW pid \in Pids, NEW path \in Paths, rd_open(pid, path)
  PROVE  Quietly
<1> DEFINE idx  == WalkPath(RAMDISK, path)
           made == CreateEntry(fdtablea, pid, idx)
<1>1. CASE idx < 0
  <2>1. Answer(-1)
    BY <1>1 DEF rd_open
  <2>. QED  BY <2>1, AnswerQuietly
<1>2. CASE ~ (idx < 0)
  <2>1. DiskInv(RAMDISK) /\ Held(fdtablea) /\ path \in Seq(Labels)
    BY PathLabels DEF IInv
  <2>2. idx \in Inums
    BY <1>2, <2>1, WalkLeads DEF Leads
  <2>3. fdtablea' = made.tables /\ ret' = made.fd /\ RAMDISK' = RAMDISK
    BY <1>2 DEF rd_open
  <2>4. Held(made.tables) /\ made.fd \in Int
    BY <2>1, <2>2, CreateHeld
  <2> HIDE DEF made
  <2>. QED  BY <2>3, <2>4 DEF Quietly
<1>. QED  BY <1>1, <1>2

(* rd_close changes the tables only. *)
LEMMA CloseQuietly ==
  ASSUME IInv, NEW pid \in Pids, NEW fd, rd_close(pid, fd)
  PROVE  Quietly
<1> DEFINE removed == RemoveAtFd(fdtablea, pid, fd)
<1>1. Held(removed.tables) /\ removed.ret \in Int
  BY RemoveHeld DEF IInv
<1>2. fdtablea' = removed.tables /\ ret' = removed.ret /\ RAMDISK' = RAMDISK
  BY DEF rd_close
<1> HIDE DEF removed
<1>. QED  BY <1>1, <1>2 DEF Quietly

(* A descriptor is moved. *)
LEMMA MoveHeld ==
  ASSUME IInv, NEW pid \in Pids, NEW fd, NEW offset \in Int, MoveTo(pid, fd, offset)
  PROVE  Held(fdtablea')
BY SeekHeld DEF IInv, MoveTo

(* What the calls with a descriptor begin with *)
LEMMA UsableTypes ==
  ASSUME IInv, NEW pid, NEW fd
  PROVE  /\ InodeOf(pid, fd) \in Inums \cup {-1} /\ PositionOf(pid, fd) \in Int
         /\ InodeOf(pid, fd) >= 0 =>
              InodeOf(pid, fd) \in Inums /\ RAMDISK.inodes[InodeOf(pid, fd)].size \in Nat
<1>1. InodeOf(pid, fd) \in Inums \cup {-1} /\ PositionOf(pid, fd) \in Int
  BY ForFdTypes DEF IInv, InodeOf, PositionOf
<1>2. \A i \in Inums : RAMDISK.inodes[i].size \in Nat
  BY DiskInvTypes DEF IInv
<1>. QED  BY <1>1, <1>2

(* rd_readdir moves a descriptor. *)
LEMMA ReaddirQuietly ==
  ASSUME IInv, NEW pid \in Pids, NEW fd, rd_readdir(pid, fd)
  PROVE  Quietly
<1> DEFINE pos == PositionOf(pid, fd)
<1>1. CASE \E r \in {-1, 0} : Answer(r)
  BY <1>1, AnswerQuietly
<1>2. CASE MoveTo(pid, fd, pos + 1) /\ ret' = 1 /\ RAMDISK' = RAMDISK
  <2>1. pos + 1 \in Int
    BY UsableTypes
  <2> HIDE DEF pos
  <2>2. Held(fdtablea')
    BY <1>2, <2>1, MoveHeld
  <2>. QED  BY <1>2, <2>2 DEF Quietly
<1>. QED  BY <1>1, <1>2 DEF rd_readdir

(* rd_seek moves a descriptor. *)
LEMMA SeekQuietly ==
  ASSUME IInv, NEW pid \in Pids, NEW fd, NEW offset \in SeekOffsets, rd_seek(pid, fd, offset)
  PROVE  Quietly
<1>1. PICK target \in Target(pid, fd, offset) : MoveTo(pid, fd, target)
  BY DEF rd_seek
<1>2. target \in Int
  <2>1. SeekOffsets \subseteq Int
    BY RamdiskAssumption
  <2>. QED  BY <1>1, <2>1, UsableTypes DEF Target
<1>3. Held(fdtablea')
  BY <1>1, <1>2, MoveHeld
<1>. QED  BY <1>3 DEF rd_seek, Quietly

(* rd_read moves a descriptor. *)
LEMMA ReadQuietly ==
  ASSUME IInv, NEW pid \in Pids, NEW fd, NEW n \in ReadLens, rd_read(pid, fd, n)
  PROVE  Quietly
<1> DEFINE node  == RAMDISK.inodes[InodeOf(pid, fd)]
           pos   == PositionOf(pid, fd)
           total == Lesser(n, node.size - pos)
<1>1. CASE \E r \in {-1, 0} : Answer(r)
  BY <1>1, AnswerQuietly
<1>2. CASE /\ Usable(pid, fd, FILE)
           /\ MoveTo(pid, fd, pos + total) /\ ret' = total /\ RAMDISK' = RAMDISK
  <2>1. n \in Nat
    BY RamdiskAssumption
  <2>2. pos \in Int /\ node.size \in Nat
    BY <1>2, UsableTypes DEF Usable
  <2> HIDE DEF pos, node
  <2>3. total \in Int /\ pos + total \in Int
    BY <2>1, <2>2 DEF Lesser
  <2> HIDE DEF total
  <2>4. Held(fdtablea')
    BY <1>2, <2>3, MoveHeld
  <2>. QED  BY <1>2, <2>3, <2>4 DEF Quietly
<1>. QED  BY <1>1, <1>2 DEF rd_read

(* rd_write: nothing, or one file written, the descriptor moved either way *)
LEMMA WriteCases ==
  ASSUME IInv, NEW pid \in Pids, NEW fd \in Fds, NEW n \in WriteLens, NEW v \in Data,
         rd_write(pid, fd, n, v)
  PROVE  Quietly \/ Fills
<1> DEFINE i   == InodeOf(pid, fd)
           pos == PositionOf(pid, fd)
           w   == Write(RAMDISK, i, pos, n, v)
<1>1. CASE ~ Usable(pid, fd, FILE)
  <2>1. Answer(-1)
    BY <1>1 DEF rd_write
  <2>. QED  BY <2>1, AnswerQuietly
<1>2. CASE Usable(pid, fd, FILE)
  <2>1. n \in Nat
    BY RamdiskAssumption
  <2>2. i \in Inums /\ pos \in Nat /\ RAMDISK.inodes[i].type = FILE
    BY <1>2, UsableTypes DEF Usable
  <2>3. Sound(RAMDISK)
    BY DiskInvTypes DEF IInv
  <2>4. /\ RAMDISK' = w.rd
        /\ IF w.failed THEN ret' = -1 /\ fdtablea' = fdtablea
           ELSE ret' = n /\ MoveTo(pid, fd, w.pos)
    BY <1>2 DEF rd_write
  <2> HIDE DEF i, pos
  <2>5. Writing(RAMDISK, w, i)
    BY <2>1, <2>2, <2>3, WriteResult
  <2> HIDE DEF w
  <2>6. Wrote(RAMDISK, RAMDISK', i) /\ w.pos \in Int
    BY <2>4, <2>5 DEF Writing
  <2>7. ret' \in Int
    BY <2>1, <2>4
  <2>8. Held(fdtablea')
    BY <2>4, <2>6, MoveHeld DEF IInv
  <2>9. i = InodeOf(pid, fd)
    BY DEF i
  <2>. QED  BY <1>2, <2>2, <2>6, <2>7, <2>8, <2>9 DEF Fills
<1>. QED  BY <1>1, <1>2

(* There is no other call. *)
LEMMA CallCases ==
  ASSUME IInv, Next
  PROVE  Quietly \/ Starts \/ Creates \/ Spoils \/ Unlinks \/ Fills
<1>1. CASE rd_init
  BY <1>1 DEF rd_init, Starts
<1>2. CASE rd_test
  BY <1>2, AnswerQuietly DEF rd_test
<1>3. CASE \E path \in Paths : rd_creat(path)
  <2>1. PICK path \in Paths : rd_creat(path)
    BY <1>3
  <2>2. Make(path, FILE)
    BY <2>1 DEF rd_creat
  <2>. QED  BY <2>1, <2>2, MakeCases
<1>4. CASE \E path \in MkdirPaths : rd_mkdir(path)
  <2>1. PICK path \in MkdirPaths : rd_mkdir(path)
    BY <1>4
  <2>2. Make(path, DIR) /\ path \in Paths
    BY <2>1, RamdiskAssumption DEF rd_mkdir
  <2>. QED  BY <2>1, <2>2, MakeCases
<1>5. CASE \E path \in Paths : rd_unlink(path)
  BY <1>5, UnlinkCases
<1>6. CASE \E pid \in Pids, path \in Paths : rd_open(pid, path)
  BY <1>6, OpenQuietly
<1>7. CASE \E pid \in Pids, fd \in Fds : rd_close(pid, fd)
  BY <1>7, CloseQuietly
<1>8. CASE \E pid \in Pids, fd \in Fds : rd_readdir(pid, fd)
  BY <1>8, ReaddirQuietly
<1>9. CASE \E pid \in Pids, fd \in Fds, offset \in SeekOffsets : rd_seek(pid, fd, offset)
  BY <1>9, SeekQuietly
<1>10. CASE \E pid \in Pids, fd \in Fds, n \in ReadLens : rd_read(pid, fd, n)
  BY <1>10, ReadQuietly
<1>11. CASE \E pid \in Pids, fd \in Fds, n \in WriteLens, v \in Data : rd_write(pid, fd, n, v)
  BY <1>11, WriteCases
<1>. QED
  BY <1>1, <1>2, <1>3, <1>4, <1>5, <1>6, <1>7, <1>8, <1>9, <1>10, <1>11 DEF Next

-----------------------------------------------------------------------------
(* What each of these leaves of the disk *)
LEMMA CreatesDisk ==
  ASSUME IInv, Creates
  PROVE  /\ DiskInv(RAMDISK') /\ EntriesStay(RAMDISK, RAMDISK')
         /\ \E d, name, c, type :
              /\ d \in Directories(RAMDISK) /\ type # UNALLOCATED
              /\ Created(RAMDISK, RAMDISK', c, type)
              /\ DirExtended(RAMDISK, RAMDISK', d, name, c)
<1>1. PICK d, name, made, type :
        /\ d \in Inums /\ type \in {FILE, DIR} /\ Reached(RAMDISK, d)
        /\ Entered(RAMDISK, made, d, name, type)
        /\ RAMDISK' = made.rd
  BY DEF Creates
<1>2. DiskInv(RAMDISK)
  BY DEF IInv
<1>3. DiskInv(made.rd) /\ EntriesStay(RAMDISK, made.rd)
  BY <1>1, <1>2, TreeEntered
<1>4. d \in Directories(RAMDISK) /\ type # UNALLOCATED
  BY <1>1 DEF Entered, Directories, FILE, DIR, UNALLOCATED
<1>. QED  BY <1>1, <1>3, <1>4 DEF Entered

(* The inode that is taken in vain has no entries. *)
LEMMA SpoilsDisk ==
  ASSUME IInv, Spoils
  PROVE  /\ DiskInv(RAMDISK') /\ DirsKept(RAMDISK, RAMDISK', {})
         /\ \E c, type : Created(RAMDISK, RAMDISK', c, type)
<1>1. PICK made, type : Orphaned(RAMDISK, made, type) /\ RAMDISK' = made.rd
  BY DEF Spoils
<1>2. PICK c : Created(RAMDISK, made.rd, c, type)
  BY <1>1 DEF Orphaned
<1>3. DiskInv(RAMDISK) /\ DirsKept(RAMDISK, made.rd, {}) /\ Counted(made.rd)
  BY <1>1, <1>2 DEF IInv, Orphaned, Created
<1>4. \A j \in Inums : made.rd.inodes[j].type # RAMDISK.inodes[j].type => j = c
  BY <1>2 DEF Created
<1>5. /\ RAMDISK.inodes[c].type = UNALLOCATED
      /\ made.rd.inodes[c].type = DIR => made.rd.inodes[c].size = 0 /\ InOrder(made.rd, c)
  BY <1>2 DEF Created, Unallocated
<1>6. DiskInv(made.rd)
  BY <1>3, <1>4, <1>5, TreeSame
<1>. QED  BY <1>1, <1>2, <1>3, <1>6

(* The inode that is freed was empty, and other entries stay. *)
LEMMA UnlinksDisk ==
  ASSUME IInv, Unlinks
  PROVE  /\ DiskInv(RAMDISK')
         /\ \E d, found, p : /\ Removable(RAMDISK, d, found, p)
                             /\ Vacated(RAMDISK, RAMDISK', found.inum)
                             /\ EntriesElse(RAMDISK, RAMDISK', d, p, found.inum)
BY UnlinkTree DEF IInv, Unlinks

(* No inode is taken or freed. *)
LEMMA FillsDisk ==
  ASSUME IInv, Fills
  PROVE  /\ DiskInv(RAMDISK') /\ DirsKept(RAMDISK, RAMDISK', {})
         /\ \A j \in Inums : RAMDISK'.inodes[j].type = RAMDISK.inodes[j].type
<1>1. PICK i \in Inums : RAMDISK.inodes[i].type = FILE /\ Wrote(RAMDISK, RAMDISK', i)
  BY DEF Fills
<1>2. DiskInv(RAMDISK)
  BY DEF IInv
<1>3. \A j \in Inums : RAMDISK'.inodes[j].type = RAMDISK.inodes[j].type
  BY <1>1 DEF Wrote, OthersKept, Kept
<1>. QED  BY <1>1, <1>2, <1>3, TreeWrote

(* The invariant holds at the start. *)
LEMMA InitIInv ==
  ASSUME Init
  PROVE  IInv
BY EmptyDiskInv, InitialHeld DEF Init, IInv

(* Every call keeps the invariant. *)
LEMMA NextIInv ==
  ASSUME IInv, [Next]_vars
  PROVE  IInv'
<1>1. SUFFICES DiskInv(RAMDISK') /\ Held(fdtablea') /\ ret' \in Int
  BY DEF IInv
<1>2. CASE UNCHANGED vars
  BY <1>2 DEF vars, IInv
<1>3. CASE Quietly
  BY <1>3 DEF Quietly, IInv
<1>4. CASE Starts
  BY <1>4, EmptyDiskInv, InitialHeld DEF Starts
<1>5. CASE Creates
  BY <1>5, CreatesDisk DEF Creates, IInv
<1>6. CASE Spoils
  BY <1>6, SpoilsDisk DEF Spoils, IInv
<1>7. CASE Unlinks
  BY <1>7, UnlinksDisk DEF Unlinks, IInv
<1>8. CASE Fills
  BY <1>8, FillsDisk DEF Fills
<1>. QED
  BY <1>2, <1>3, <1>4, <1>5, <1>6, <1>7, <1>8, CallCases

(***************************************************************************)
(* The inductive invariant holds: at every moment the disk is sound, its   *)
(* inode table counted, its directories in order and a tree, and every     *)
(* descriptor in use holds an inode number.                                *)
(***************************************************************************)
THEOREM Inductive == Spec => []IInv
<1>1. Init => IInv
  BY InitIInv
<1>2. IInv /\ [Next]_vars => IInv'
  BY NextIInv
<1>. QED  BY <1>1, <1>2, PTL DEF Spec

-----------------------------------------------------------------------------
(***************************************************************************)
(* The type invariant: pointers are block numbers or null, cells are       *)
(* entries or bytes, sizes are not negative, and the descriptor tables     *)
(* have the shape of struct FdtableArray, after any sequence of calls.     *)
(***************************************************************************)
THEOREM TypeCorrect == Spec => []TypeOK
<1>1. IInv => TypeOK
  <2>1. SUFFICES ASSUME IInv PROVE TypeOK
    OBVIOUS
  <2>2. RAMDISK \in Disks
    BY <2>1, DiskInvTypes DEF IInv
  <2>3. fdtablea \in FdTableArray /\ ret \in Int
    BY <2>1 DEF IInv, Held
  <2>. QED  BY <2>2, <2>3 DEF TypeOK, Disks, Nodes
<1>. QED  BY <1>1, Inductive, PTL

(***************************************************************************)
(* The two counters of the superblock are exact after every call: the      *)
(* blocks are counted by the allocator, far from the inodes that own them, *)
(* and the inodes by the two functions that take and free one.             *)
(***************************************************************************)
THEOREM CountersAreExact == Spec => []CountersExact
<1>1. IInv => CountersExact
  BY DEF IInv, DiskInv, Counted, Sound, PoolExact, Unallocated, CountersExact
<1>. QED  BY <1>1, Inductive, PTL

-----------------------------------------------------------------------------
(* The pointers that the runs list are at the places of the proofs. *)
LEMMA PointerPlace ==
  ASSUME NEW rd \in Disks, NEW x \in Pointers(rd)
  PROVE  /\ IsPlace(x[1], x[2], x[3])
         /\ x = <<x[1], x[2], x[3], x[4]>>
         /\ x[4] = PtrAt(rd, x[1], x[2], x[3]) /\ x[4] # NULL
<1> DEFINE tables == UNION {TablesOf(rd, i) : i \in Inums}
<1>1. ASSUME NEW t \in tables PROVE t \in Blocks
  <2>1. PICK i \in Inums : t \in TablesOf(rd, i)
    OBVIOUS
  <2>2. rd.inodes[i].indirect \in Ptr /\ rd.inodes[i].double \in Ptr
    BY DiskTypes
  <2>3. \A b \in Blocks : rd.ptrs[b] \in [Places -> Ptr]
    BY DiskTypes
  <2>4. \A b \in Blocks : Range(rd.ptrs[b]) \subseteq Ptr
    BY <2>3 DEF Range
  <2>. QED  BY <2>1, <2>2, <2>4 DEF TablesOf, Ptr
<1> HIDE DEF tables
<1>2. x[4] # NULL
  BY DEF Pointers
<1>3. \/ \E i \in Inums, k \in Directs : x = <<"direct", i, k, rd.inodes[i].direct[k]>>
      \/ \E i \in Inums : x = <<"indirect", i, 0, rd.inodes[i].indirect>>
      \/ \E i \in Inums : x = <<"double", i, 0, rd.inodes[i].double>>
      \/ \E t \in tables, p \in Places : x = <<"table", t, p, rd.ptrs[t][p]>>
  BY DEF Pointers, tables
<1>4. CASE \E i \in Inums, k \in Directs : x = <<"direct", i, k, rd.inodes[i].direct[k]>>
  BY <1>2, <1>4 DEF IsPlace, PtrAt, NodePtr
<1>5. CASE \E i \in Inums : x = <<"indirect", i, 0, rd.inodes[i].indirect>>
  BY <1>2, <1>5 DEF IsPlace, PtrAt, NodePtr
<1>6. CASE \E i \in Inums : x = <<"double", i, 0, rd.inodes[i].double>>
  BY <1>2, <1>6 DEF IsPlace, PtrAt, NodePtr
<1>7. CASE \E t \in tables, p \in Places : x = <<"table", t, p, rd.ptrs[t][p]>>
  BY <1>1, <1>2, <1>7 DEF IsPlace, PtrAt, NodePtr
<1>. QED  BY <1>3, <1>4, <1>5, <1>6, <1>7

(***************************************************************************)
(* No block ever has two places in the trees of the inodes, and every      *)
(* block in a tree is marked in the bitmap: inode_add_block, with all its  *)
(* ways to fail half way, inode_remove_block and inode_release see to it   *)
(* together with the allocator.                                            *)
(***************************************************************************)
THEOREM NoBlockInTwoPlaces == Spec => []BlocksHaveOnePlace
<1>1. IInv => BlocksHaveOnePlace
  <2>1. SUFFICES ASSUME IInv PROVE BlocksHaveOnePlace
    OBVIOUS
  <2>2. RAMDISK \in Disks /\ OnePlace(RAMDISK) /\ PlacedAllocated(RAMDISK)
    BY <2>1, DiskInvTypes DEF IInv, Sound
  <2>3. ASSUME NEW x \in Pointers(RAMDISK), NEW y \in Pointers(RAMDISK), x[4] = y[4]
        PROVE  x = y
    <3>1. x[1] = y[1] /\ x[2] = y[2] /\ x[3] = y[3]
      BY <2>2, <2>3, PointerPlace DEF OnePlace
    <3>. QED  BY <2>2, <2>3, <3>1, PointerPlace
  <2>4. InTrees(RAMDISK) \subseteq Allocated(RAMDISK)
    BY <2>2, PointerPlace DEF InTrees, PlacedAllocated
  <2>. QED  BY <2>3, <2>4 DEF BlocksHaveOnePlace
<1>. QED  BY <1>1, Inductive, PTL

-----------------------------------------------------------------------------
(* The entries that the runs look at are those of the proofs. *)
LEMMA EntryCell ==
  ASSUME NEW rd, DiskInv(rd), NEW d \in Directories(rd), NEW p \in Positions(rd, d)
  PROVE  Cell(rd, d, p) = DirCell(rd, d, p) /\ DirCell(rd, d, p) \in Entries
<1>1. rd \in Disks /\ d \in Inums /\ InOrder(rd, d)
  BY DiskInvTypes
<1>2. /\ p \in Nat /\ Blk(rd, d, p \div BLOCK_CELLS) \in Blocks
      /\ DirCell(rd, d, p) \in Entries
  BY <1>1, DirCellIs DEF InOrder, Positions
<1>3. GetBlock(rd, rd.inodes[d], p) = Blk(rd, d, p \div BLOCK_CELLS)
  BY <1>2, GetBlockIsBlk
<1>4. NULL \notin Blocks
  BY DEF NULL, Blocks
<1>. QED  BY <1>2, <1>3, <1>4 DEF Cell, DirCell

(* The set of the places is that of the positions. *)
LEMMA EntriesAt ==
  ASSUME NEW rd, DiskInv(rd)
  PROVE  /\ \A d \in Directories(rd) : \A p \in Positions(rd, d) :
              <<d, p>> \in EntryPlaces(rd) /\ EntryAt(rd, <<d, p>>) = DirCell(rd, d, p)
         /\ \A x \in EntryPlaces(rd) :
              /\ x = <<x[1], x[2]>>
              /\ x[1] \in Directories(rd) /\ x[2] \in Positions(rd, x[1])
              /\ EntryAt(rd, x) = DirCell(rd, x[1], x[2])
<1>1. ASSUME NEW d \in Directories(rd), NEW p \in Positions(rd, d)
      PROVE  <<d, p>> \in EntryPlaces(rd) /\ EntryAt(rd, <<d, p>>) = DirCell(rd, d, p)
  <2>1. d \in Inums /\ rd.inodes[d].size \in Nat /\ rd.inodes[d].size <= INODES - 1
    BY DiskInvTypes DEF InOrder, FewEntries
  <2>2. p \in 0 .. INODES - 1 /\ p < rd.inodes[d].size
    BY <2>1, InodeAssumption DEF Positions
  <2>. QED  BY <2>2, EntryCell DEF EntryPlaces, EntryAt
<1>2. ASSUME NEW x \in EntryPlaces(rd)
      PROVE  /\ x = <<x[1], x[2]>>
             /\ x[1] \in Directories(rd) /\ x[2] \in Positions(rd, x[1])
             /\ EntryAt(rd, x) = DirCell(rd, x[1], x[2])
  <2>1. /\ x = <<x[1], x[2]>> /\ x[1] \in Directories(rd)
        /\ x[2] \in 0 .. INODES - 1 /\ x[2] < rd.inodes[x[1]].size
    BY DEF EntryPlaces
  <2>2. rd.inodes[x[1]].size \in Nat
    BY <2>1, DiskInvTypes
  <2>3. x[2] \in Positions(rd, x[1])
    BY <2>1, <2>2, InodeAssumption DEF Positions
  <2>. QED  BY <2>1, <2>3, EntryCell DEF EntryAt
<1>. QED  BY <1>1, <1>2

(* The end of the last block of a directory with n entries *)
LEMMA TailBlock ==
  ASSUME NEW n \in Nat, NEW p \in n .. n + (-n % BLOCK_CELLS) - 1
  PROVE  /\ n # 0 /\ p \in Nat
         /\ p \div BLOCK_CELLS = (n - 1) \div BLOCK_CELLS
<1> DEFINE m == -n % BLOCK_CELLS
           q == (-n) \div BLOCK_CELLS
           r == -q
           k == (n - 1) \div BLOCK_CELLS
           s == Slot(k, 0)
<1>1. BLOCK_CELLS \in Nat \ {0, 1} /\ 0 \in Offs
  BY InodeAssumption DEF Offs
<1>2. m \in 0 .. BLOCK_CELLS - 1 /\ q \in Int /\ -n = BLOCK_CELLS * q + m
  BY <1>1
<1>3. p \in Nat /\ n <= p /\ p < n + m
  BY <1>2
<1>4. r \in Nat /\ n + m = r * BLOCK_CELLS
  <2> HIDE DEF m, q
  <2>1. r \in Int /\ n + m = r * BLOCK_CELLS
    BY <1>1, <1>2
  <2>2. n + m \in Nat
    BY <1>2
  <2>3. ~ (r < 0)
    BY <1>1, <2>1, <2>2
  <2>. QED  BY <2>1, <2>3
<1>5. Slot(r, 0) = n + m
  <2> HIDE DEF m, q, r
  <2>. QED  BY <1>1, <1>4, SlotOrder
<1>6. n # 0
  <2>1. SUFFICES ASSUME n = 0 PROVE FALSE
    OBVIOUS
  <2> HIDE DEF m, q, r
  <2>2. m \in Offs /\ m \in Nat
    BY <1>1, <1>2 DEF Offs
  <2>3. Slot(0, m) = m /\ Slot(r, 0) = m
    BY <1>1, <1>5, <2>1, <2>2 DEF Slot
  <2>4. m = 0
    BY <1>1, <1>4, <2>2, <2>3, SlotOrder
  <2>. QED  BY <1>3, <2>1, <2>4
<1>7. n - 1 \in Nat /\ k \in Nat
  BY <1>6, SlotOf
<1>8. s \in Nat /\ s <= n - 1 /\ n - 1 < s + BLOCK_CELLS
  BY <1>1, <1>7, SlotBlock, SlotOrder, SMTT(20), ZenonT(40)
<1>9. Slot(k + 1, 0) = s + BLOCK_CELLS /\ Slot(k + 1 + 1, 0) = s + BLOCK_CELLS + BLOCK_CELLS
  BY <1>1, <1>7, SlotOrder
<1> HIDE DEF m, q, r, k, s
<1>10. Slot(r, 0) = n + m
  BY <1>5
<1>11. ~ (r < k) /\ r # k
  <2>1. n + m \in Nat /\ s < n + m
    BY <1>2, <1>8
  <2>2. r < k => Slot(r, 0) < s
    BY <1>1, <1>7, <1>4, SlotOrder DEF s
  <2>. QED  BY <1>8, <1>10, <2>1, <2>2 DEF s
<1>12. ~ (k + 1 + 1 < r) /\ r # k + 1 + 1
  <2>1. n + m \in Nat /\ n + m < s + BLOCK_CELLS + BLOCK_CELLS
    BY <1>1, <1>2, <1>8
  <2>2. k + 1 + 1 < r => Slot(k + 1 + 1, 0) < Slot(r, 0)
    BY <1>1, <1>7, <1>4, SlotOrder
  <2>. QED  BY <1>1, <1>8, <1>9, <1>10, <2>1, <2>2
<1>13. r = k + 1
  BY <1>7, <1>4, <1>11, <1>12
<1>14. s <= p /\ p < s + BLOCK_CELLS
  BY <1>3, <1>8, <1>9, <1>10, <1>13
<1>15. p \div BLOCK_CELLS = k
  BY <1>3, <1>7, <1>14, SlotBlock DEF s
<1>. QED  BY <1>3, <1>6, <1>15 DEF k

(* The cells after the last entry are free. *)
LEMMA TailCell ==
  ASSUME NEW rd, DiskInv(rd), NEW d \in Directories(rd),
         NEW n, n = rd.inodes[d].size, NEW p \in n .. n + (-n % BLOCK_CELLS) - 1
  PROVE  Cell(rd, d, p) = Zero
<1>1. rd \in Disks /\ d \in Inums /\ InOrder(rd, d) /\ n \in Nat
  BY DiskInvTypes
<1> DEFINE k == p \div BLOCK_CELLS
           o == p % BLOCK_CELLS
<1>2. n # 0 /\ p \in Nat /\ k = (n - 1) \div BLOCK_CELLS
  BY <1>1, TailBlock
<1>3. n - 1 \in 0 .. n - 1
  BY <1>1, <1>2
<1>4. k \in Near /\ Blk(rd, d, k) \in Blocks
  BY <1>1, <1>2, <1>3, DirCellIs DEF InOrder
<1>5. o \in Offs /\ p = Slot(k, o)
  BY <1>2, SlotOf
<1>6. GetBlock(rd, rd.inodes[d], p) = Blk(rd, d, k)
  BY <1>2, GetBlockIsBlk
<1>7. ~ (Slot(k, o) < n)
  <2>1. n <= p
    BY <1>1
  <2>. QED  BY <1>1, <1>2, <1>5, <2>1
<1>8. NULL \notin Blocks
  BY DEF NULL, Blocks
<1> HIDE DEF k
<1>9. rd.data[Blk(rd, d, k)][o] = Zero
  BY <1>1, <1>4, <1>5, <1>7, <1>8 DEF InOrder, CellsInOrder
<1>. QED  BY <1>4, <1>6, <1>8, <1>9 DEF Cell

(***************************************************************************)
(* Directories stay compact through every sequence of calls: entries with  *)
(* different names in a row, then free entries to the end of the last      *)
(* block.  rd_unlink, which moves the last entry into the gap, and         *)
(* rd_creat, which looks for a free entry only in the last block, rely on  *)
(* each other here.                                                        *)
(***************************************************************************)
THEOREM DirectoriesStayCompact == Spec => []DirectoriesCompact
<1>1. IInv => DirectoriesCompact
  <2>1. SUFFICES ASSUME IInv, NEW d \in Directories(RAMDISK), NEW n, n = RAMDISK.inodes[d].size
                 PROVE  /\ \A p \in 0 .. n - 1 : Cell(RAMDISK, d, p).name \in Names
                        /\ \A p, q \in 0 .. n - 1 :
                             Cell(RAMDISK, d, p).name = Cell(RAMDISK, d, q).name => p = q
                        /\ \A p \in n .. n + (-n % BLOCK_CELLS) - 1 : Cell(RAMDISK, d, p) = Zero
    BY DEF DirectoriesCompact
  <2>2. DiskInv(RAMDISK) /\ InOrder(RAMDISK, d)
    BY <2>1, DiskInvTypes DEF IInv
  <2>3. \A p \in 0 .. n - 1 : Cell(RAMDISK, d, p) = DirCell(RAMDISK, d, p) /\ DirCell(RAMDISK, d, p) \in Entries
    BY <2>1, <2>2, EntryCell DEF Positions
  <2>4. \A p \in 0 .. n - 1 : Cell(RAMDISK, d, p).name \in Names
    BY <2>3, EntryTypes
  <2>5. \A p, q \in 0 .. n - 1 : Cell(RAMDISK, d, p).name = Cell(RAMDISK, d, q).name => p = q
    BY <2>1, <2>2, <2>3 DEF InOrder, NamesDiffer
  <2>6. \A p \in n .. n + (-n % BLOCK_CELLS) - 1 : Cell(RAMDISK, d, p) = Zero
    BY <2>1, <2>2, TailCell
  <2>. QED  BY <2>4, <2>5, <2>6
<1>. QED  BY <1>1, Inductive, PTL

(***************************************************************************)
(* The directories are a tree, always: every entry leads to an allocated   *)
(* inode other than the root, no two to the same, and every directory that *)
(* holds an entry can be reached from the root.                            *)
(***************************************************************************)
THEOREM DirectoriesAreATree == Spec => []DirectoryTree
<1>1. IInv => DirectoryTree
  <2> DEFINE rd == RAMDISK
  <2>1. SUFFICES ASSUME IInv PROVE DirectoryTree
    OBVIOUS
  <2>2. DiskInv(rd)
    BY <2>1 DEF IInv
  <2> HIDE DEF rd
  <2>3. \A x \in EntryPlaces(rd) : /\ EntryAt(rd, x).data \in Inums \ {Root}
                                   /\ rd.inodes[EntryAt(rd, x).data].type # UNALLOCATED
    BY <2>2, EntriesAt DEF DiskInv, RootedTree, EntriesLead
  <2>4. \A x, y \in EntryPlaces(rd) : EntryAt(rd, x).data = EntryAt(rd, y).data => x = y
    BY <2>2, EntriesAt DEF DiskInv, RootedTree, EntriesDiffer
  <2>5. ASSUME NEW x \in EntryPlaces(rd)
        PROVE  x[1] \in Reachable(rd)
    <3>1. x[1] \in Directories(rd) /\ x[2] \in Positions(rd, x[1])
      BY <2>2, EntriesAt
    <3>2. x[1] \in Inums /\ rd.inodes[x[1]].size \in Nat
      BY <2>2, <3>1, DiskInvTypes
    <3>3. Reached(rd, x[1])
      <4>1. rd.inodes[x[1]].size > 0
        BY <3>1, <3>2 DEF Positions
      <4>. QED  BY <2>2, <3>1, <4>1 DEF DiskInv, RootedTree
    <3>4. ASSUME NEW known \in ClosedUnder(Links(rd))
          PROVE  Closed(rd, known) /\ known \in SUBSET Inums
      <4>1. /\ known \in SUBSET Inums /\ Root \in known
            /\ \A l \in Links(rd) : l[1] \in known => l[2] \in known
        BY DEF ClosedUnder
      <4>2. ASSUME NEW d \in Directories(rd), NEW p \in Positions(rd, d), d \in known
            PROVE  DirCell(rd, d, p).data \in known
        <5>1. <<d, DirCell(rd, d, p).data>> \in Links(rd)
          <6>1. <<d, p>> \in EntryPlaces(rd) /\ EntryAt(rd, <<d, p>>) = DirCell(rd, d, p)
            BY <2>2, EntriesAt
          <6>2. <<d, p>>[1] = d
            OBVIOUS
          <6>. QED  BY <6>1, <6>2 DEF Links
        <5>. QED  BY <4>1, <4>2, <5>1
      <4>. QED  BY <4>1, <4>2 DEF Closed
    <3>. QED  BY <3>2, <3>3, <3>4 DEF Reachable, Reached
  <2>. QED  BY <2>3, <2>4, <2>5 DEF DirectoryTree, rd
<1>. QED  BY <1>1, Inductive, PTL

-----------------------------------------------------------------------------
(* Some entry leads to inode i. *)
HasEntry(rd, i) ==
  \E d \in Directories(rd) : \E p \in Positions(rd, d) : DirCell(rd, d, p).data = i

(* An orphan is allocated and no entry leads to it. *)
LEMMA OrphanIs ==
  ASSUME NEW rd, DiskInv(rd), NEW i
  PROVE  i \in Orphans(rd) <=>
           i \in Inums \ {Root} /\ rd.inodes[i].type # UNALLOCATED /\ ~ HasEntry(rd, i)
<1>1. (\E x \in EntryPlaces(rd) : EntryAt(rd, x).data = i) <=> HasEntry(rd, i)
  <2>1. ASSUME NEW x \in EntryPlaces(rd), EntryAt(rd, x).data = i
        PROVE  HasEntry(rd, i)
    <3>1. /\ x[1] \in Directories(rd) /\ x[2] \in Positions(rd, x[1])
          /\ DirCell(rd, x[1], x[2]).data = i
      BY <2>1, EntriesAt
    <3>. QED  BY <3>1 DEF HasEntry
  <2>2. ASSUME NEW d \in Directories(rd), NEW p \in Positions(rd, d), DirCell(rd, d, p).data = i
        PROVE  \E x \in EntryPlaces(rd) : EntryAt(rd, x).data = i
    <3>1. <<d, p>> \in EntryPlaces(rd) /\ EntryAt(rd, <<d, p>>).data = i
      BY <2>2, EntriesAt
    <3>. QED  BY <3>1
  <2>. QED  BY <2>1, <2>2 DEF HasEntry
<1>. QED  BY <1>1 DEF Orphans

(* A disk with the same inodes and entries has the same orphans. *)
LEMMA OrphansSame ==
  ASSUME NEW rd, NEW e, DiskInv(rd), DiskInv(e), DirsKept(rd, e, {}),
         \A j \in Inums : e.inodes[j].type = rd.inodes[j].type
  PROVE  Orphans(e) \subseteq Orphans(rd)
<1>1. ASSUME NEW i \in Orphans(e)
      PROVE  i \in Orphans(rd)
  <2>1. i \in Inums \ {Root} /\ rd.inodes[i].type # UNALLOCATED /\ ~ HasEntry(e, i)
    BY <1>1, OrphanIs
  <2>2. ASSUME NEW d \in Directories(rd), NEW p \in Positions(rd, d), DirCell(rd, d, p).data = i
        PROVE  FALSE
    <3>1. d \in Inums /\ rd.inodes[d].type = DIR
      BY DEF Directories
    <3>2. DirKept(rd, e, d) /\ d \in Directories(e)
      BY <3>1 DEF DirsKept, Directories
    <3>3. p \in Positions(e, d) /\ DirCell(e, d, p) = DirCell(rd, d, p)
      BY <3>2, KeptEntries
    <3>. QED  BY <2>1, <2>2, <3>2, <3>3 DEF HasEntry
  <2>. QED  BY <2>1, <2>2, OrphanIs DEF HasEntry
<1>. QED  BY <1>1

(* The inode that a call makes has an entry. *)
LEMMA OrphansCreates ==
  ASSUME IInv, Creates
  PROVE  Orphans(RAMDISK') \subseteq Orphans(RAMDISK)
<1> DEFINE rd == RAMDISK
           e  == RAMDISK'
<1>1. DiskInv(rd)
  BY DEF IInv
<1>2. /\ DiskInv(e) /\ EntriesStay(rd, e)
      /\ \E d, name, c, type :
           /\ d \in Directories(rd) /\ type # UNALLOCATED
           /\ Created(rd, e, c, type)
           /\ DirExtended(rd, e, d, name, c)
  BY CreatesDisk
<1> HIDE DEF rd, e
<1>3. PICK d, name, c, type :
        /\ d \in Directories(rd) /\ type # UNALLOCATED
        /\ Created(rd, e, c, type)
        /\ DirExtended(rd, e, d, name, c)
  BY <1>2
<1>4. HasEntry(e, c)
  <2>1. d \in Directories(e)
    BY <1>2, <1>3 DEF EntriesStay
  <2>2. rd.inodes[d].size \in Nat
    BY <1>1, <1>3, DiskInvTypes
  <2>3. rd.inodes[d].size \in Positions(e, d)
    BY <1>3, <2>2 DEF DirExtended, Positions
  <2>4. DirCell(e, d, rd.inodes[d].size).data = c
    BY <1>3 DEF DirExtended, DirEntry
  <2>. QED  BY <2>1, <2>3, <2>4 DEF HasEntry
<1>5. ASSUME NEW i \in Orphans(e)
      PROVE  i \in Orphans(rd)
  <2>1. i \in Inums \ {Root} /\ e.inodes[i].type # UNALLOCATED /\ ~ HasEntry(e, i)
    BY <1>2, <1>5, OrphanIs
  <2>2. i # c
    BY <1>4, <2>1
  <2>3. rd.inodes[i].type # UNALLOCATED
    BY <1>3, <2>1, <2>2 DEF Created
  <2>4. ~ HasEntry(rd, i)
    BY <1>2, <2>1 DEF HasEntry, EntriesStay
  <2>. QED  BY <1>1, <2>1, <2>3, <2>4, OrphanIs
<1>. QED  BY <1>5 DEF rd, e

(* The one inode that loses its entry is freed. *)
LEMMA OrphansUnlinks ==
  ASSUME IInv, Unlinks
  PROVE  Orphans(RAMDISK') \subseteq Orphans(RAMDISK)
<1> DEFINE rd == RAMDISK
           e  == RAMDISK'
<1>1. DiskInv(rd)
  BY DEF IInv
<1>2. /\ DiskInv(e)
      /\ \E d, found, p : /\ Removable(rd, d, found, p)
                          /\ Vacated(rd, e, found.inum)
                          /\ EntriesElse(rd, e, d, p, found.inum)
  BY UnlinksDisk
<1> HIDE DEF rd, e
<1>3. PICK d, found, p : /\ Removable(rd, d, found, p)
                         /\ Vacated(rd, e, found.inum)
                         /\ EntriesElse(rd, e, d, p, found.inum)
  BY <1>2
<1> DEFINE c == found.inum
<1>4. ASSUME NEW i \in Orphans(e)
      PROVE  i \in Orphans(rd)
  <2>1. i \in Inums \ {Root} /\ e.inodes[i].type # UNALLOCATED /\ ~ HasEntry(e, i)
    BY <1>2, <1>4, OrphanIs
  <2>2. i # c /\ rd.inodes[i].type # UNALLOCATED
    BY <1>3, <2>1 DEF Vacated
  <2>3. ASSUME NEW x \in Directories(rd), NEW r \in Positions(rd, x), DirCell(rd, x, r).data = i
        PROVE  FALSE
    <3>1. x # c
      <4>1. rd.inodes[x].type = DIR /\ rd.inodes[x].size \in Nat /\ rd.inodes[x].size # 0
        <5>1. rd.inodes[x].size \in Nat /\ rd.inodes[x].type = DIR
          BY <1>1, DiskInvTypes
        <5>. QED  BY <5>1 DEF Positions
      <4>. QED  BY <1>3, <4>1 DEF Vacated
    <3>2. ~ (x = d /\ r = p)
      BY <1>3, <2>2, <2>3 DEF Removable
    <3>3. x \in Directories(e) /\ \E q \in Positions(e, x) : DirCell(e, x, q) = DirCell(rd, x, r)
      BY <1>3, <3>1, <3>2 DEF EntriesElse
    <3>. QED  BY <2>1, <2>3, <3>3 DEF HasEntry
  <2>. QED  BY <1>1, <2>1, <2>2, <2>3, OrphanIs DEF HasEntry
<1>. QED  BY <1>4 DEF rd, e

(***************************************************************************)
(* An inode is orphaned only by a call that makes a file or a directory    *)
(* and fails after it took the inode.  Every other call that takes one     *)
(* enters it in a directory, and rd_unlink removes the one entry of the    *)
(* inode that it frees and no other.                                       *)
(***************************************************************************)
THEOREM OrphansOnlyFromFailures == Spec => OrphansOnlyFromFailedCreation
<1>1. ASSUME IInv, Next
      PROVE  \/ Orphans(RAMDISK') \subseteq Orphans(RAMDISK)
             \/ \E path \in Paths : (rd_creat(path) \/ rd_mkdir(path)) /\ ret' = -1
  <2>1. CASE Quietly
    BY <2>1 DEF Quietly
  <2>2. CASE Starts
    <3>1. DiskInv(EmptyDisk) /\ \A i \in Inums \ {Root} : EmptyDisk.inodes[i].type = UNALLOCATED
      BY EmptyDiskInv
    <3>2. Orphans(EmptyDisk) = {}
      BY <3>1, OrphanIs
    <3>. QED  BY <2>2, <3>2 DEF Starts
  <2>3. CASE Creates
    BY <1>1, <2>3, OrphansCreates
  <2>4. CASE Spoils
    BY <2>4 DEF Spoils
  <2>5. CASE Unlinks
    BY <1>1, <2>5, OrphansUnlinks
  <2>6. CASE Fills
    <3>1. DiskInv(RAMDISK)
      BY <1>1 DEF IInv
    <3>. QED  BY <1>1, <2>6, <3>1, FillsDisk, OrphansSame
  <2>. QED  BY <1>1, <2>1, <2>2, <2>3, <2>4, <2>5, <2>6, CallCases
<1>2. IInv /\ [Next]_vars =>
        [\/ Orphans(RAMDISK') \subseteq Orphans(RAMDISK)
         \/ \E path \in Paths : (rd_creat(path) \/ rd_mkdir(path)) /\ ret' = -1]_RAMDISK
  BY <1>1 DEF vars
<1>. QED  BY <1>2, Inductive, PTL DEF Spec, OrphansOnlyFromFailedCreation

-----------------------------------------------------------------------------
(***************************************************************************)
(* An inode that an open descriptor is on, when rd_unlink goes on          *)
(***************************************************************************)
LEMMA NotOpen ==
  ASSUME NEW a, Held(a), NEW idx, CheckForInode(a, idx) # 1,
         NEW t \in Tables, NEW s \in Slots
  PROVE  /\ a[t].table[s].inode_num # idx
         /\ idx = -1 => InUse(a, t, s)
<1>1. a[t].table[s].inode_num # idx
  BY DEF CheckForInode, Holding
<1>2. GoodEntry(a[t].table[s])
  BY DEF Held
<1>3. a[t].table[s].being_used # 1 => a[t].table[s].inode_num = -1
  BY <1>2 DEF GoodEntry, NoInode
<1>. QED  BY <1>1, <1>3 DEF InUse

(* rd_unlink frees no inode that a descriptor is open on. *)
LEMMA UnlinksKept ==
  ASSUME IInv, Unlinks, ~ AllInUse(fdtablea),
         NEW t \in Tables, NEW s \in Slots, NEW i, i = fdtablea[t].table[s].inode_num,
         InUse(fdtablea, t, s)
  PROVE  i \in Inums /\ RAMDISK'.inodes[i].type = RAMDISK.inodes[i].type
<1>1. DiskInv(RAMDISK) /\ Held(fdtablea)
  BY DEF IInv
<1>2. PICK path, d, found, p :
        /\ path \in Paths /\ Last(path) \in Names
        /\ CheckForInode(fdtablea, WalkPath(RAMDISK, path)) # 1
        /\ d = GetParent(RAMDISK, path) /\ ~ (d < 0)
        /\ found = FindEntry(RAMDISK, RAMDISK.inodes[d], Last(path))
        /\ Removable(RAMDISK, d, found, p)
        /\ ~ (RAMDISK.inodes[found.inum].type = DIR /\ RAMDISK.inodes[found.inum].size > 0)
        /\ RAMDISK' = RemoveEntry(DeallocateInode(Release(RAMDISK, found.inum), found.inum), d, found)
  BY DEF Unlinks
<1>3. path \in Seq(Labels) /\ path # <<>> /\ path # <<NoName>>
  <2>1. path \in Seq(Labels)
    BY <1>2, PathLabels
  <2>2. path # <<>>
    BY <1>2, SMTT(20), ZenonT(40) DEF GetParent
  <2>3. Last(<<NoName>>) = NoName
    BY DEF Last
  <2>. QED  BY <1>2, <2>1, <2>2, <2>3, EntryTypes
<1>4. WalkPath(RAMDISK, path) \in {-1, found.inum}
  BY <1>1, <1>2, <1>3, TwoSearches
<1>5. WalkPath(RAMDISK, path) # -1
  BY <1>1, <1>2, NotOpen DEF AllInUse
<1>6. i # found.inum
  BY <1>1, <1>2, <1>4, <1>5, NotOpen
<1>7. i \in Inums
  BY <1>1 DEF Held, GoodEntry, InUse
<1>8. Vacated(RAMDISK, RAMDISK', found.inum)
  BY <1>1, <1>2, UnlinkTree
<1>. QED  BY <1>6, <1>7, <1>8 DEF Vacated

(***************************************************************************)
(* An inode with a descriptor open on it keeps its type: rd_unlink refuses *)
(* it, as long as some entry of some table is not in use, since it is the  *)
(* number of no inode in the unused entries that stops it when the search  *)
(* along the whole path fails and the one in the parent does not.          *)
(***************************************************************************)
THEOREM OpenInodesAreKept == Spec => OpenInodesKept
<1> DEFINE TypesStay ==
      \A t \in Tables, s \in Slots :
        LET i == fdtablea[t].table[s].inode_num IN
        \/ ~InUse(fdtablea, t, s)
        \/ RAMDISK.inodes[i].type \in {UNALLOCATED, RAMDISK'.inodes[i].type}
        \/ ~InUse(fdtablea', t, s)
        \/ AllInUse(fdtablea)
<1>1. ASSUME IInv, Next
      PROVE  TypesStay
  <2>1. SUFFICES ASSUME NEW t \in Tables, NEW s \in Slots,
                        NEW i, i = fdtablea[t].table[s].inode_num,
                        InUse(fdtablea, t, s), ~ AllInUse(fdtablea), InUse(fdtablea', t, s)
                 PROVE  RAMDISK.inodes[i].type \in {UNALLOCATED, RAMDISK'.inodes[i].type}
    OBVIOUS
  <2>2. i \in Inums
    BY <1>1, <2>1 DEF IInv, Held, GoodEntry, InUse
  <2>3. CASE Quietly
    BY <2>3 DEF Quietly
  <2>4. CASE Starts
    <3>1. ~ InUse(InitialTables, t, s)
      BY DEF InUse, InitialTables, UnusedEntry
    <3>. QED  BY <2>1, <2>4, <3>1 DEF Starts
  <2>5. CASE Creates
    BY <1>1, <2>2, <2>5, CreatesDisk DEF Created, Unallocated
  <2>6. CASE Spoils
    BY <1>1, <2>2, <2>6, SpoilsDisk DEF Created, Unallocated
  <2>7. CASE Unlinks
    BY <1>1, <2>1, <2>7, UnlinksKept
  <2>8. CASE Fills
    BY <1>1, <2>2, <2>8, FillsDisk
  <2>. QED  BY <1>1, <2>3, <2>4, <2>5, <2>6, <2>7, <2>8, CallCases
<1>2. IInv /\ [Next]_vars => [TypesStay]_RAMDISK
  BY <1>1 DEF vars
<1>. QED  BY <1>2, Inductive, PTL DEF Spec, OpenInodesKept

-----------------------------------------------------------------------------
(***************************************************************************)
(* What rd_write writes, when every block below the size of the file is    *)
(* there and the position is not beyond it: a missing block is then the    *)
(* one at the position, and the first that is missing.                     *)
(***************************************************************************)
Whole(rd, i) == \A p \in 0 .. rd.inodes[i].size - 1 : Blk(rd, i, p \div BLOCK_CELLS) # NULL

(* The cells of a file, in terms of block numbers *)
LEMMA CellIs ==
  ASSUME NEW rd, NEW i, NEW p \in Nat
  PROVE  Cell(rd, i, p) = IF Blk(rd, i, p \div BLOCK_CELLS) = NULL THEN Stale
                          ELSE rd.data[Blk(rd, i, p \div BLOCK_CELLS)][p % BLOCK_CELLS]
BY GetBlockIsBlk DEF Cell

(* A file without holes is whole. *)
LEMMA NoHoleWhole ==
  ASSUME NEW rd, NEW i, rd.inodes[i].size \in Nat, ~ HasHole(rd, i)
  PROVE  Whole(rd, i)
BY GetBlockIsBlk DEF HasHole, Whole

(* The pointers decide which block has which number. *)
LEMMA PointersDecide ==
  ASSUME NEW rd, NEW e, NEW i, e.ptrs = rd.ptrs,
         e.inodes[i].direct = rd.inodes[i].direct,
         e.inodes[i].indirect = rd.inodes[i].indirect,
         e.inodes[i].double = rd.inodes[i].double, NEW j \in Nat
  PROVE  Blk(e, i, j) = Blk(rd, i, j)
<1>1. Position(j).kind \in {"direct", "indirect", "double", "none"}
  BY BlkIs DEF Tabled
<1>2. \A q : q.kind \in {"direct", "indirect", "double", "none"}
               => BlockIn(e, e.inodes[i], q) = BlockIn(rd, rd.inodes[i], q)
  BY DEF BlockIn, BlockAt
<1>. QED  BY <1>1, <1>2 DEF Blk

(* The block for number k, found or added, and the others as they were *)
Blocked(rd, got, i, k) ==
  /\ got.rd.inodes[i].size = rd.inodes[i].size
  /\ got.block = NULL \/ got.block \in Blocks
  /\ Blk(rd, i, k) # NULL => got.block = Blk(rd, i, k)
  /\ \A j \in Nat :
       /\ Blk(got.rd, i, j) = IF j = k THEN got.block ELSE Blk(rd, i, j)
       /\ Blk(rd, i, j) # NULL =>
            /\ got.rd.data[Blk(rd, i, j)] = rd.data[Blk(rd, i, j)]
            /\ j # k => Blk(rd, i, j) # got.block

(* A block that is found *)
LEMMA FoundBlocked ==
  ASSUME NEW rd, Sound(rd), NEW i \in Inums, NEW k \in Nat, Blk(rd, i, k) # NULL
  PROVE  Blocked(rd, [block |-> Blk(rd, i, k), rd |-> rd], i, k)
<1>1. rd \in Disks /\ OnePlace(rd)
  BY DEF Sound
<1>2. Blk(rd, i, k) \in Blocks
  BY <1>1, BlkTree
<1>3. \A j \in Nat : j # k => Blk(rd, i, j) # Blk(rd, i, k)
  BY <1>1, BlkOnce
<1>. QED  BY <1>2, <1>3 DEF Blocked

(* A block that is added, or cannot be *)
LEMMA AddedBlocked ==
  ASSUME NEW rd, Sound(rd), NEW i \in Inums, NEW k \in Nat,
         k = rd.inodes[i].size \div BLOCK_CELLS, FirstGap(rd, i, k)
  PROVE  Blocked(rd, AddBlock(rd, i), i, k)
<1> DEFINE got == AddBlock(rd, i)
<1>1. rd \in Disks /\ OnePlace(rd)
  BY DEF Sound
<1>2. \A j \in Nat : Blk(got.rd, i, j) = IF j = k THEN got.block ELSE Blk(rd, i, j)
  BY AddBlockEnds
<1>3. Fresh(rd, got, i)
  BY AddBlockFresh
<1> HIDE DEF got
<1>4. \A j \in Nat : Blk(rd, i, j) # NULL => Blk(rd, i, j) \in Allocated(rd)
  BY <1>1, BlkTree, TreeAllocated DEF Sound
<1>5. \A j \in Nat : Blk(rd, i, j) # NULL =>
        /\ got.rd.data[Blk(rd, i, j)] = rd.data[Blk(rd, i, j)]
        /\ Blk(rd, i, j) # got.block
  BY <1>3, <1>4 DEF Fresh, Grows
<1>6. got.block = NULL \/ got.block \in Blocks
  BY <1>3, AllocatedFinite DEF Fresh
<1>7. got.rd.inodes[i].size = rd.inodes[i].size
  BY <1>3 DEF Fresh, Grows
<1>8. Blocked(rd, got, i, k)
  BY <1>2, <1>5, <1>6, <1>7 DEF Blocked, FirstGap
<1>. QED  BY <1>8 DEF got

(* In a file that is whole a block is missing only where the file ends. *)
LEMMA WholeGap ==
  ASSUME NEW rd \in Disks, NEW i \in Inums, Whole(rd, i),
         NEW pos \in Nat, pos <= rd.inodes[i].size, Blk(rd, i, pos \div BLOCK_CELLS) = NULL
  PROVE  pos = rd.inodes[i].size /\ FirstGap(rd, i, pos \div BLOCK_CELLS)
<1> DEFINE k == pos \div BLOCK_CELLS
           o == pos % BLOCK_CELLS
<1>1. rd.inodes[i].size \in Nat /\ 0 \in Offs
  BY DiskTypes, InodeAssumption DEF Offs
<1>2. pos = rd.inodes[i].size
  <2>1. ~ (pos < rd.inodes[i].size)
    BY <1>1 DEF Whole
  <2>. QED  BY <1>1, <2>1
<1>3. k \in Nat /\ o \in Offs /\ pos = Slot(k, o)
  BY SlotOf
<1> HIDE DEF k, o
<1>4. ASSUME NEW j \in Nat, j < k
      PROVE  Blk(rd, i, j) # NULL
  <2>1. Slot(j, 0) \in Nat /\ Slot(j, 0) < Slot(k, o)
    BY <1>1, <1>3, <1>4, SlotOrder
  <2>2. Slot(j, 0) \div BLOCK_CELLS = j
    BY <1>1, SlotParts
  <2>3. Slot(j, 0) \in 0 .. rd.inodes[i].size - 1
    BY <1>1, <1>2, <1>3, <2>1
  <2>. QED  BY <2>2, <2>3 DEF Whole
<1>. QED  BY <1>2, <1>4 DEF FirstGap, k

(***************************************************************************)
(* n cells of a file that is whole are written at pos, which is not beyond *)
(* its end.                                                                *)
(***************************************************************************)
Puts(rd, e, i, pos, n, v) ==
  /\ Whole(e, i)
  /\ e.inodes[i].size = Greater(rd.inodes[i].size, pos + n)
  /\ \A p \in 0 .. e.inodes[i].size - 1 :
       Cell(e, i, p) = IF p \in pos .. pos + n - 1 THEN Bytes(v) ELSE Cell(rd, i, p)

(* Nothing is written. *)
LEMMA PutsNothing ==
  ASSUME NEW rd \in Disks, NEW i \in Inums, Whole(rd, i),
         NEW pos \in Nat, pos <= rd.inodes[i].size, NEW v
  PROVE  Puts(rd, rd, i, pos, 0, v)
<1>1. rd.inodes[i].size \in Nat
  BY DiskTypes
<1>. QED  BY <1>1 DEF Puts, Greater

(* More is written after what was. *)
LEMMA PutsOn ==
  ASSUME NEW rd \in Disks, NEW e \in Disks, NEW f, NEW i \in Inums, NEW v,
         NEW pos \in Nat, NEW m \in Nat, NEW n \in Nat,
         Puts(rd, e, i, pos, m, v), Puts(e, f, i, pos + m, n, v)
  PROVE  Puts(rd, f, i, pos, m + n, v)
<1> DEFINE s == rd.inodes[i].size
           t == e.inodes[i].size
           u == f.inodes[i].size
<1>1. s \in Nat /\ t = Greater(s, pos + m) /\ u = Greater(t, pos + m + n)
  BY DiskTypes DEF Puts
<1>2. ASSUME NEW p \in 0 .. u - 1
      PROVE  Cell(f, i, p) = IF p \in pos .. pos + (m + n) - 1 THEN Bytes(v) ELSE Cell(rd, i, p)
  <2>1. Cell(f, i, p) = IF p \in pos + m .. pos + m + n - 1 THEN Bytes(v) ELSE Cell(e, i, p)
    BY <1>2 DEF Puts
  <2>2. p \in 0 .. t - 1
          => Cell(e, i, p) = IF p \in pos .. pos + m - 1 THEN Bytes(v) ELSE Cell(rd, i, p)
    BY DEF Puts
  <2> HIDE DEF s, t, u
  <2>3. p \in 0 .. t - 1 \/ p \in pos + m .. pos + m + n - 1
    BY <1>1, <1>2 DEF Greater
  <2>4. p \in pos .. pos + (m + n) - 1 <=> p \in pos .. pos + m - 1 \/ p \in pos + m .. pos + m + n - 1
    BY <1>1, <1>2
  <2>5. p \in pos + m .. pos + m + n - 1 => p \notin pos .. pos + m - 1
    OBVIOUS
  <2>. QED  BY <2>1, <2>2, <2>3, <2>4
<1>3. u = Greater(s, pos + (m + n))
  <2> HIDE DEF s, t, u
  <2>. QED  BY <1>1 DEF Greater
<1>. QED  BY <1>2, <1>3 DEF Puts

(* The block for the position is written. *)
LEMMA BlockPuts ==
  ASSUME NEW rd \in Disks, NEW i \in Inums, Whole(rd, i),
         NEW pos \in Nat, pos <= rd.inodes[i].size,
         NEW k \in Nat, NEW off \in Offs, pos = Slot(k, off),
         NEW n \in Nat, off + n <= BLOCK_CELLS, NEW v,
         NEW got, Blocked(rd, got, i, k), got.block # NULL,
         NEW e, \A j \in Nat : Blk(e, i, j) = Blk(got.rd, i, j),
         e.inodes[i].size = Greater(rd.inodes[i].size, pos + n),
         NEW cells,
         \A o \in Offs : /\ o \in off .. off + n - 1 => cells[o] = Bytes(v)
                         /\ o \notin off .. off + n - 1 /\ Blk(rd, i, k) # NULL
                              => cells[o] = rd.data[Blk(rd, i, k)][o],
         \A b \in Blocks : e.data[b] = IF b = got.block THEN cells ELSE got.rd.data[b],
         OnePlace(rd)
  PROVE  Puts(rd, e, i, pos, n, v)
<1> DEFINE s == rd.inodes[i].size
<1>1. s \in Nat /\ 0 \in Offs
  BY DiskTypes, InodeAssumption DEF Offs
<1>2. /\ Slot(k, 0) \in Nat /\ pos = Slot(k, 0) + off /\ BLOCK_CELLS \in Nat
      /\ \A o \in Offs : o \in Nat /\ o < BLOCK_CELLS
  <2>1. Slot(k, 0) \in Nat /\ pos = Slot(k, 0) + off
    BY <1>1, SlotOrder
  <2>. QED  BY <2>1, InodeAssumption DEF Offs
<1>3. ASSUME NEW p \in 0 .. e.inodes[i].size - 1
      PROVE  /\ Blk(e, i, p \div BLOCK_CELLS) # NULL
             /\ Cell(e, i, p) = IF p \in pos .. pos + n - 1 THEN Bytes(v) ELSE Cell(rd, i, p)
  <2> DEFINE j == p \div BLOCK_CELLS
             o == p % BLOCK_CELLS
             b == Blk(rd, i, j)
             c == Blk(e, i, j)
  <2>1. p \in Nat /\ j \in Nat /\ o \in Offs /\ p = Slot(j, o)
    BY <1>1, <1>3, SlotOf DEF Greater
  <2>2. p \in 0 .. s - 1 \/ p \in pos .. pos + n - 1
    BY <1>1, <1>3 DEF Greater
  <2>3. p \in 0 .. s - 1 => b # NULL
    BY DEF Whole
  <2>4. p \in pos .. pos + n - 1 => j = k
    <3>1. p \in pos .. pos + n - 1 => Slot(k, 0) <= p /\ p < Slot(k, 0) + BLOCK_CELLS
      BY <1>1, <1>2
    <3>. QED  BY <1>1, <2>1, <3>1, SlotBlock
  <2>5. /\ Cell(rd, i, p) = IF b = NULL THEN Stale ELSE rd.data[b][o]
        /\ Cell(e, i, p) = IF c = NULL THEN Stale ELSE e.data[c][o]
    BY <2>1, CellIs
  <2>6. c = IF j = k THEN got.block ELSE b
    BY <2>1 DEF Blocked
  <2>7. b # NULL => b \in Blocks /\ got.rd.data[b] = rd.data[b] /\ (j # k => b # got.block)
    BY <2>1, BlkTree DEF Blocked
  <2>8. b # NULL /\ j = k => got.block = b
    BY DEF Blocked
  <2>9. j = k => p = Slot(k, 0) + o
    <3> HIDE DEF o, j
    <3>. QED  BY <1>1, <2>1, SlotOrder
  <2>10. j = k => (p \in pos .. pos + n - 1 <=> o \in off .. off + n - 1)
    <3> HIDE DEF o, j
    <3>. QED  BY <1>1, <1>2, <2>1, <2>9
  <2>11. got.block \in Blocks
    BY DEF Blocked
  <2>12. j = k => b = Blk(rd, i, k)
    OBVIOUS
  <2> DEFINE was == Cell(rd, i, p)
             now == Cell(e, i, p)
  <2> HIDE DEF j, o, b, c, s, was, now
  <2>13. c # NULL
    BY <2>2, <2>3, <2>4, <2>6
  <2>14. CASE j = k
    <3>1. now = cells[o]
      BY <2>5, <2>6, <2>11, <2>13, <2>14 DEF now
    <3>2. CASE p \in pos .. pos + n - 1
      <4>1. o \in off .. off + n - 1
        BY <2>10, <2>14, <3>2
      <4>2. cells[o] = Bytes(v)
        BY <2>1, <4>1
      <4>. QED  BY <2>13, <3>1, <3>2, <4>2 DEF c, j, now
    <3>3. CASE p \notin pos .. pos + n - 1
      <4>1. b # NULL /\ o \notin off .. off + n - 1
        BY <2>2, <2>3, <2>10, <2>14, <3>3
      <4>2. cells[o] = rd.data[b][o]
        BY <2>1, <2>12, <2>14, <4>1
      <4>3. was = now
        BY <2>5, <3>1, <4>1, <4>2 DEF was
      <4>. QED  BY <2>13, <3>3, <4>3 DEF c, j, was, now
    <3>. QED  BY <3>2, <3>3
  <2>15. CASE j # k
    <3>1. p \notin pos .. pos + n - 1
      BY <2>4, <2>15
    <3>2. e.data[c] = rd.data[b] /\ b # NULL
      BY <2>6, <2>7, <2>13, <2>15
    <3>. QED  BY <2>5, <2>13, <3>1, <3>2 DEF c, j
  <2>. QED  BY <2>14, <2>15
<1>. QED  BY <1>3 DEF Puts, Whole

(***************************************************************************)
(* The turns of the loop: how far the write has come, and that it comes    *)
(* further with every turn until it fails.                                 *)
(***************************************************************************)
IsTurn(w) ==
  /\ w = [rd |-> w.rd, pos |-> w.pos, left |-> w.left, failed |-> w.failed]
  /\ w.failed \in BOOLEAN

Putting(rd, w, i, pos, num_bytes, v) ==
  /\ IsTurn(w) /\ Writing(rd, w, i)
  /\ \E n \in 0 .. num_bytes :
       /\ w.pos = pos + n /\ w.left = num_bytes - n
       /\ Puts(rd, w.rd, i, pos, n, v)
  /\ w.failed => w.left # 0
  /\ pos + num_bytes <= MaxFile => Keeps(rd, w.rd, i)

(* Every position in the largest file is in a block that has a place. *)
LEMMA PlaceBelow ==
  ASSUME NEW pos \in Nat, pos < MaxFile
  PROVE  Position(pos \div BLOCK_CELLS).kind # "none"
<1> DEFINE k == pos \div BLOCK_CELLS
           o == pos % BLOCK_CELLS
           m == BLOCK_PTRS * BLOCK_PTRS
           n == DIRECT_POINTERS + BLOCK_PTRS + m
<1>1. DIRECT_POINTERS \in Nat /\ BLOCK_PTRS \in Nat /\ m \in Nat /\ 0 \in Offs
  BY InodeAssumption DEF Offs
<1>2. k \in Nat /\ o \in Offs /\ pos = Slot(k, o)
  BY SlotOf
<1>3. Position(k).kind = "none" => ~ ((k - DIRECT_POINTERS) - BLOCK_PTRS < m)
  BY DEF Position
<1>4. MaxFile = n * BLOCK_CELLS
  BY DEF MaxFile
<1> HIDE DEF k, o, m
<1>5. n \in Nat
  BY <1>1
<1> HIDE DEF n
<1>6. MaxFile = Slot(n, 0) /\ Slot(n, 0) \in Nat
  BY <1>4, <1>5, SlotAtLeast
<1>7. n < k => Slot(n, 0) < Slot(k, o)
  BY <1>1, <1>2, <1>5, SlotOrder
<1>8. n = k => Slot(k, o) = Slot(n, 0) + o
  BY <1>1, <1>2, <1>5, SlotOrder
<1>9. o \in Nat /\ Slot(k, o) \in Nat
  BY <1>2, SlotOrder DEF Offs
<1>10. k < n
  BY <1>2, <1>5, <1>6, <1>7, <1>8, <1>9
<1>11. (k - DIRECT_POINTERS) - BLOCK_PTRS < m
  BY <1>1, <1>2, <1>10 DEF n
<1>. QED  BY <1>3, <1>11 DEF k

(* One turn writes up to the end of the block, or fails. *)
LEMMA ChunkPuts ==
  ASSUME NEW w, IsTurn(w), NEW i \in Inums, Sound(w.rd), Whole(w.rd, i),
         w.pos \in Nat, w.pos <= w.rd.inodes[i].size, w.left \in Nat \ {0}, NEW v \in Data,
         NEW x, x = WriteChunk(w, i, v)
  PROVE  /\ IsTurn(x)
         /\ \/ /\ x.failed /\ x.pos = w.pos /\ x.left = w.left
               /\ Puts(w.rd, x.rd, i, w.pos, 0, v)
            \/ \E n \in 1 .. w.left :
                 /\ ~ x.failed /\ x.pos = w.pos + n /\ x.left = w.left - n
                 /\ Puts(w.rd, x.rd, i, w.pos, n, v)
         /\ w.pos < MaxFile => Keeps(w.rd, x.rd, i)
<1> DEFINE rd    == w.rd
           pos   == w.pos
           k     == pos \div BLOCK_CELLS
           off   == pos % BLOCK_CELLS
           found == GetBlock(rd, rd.inodes[i], pos)
           got   == IF found = NULL THEN AddBlock(rd, i) ELSE [block |-> found, rd |-> rd]
           n     == Lesser(w.left, BLOCK_CELLS - off)
           Old(o) == IF found = NULL THEN Fill ELSE rd.data[found][o]
           cells == [o \in Offs |-> IF o \in off .. off + n - 1 THEN Bytes(v) ELSE Old(o)]
           e     == [got.rd EXCEPT !.data[got.block] = cells,
                                   !.inodes[i].size  = Greater(@, pos + n)]
<1>1. rd \in Disks /\ OnePlace(rd) /\ rd.inodes[i].size \in Nat
  BY DiskTypes DEF Sound
<1>2. k \in Nat /\ off \in Offs /\ pos = Slot(k, off)
  BY SlotOf
<1>3. found = Blk(rd, i, k)
  BY GetBlockIsBlk
<1>4. Blk(rd, i, k) = NULL => pos = rd.inodes[i].size /\ FirstGap(rd, i, k)
  BY <1>1, WholeGap
<1>5. x = IF got.block = NULL THEN [w EXCEPT !.rd = got.rd, !.failed = TRUE]
          ELSE [rd |-> e, pos |-> pos + n, left |-> w.left - n, failed |-> FALSE]
  BY DEF WriteChunk
<1>6. /\ \A o \in Offs : o \in off .. off + n - 1 => cells[o] = Bytes(v)
      /\ \A o \in Offs : o \notin off .. off + n - 1 /\ found # NULL => cells[o] = rd.data[found][o]
  OBVIOUS
<1>7. Blk(rd, i, k) = NULL => k = rd.inodes[i].size \div BLOCK_CELLS
  BY <1>4
<1>8. n = Lesser(w.left, BLOCK_CELLS - off)
  OBVIOUS
<1> HIDE DEF k, off, found, n
<1>9. Blocked(rd, got, i, k)
  <2>1. CASE found = NULL
    BY <1>2, <1>3, <1>4, <1>7, <2>1, AddedBlocked
  <2>2. CASE found # NULL
    BY <1>2, <1>3, <2>2, FoundBlocked
  <2>. QED  BY <2>1, <2>2
<1>10. Sound(got.rd)
  <2>1. found = NULL => Fresh(rd, got, i)
    BY AddBlockFresh
  <2>. QED  BY <2>1 DEF Fresh, Grows
<1>11. n \in 1 .. w.left /\ off + n <= BLOCK_CELLS
  BY <1>2, <1>8, InodeAssumption DEF Lesser, Offs
<1>14. ASSUME pos < MaxFile PROVE Keeps(rd, got.rd, i)
  <2>1. CASE found = NULL
    <3>1. Position(k).kind # "none"
      BY <1>14, PlaceBelow DEF k
    <3>2. Tracks(rd, got.rd, i, NULL)
      BY <1>2, <1>3, <1>4, <1>7, <2>1, <3>1, AddBlockEnds
    <3>. QED  BY <3>2, TracksKeeps
  <2>2. CASE found # NULL
    BY <1>1, <2>2, SameKeeps
  <2>. QED  BY <2>1, <2>2
<1> HIDE DEF cells, got, pos, rd
<1>12. CASE got.block = NULL
  <2>1. x = [rd |-> got.rd, pos |-> w.pos, left |-> w.left, failed |-> TRUE]
    BY <1>5, <1>12 DEF IsTurn
  <2>2. \A j \in Nat : Blk(got.rd, i, j) = Blk(rd, i, j)
    BY <1>2, <1>9, <1>12 DEF Blocked
  <2>3. got.rd.inodes[i].size = rd.inodes[i].size
    BY <1>9 DEF Blocked
  <2>4. Puts(rd, got.rd, i, pos, 0, v)
    <3>1. ASSUME NEW p \in 0 .. rd.inodes[i].size - 1
          PROVE  /\ Blk(got.rd, i, p \div BLOCK_CELLS) # NULL
                 /\ Cell(got.rd, i, p) = Cell(rd, i, p)
      <4> DEFINE j == p \div BLOCK_CELLS
                 b == Blk(rd, i, j)
      <4>1. p \in Nat /\ j \in Nat /\ b # NULL
        BY <1>1, <3>1, SlotOf DEF Whole, rd
      <4>2. /\ Cell(rd, i, p) = IF b = NULL THEN Stale ELSE rd.data[b][p % BLOCK_CELLS]
            /\ Cell(got.rd, i, p)
                 = IF Blk(got.rd, i, j) = NULL THEN Stale
                   ELSE got.rd.data[Blk(got.rd, i, j)][p % BLOCK_CELLS]
        BY <4>1, CellIs
      <4> HIDE DEF j
      <4>3. Blk(got.rd, i, j) = b /\ got.rd.data[b] = rd.data[b]
        BY <1>9, <2>2, <4>1 DEF Blocked
      <4>. QED  BY <4>1, <4>2, <4>3 DEF j
    <3>2. \A p : p \notin pos .. pos + 0 - 1
      BY DEF pos
    <3>. QED  BY <1>1, <2>3, <3>1, <3>2 DEF Puts, Whole, Greater, rd, pos
  <2>. QED  BY <1>14, <2>1, <2>4 DEF IsTurn, rd, pos
<1>13. CASE got.block # NULL
  <2>1. got.block \in Blocks
    BY <1>9, <1>13 DEF Blocked
  <2>2. got.rd \in Disks /\ got.rd.data \in [Blocks -> [Offs -> Cells]]
        /\ got.rd.inodes \in [Inums -> Nodes] /\ got.rd.inodes[i] \in Nodes
    BY <1>10 DEF Sound, Disks
  <2>3. \A b \in Blocks : e.data[b] = IF b = got.block THEN cells ELSE got.rd.data[b]
    BY <2>1, <2>2 DEF Disks
  <2>4. e.inodes[i] = [got.rd.inodes[i] EXCEPT !.size = Greater(@, pos + n)] /\ e.ptrs = got.rd.ptrs
    BY <2>2 DEF Disks
  <2> HIDE DEF e
  <2>5. /\ e.inodes[i].size = Greater(got.rd.inodes[i].size, pos + n)
        /\ e.inodes[i].direct = got.rd.inodes[i].direct
        /\ e.inodes[i].indirect = got.rd.inodes[i].indirect
        /\ e.inodes[i].double = got.rd.inodes[i].double
    BY <2>2, <2>4 DEF Nodes
  <2>6. \A j \in Nat : Blk(e, i, j) = Blk(got.rd, i, j)
    <3> DEFINE g == got.rd
    <3>1. /\ e.ptrs = g.ptrs /\ e.inodes[i].direct = g.inodes[i].direct
          /\ e.inodes[i].indirect = g.inodes[i].indirect
          /\ e.inodes[i].double = g.inodes[i].double
      BY <2>4, <2>5
    <3> HIDE DEF g
    <3>2. \A j \in Nat : Blk(e, i, j) = Blk(g, i, j)
      BY <3>1, PointersDecide
    <3>. QED  BY <3>2 DEF g
  <2>7. e.inodes[i].size = Greater(rd.inodes[i].size, pos + n)
    BY <1>9, <2>5 DEF Blocked
  <2>8. Puts(rd, e, i, pos, n, v)
    <3>1. Whole(rd, i) /\ pos \in Nat /\ pos <= rd.inodes[i].size /\ n \in Nat
      BY <1>11 DEF rd, pos
    <3>2. \A o \in Offs : /\ o \in off .. off + n - 1 => cells[o] = Bytes(v)
                          /\ o \notin off .. off + n - 1 /\ Blk(rd, i, k) # NULL
                               => cells[o] = rd.data[Blk(rd, i, k)][o]
      BY <1>3, <1>6
    <3>. QED  BY <1>1, <1>2, <1>9, <1>11, <1>13, <2>3, <2>6, <2>7, <3>1, <3>2, BlockPuts, SMTT(30)
  <2>9. x = [rd |-> e, pos |-> pos + n, left |-> w.left - n, failed |-> FALSE]
    BY <1>5, <1>13 DEF e
  <2>10. pos < MaxFile => Keeps(rd, e, i)
    <3> DEFINE g == got.rd
    <3>1. g \in Disks /\ e.ptrs = g.ptrs /\ e.inodes[i].direct = g.inodes[i].direct
          /\ e.inodes[i].indirect = g.inodes[i].indirect
          /\ e.inodes[i].double = g.inodes[i].double
      BY <2>2, <2>4, <2>5
    <3>2. Allocated(e) = Allocated(g)
      BY DEF e, Allocated
    <3> HIDE DEF g
    <3>3. Keeps(g, e, i)
      BY <3>1, <3>2, SameKeeps
    <3>. QED  BY <1>14, <3>3, KeepsTransitive DEF g
  <2>. QED  BY <1>11, <2>8, <2>9, <2>10 DEF IsTurn, rd, pos
<1>. QED  BY <1>12, <1>13

(* A turn of the loop, if there is anything left to write *)
LEMMA TurnPuts ==
  ASSUME NEW rd, Sound(rd), NEW i \in Inums, Whole(rd, i),
         NEW pos \in Nat, pos <= rd.inodes[i].size, NEW num_bytes \in Nat, NEW v \in Data,
         NEW w, Putting(rd, w, i, pos, num_bytes, v), NEW m \in Nat,
         w.failed \/ w.left = 0 \/ w.left <= num_bytes - m, NEW x, x = Turn(w, i, v)
  PROVE  /\ Putting(rd, x, i, pos, num_bytes, v)
         /\ x.failed \/ x.left = 0 \/ x.left <= num_bytes - (m + 1)
<1>1. PICK n \in 0 .. num_bytes : /\ w.pos = pos + n /\ w.left = num_bytes - n
                                  /\ Puts(rd, w.rd, i, pos, n, v)
  BY DEF Putting
<1>2. IsTurn(w) /\ Writing(rd, w, i) /\ Sound(w.rd) /\ rd \in Disks /\ w.rd \in Disks
  BY DEF Putting, Writing, Wrote, Sound
<1>3. CASE w.left = 0 \/ w.failed
  BY <1>3 DEF Turn
<1>4. CASE ~ (w.left = 0 \/ w.failed)
  <2>1. x = WriteChunk(w, i, v)
    BY <1>4 DEF Turn
  <2>2. Writing(rd, x, i)
    BY <1>2, <2>1, ChunkWriting
  <2>3. Whole(w.rd, i) /\ w.pos \in Nat /\ w.left \in Nat \ {0} /\ w.pos <= w.rd.inodes[i].size
    <3>1. w.rd.inodes[i].size = Greater(rd.inodes[i].size, pos + n) /\ rd.inodes[i].size \in Nat
      BY <1>1, <1>2, DiskTypes DEF Puts
    <3>. QED  BY <1>1, <1>4, <3>1 DEF Puts, Greater
  <2>4. /\ IsTurn(x)
        /\ \/ /\ x.failed /\ x.pos = w.pos /\ x.left = w.left
              /\ Puts(w.rd, x.rd, i, w.pos, 0, v)
           \/ \E l \in 1 .. w.left :
                /\ ~ x.failed /\ x.pos = w.pos + l /\ x.left = w.left - l
                /\ Puts(w.rd, x.rd, i, w.pos, l, v)
        /\ w.pos < MaxFile => Keeps(w.rd, x.rd, i)
    BY <1>2, <2>1, <2>3, ChunkPuts
  <2>7. pos + num_bytes <= MaxFile => Keeps(rd, x.rd, i)
    <3>1. pos + num_bytes <= MaxFile => w.pos < MaxFile
      <4>1. MaxFile \in Nat
        BY InodeAssumption, SlotAtLeast DEF MaxFile
      <4>. QED  BY <1>1, <1>4, <4>1
    <3>. QED  BY <2>4, <3>1, KeepsTransitive DEF Putting
  <2>5. CASE x.failed /\ x.pos = w.pos /\ x.left = w.left /\ Puts(w.rd, x.rd, i, w.pos, 0, v)
    <3>1. Puts(rd, x.rd, i, pos, n + 0, v)
      BY <1>1, <1>2, <2>5, PutsOn
    <3>2. n + 0 = n
      OBVIOUS
    <3>. QED  BY <1>1, <1>4, <2>2, <2>4, <2>5, <2>7, <3>1, <3>2 DEF Putting
  <2>6. CASE \E l \in 1 .. w.left : /\ ~ x.failed /\ x.pos = w.pos + l /\ x.left = w.left - l
                                    /\ Puts(w.rd, x.rd, i, w.pos, l, v)
    <3>1. PICK l \in 1 .. w.left : /\ ~ x.failed /\ x.pos = w.pos + l /\ x.left = w.left - l
                                   /\ Puts(w.rd, x.rd, i, w.pos, l, v)
      BY <2>6
    <3>2. Puts(rd, x.rd, i, pos, n + l, v)
      BY <1>1, <1>2, <3>1, PutsOn
    <3>3. n + l \in 0 .. num_bytes /\ x.pos = pos + (n + l) /\ x.left = num_bytes - (n + l)
      BY <1>1, <3>1
    <3>4. x.left <= num_bytes - (m + 1)
      BY <1>1, <1>4, <3>1
    <3>. QED  BY <2>2, <2>4, <2>7, <3>1, <3>2, <3>3, <3>4 DEF Putting
  <2>. QED  BY <2>4, <2>5, <2>6
<1>. QED  BY <1>3, <1>4

(* The whole loop: all is written, or it fails when something was left. *)
LEMMA WritePuts ==
  ASSUME NEW rd, Sound(rd), NEW i \in Inums, Whole(rd, i),
         NEW pos \in Nat, pos <= rd.inodes[i].size, NEW num_bytes \in Nat, NEW v \in Data,
         NEW w, w = Write(rd, i, pos, num_bytes, v)
  PROVE  /\ \/ ~ w.failed /\ w.pos = pos + num_bytes /\ Puts(rd, w.rd, i, pos, num_bytes, v)
            \/ w.failed /\ \E n \in 0 .. num_bytes - 1 : Puts(rd, w.rd, i, pos, n, v)
         /\ pos + num_bytes <= MaxFile => Keeps(rd, w.rd, i)
<1> DEFINE w0 == [rd |-> rd, pos |-> pos, left |-> num_bytes, failed |-> FALSE]
           f == CHOOSE f : Turning(w0, i, v, f, num_bytes)
           Good(m) == /\ Putting(rd, f[m], i, pos, num_bytes, v)
                      /\ f[m].failed \/ f[m].left = 0 \/ f[m].left <= num_bytes - m
<1>1. Turning(w0, i, v, f, num_bytes)
  BY TurningExists
<1>2. Turns(rd, i, pos, num_bytes, v) = f
  BY DEF Turns, Turning
<1>3. Putting(rd, w0, i, pos, num_bytes, v) /\ w0.left <= num_bytes - 0
  <2>1. Writing(rd, w0, i)
    BY DEF Writing, Wrote, OthersKept, Kept
  <2>2. Puts(rd, rd, i, pos, 0, v)
    BY PutsNothing DEF Sound
  <2>3. Keeps(rd, rd, i)
    BY DEF Keeps
  <2>. QED  BY <2>1, <2>2, <2>3 DEF Putting, IsTurn
<1> HIDE DEF f, w0
<1>4. \A n \in 0 .. num_bytes : f[n] = IF n = 0 THEN w0 ELSE Turn(f[n - 1], i, v)
  BY <1>1 DEF Turning
<1> DEFINE Bad == {n \in 0 .. num_bytes : ~ Good(n)}
<1>5. ASSUME Bad # {} PROVE FALSE
  <2>1. Bad \in SUBSET Nat
    OBVIOUS
  <2>2. PICK n \in Bad : \A k \in Bad : n <= k
    <3> HIDE DEF Bad
    <3>. QED  BY <1>5, <2>1, MinIsLeast
  <2>3. n # 0
    BY <1>3, <1>4
  <2>4. n - 1 \in 0 .. num_bytes /\ n - 1 \notin Bad /\ n \in 0 .. num_bytes
    BY <2>2, <2>3
  <2>5. Good(n - 1)
    BY <2>4
  <2>6. f[n] = Turn(f[n - 1], i, v)
    BY <1>4, <2>3, <2>4
  <2>7. n - 1 \in Nat /\ n - 1 + 1 = n
    BY <2>3, <2>4
  <2>8. Good(n)
    BY <2>5, <2>6, <2>7, TurnPuts
  <2>. QED  BY <2>2, <2>8
<1>6. Good(num_bytes) /\ w = f[num_bytes]
  BY <1>2, <1>5 DEF Write
<1>7. PICK n \in 0 .. num_bytes : /\ w.pos = pos + n /\ w.left = num_bytes - n
                                  /\ Puts(rd, w.rd, i, pos, n, v)
  BY <1>6 DEF Putting
<1>8. w.failed => w.left # 0
  BY <1>6 DEF Putting
<1>9. w.failed \/ w.left = 0
  BY <1>6, <1>7
<1>10. pos + num_bytes <= MaxFile => Keeps(rd, w.rd, i)
  BY <1>6 DEF Putting
<1>. QED  BY <1>7, <1>8, <1>9, <1>10

(***************************************************************************)
(* The contents of a file, before and after                                *)
(***************************************************************************)
LEMMA PutsContents ==
  ASSUME NEW rd \in Disks, NEW i \in Inums, NEW e, NEW v,
         NEW pos \in Nat, pos <= rd.inodes[i].size, NEW n \in Nat, Puts(rd, e, i, pos, n, v)
  PROVE  Contents(e, i) = IF n = 0 THEN Contents(rd, i) ELSE Written(Contents(rd, i), pos, n, v)
<1> DEFINE s == rd.inodes[i].size
           old == Contents(rd, i)
<1>1. s \in Nat /\ pos <= s /\ e.inodes[i].size = Greater(s, pos + n)
  BY DiskTypes DEF Puts
<1>2. old = [p \in 0 .. s - 1 |-> Cell(rd, i, p)]
  BY DEF Contents
<1>3. 0 .. e.inodes[i].size - 1 = (0 .. s - 1) \cup (pos .. pos + n - 1)
  <2> HIDE DEF s
  <2>. QED  BY <1>1 DEF Greater
<1>4. Contents(e, i) = [p \in (0 .. s - 1) \cup (pos .. pos + n - 1) |->
                          IF p \in pos .. pos + n - 1 THEN Bytes(v) ELSE old[p]]
  <2>1. Contents(e, i) = [p \in 0 .. e.inodes[i].size - 1 |-> Cell(e, i, p)]
    BY DEF Contents
  <2>2. \A p \in 0 .. e.inodes[i].size - 1 :
          Cell(e, i, p) = IF p \in pos .. pos + n - 1 THEN Bytes(v) ELSE Cell(rd, i, p)
    BY DEF Puts
  <2>3. \A p \in 0 .. s - 1 : old[p] = Cell(rd, i, p)
    BY <1>2
  <2> HIDE DEF s, old
  <2>. QED  BY <1>3, <2>1, <2>2, <2>3
<1>5. DOMAIN old = 0 .. s - 1
  BY <1>2
<1>6. CASE n # 0
  <2> HIDE DEF old, s
  <2>. QED  BY <1>4, <1>5, <1>6 DEF Written, old
<1>7. CASE n = 0
  <2>1. (0 .. s - 1) \cup (pos .. pos + n - 1) = 0 .. s - 1 /\ \A p : p \notin pos .. pos + n - 1
    BY <1>7
  <2> HIDE DEF s
  <2>. QED  BY <1>2, <1>4, <1>7, <2>1
<1>. QED  BY <1>6, <1>7

(* A descriptor that has an inode is where it was moved to. *)
LEMMA MovedTo ==
  ASSUME NEW a, Held(a), NEW pid \in Pids, NEW fd, InodeForFd(a, pid, fd) >= 0, NEW offset \in Nat
  PROVE  PositionForFd(SeekWithFd(a, pid, fd, offset).tables, pid, fd) = offset
<1> DEFINE t == Min(OwnedBy(a, pid))
           old == TableOf(a, pid)
           new == [old EXCEPT ![fd] = SeekEntry(old[fd], offset)]
           b == Store(a, t, pid, new)
<1>1. CanSeek(a, pid, fd) /\ HasTable(a, pid) /\ fd \in Slots
  BY DEF InodeForFd, CanSeek
<1>2. t \in Tables /\ a[t].pid = pid /\ old \in [Slots -> Entry] /\ a \in FdTableArray
  BY <1>1, OwnedTable DEF Held
<1>3. SeekWithFd(a, pid, fd, offset).tables = b
  BY <1>1 DEF SeekWithFd, Update
<1> HIDE DEF t, old
<1>4. new[fd].offset = offset
  BY <1>1, <1>2 DEF SeekEntry
<1> HIDE DEF new
<1>5. \A u \in Tables : b[u] = IF u = t THEN [pid |-> pid, table |-> new] ELSE a[u]
  BY <1>2 DEF Store, FdTableArray
<1> HIDE DEF b
<1>6. OwnedBy(b, pid) = OwnedBy(a, pid)
  BY <1>2, <1>5 DEF OwnedBy
<1>7. TableOf(b, pid) = new /\ CanSeek(b, pid, fd)
  BY <1>1, <1>2, <1>5, <1>6 DEF TableOf, CanSeek, HasTable, t
<1>8. PositionForFd(b, pid, fd) = offset
  BY <1>4, <1>7 DEF PositionForFd
<1>. QED  BY <1>3, <1>8

-----------------------------------------------------------------------------
(* The contents of file i after k cells were written at pos *)
Landed(rd, e, i, pos, k, v) ==
  Contents(e, i) = IF k = 0 THEN Contents(rd, i) ELSE Written(Contents(rd, i), pos, k, v)

(* A call of rd_write that is not refused *)
LEMMA WriteLands ==
  ASSUME IInv, NEW pid \in Pids, NEW fd, NEW n \in Nat, NEW v \in Data,
         NEW i, i = InodeOf(pid, fd), NEW pos, pos = PositionOf(pid, fd),
         Usable(pid, fd, FILE), pos <= RAMDISK.inodes[i].size, ~ HasHole(RAMDISK, i),
         rd_write(pid, fd, n, v)
  PROVE  \/ /\ ret' = n /\ Landed(RAMDISK, RAMDISK', i, pos, n, v)
            /\ PositionForFd(fdtablea', pid, fd) = pos + n
         \/ /\ ret' = -1 /\ fdtablea' = fdtablea
            /\ \E k \in 0 .. n - 1 : Landed(RAMDISK, RAMDISK', i, pos, k, v)
<1> DEFINE w == Write(RAMDISK, i, pos, n, v)
<1>1. i \in Inums /\ pos \in Nat /\ RAMDISK.inodes[i].size \in Nat
  BY UsableTypes DEF Usable
<1>2. Sound(RAMDISK) /\ RAMDISK \in Disks /\ Held(fdtablea)
  BY DiskInvTypes DEF IInv
<1>3. Whole(RAMDISK, i)
  BY <1>1, NoHoleWhole
<1>4. /\ RAMDISK' = w.rd
      /\ IF w.failed THEN ret' = -1 /\ fdtablea' = fdtablea
         ELSE ret' = n /\ MoveTo(pid, fd, w.pos)
  BY DEF rd_write
<1>5. \/ ~ w.failed /\ w.pos = pos + n /\ Puts(RAMDISK, w.rd, i, pos, n, v)
      \/ w.failed /\ \E k \in 0 .. n - 1 : Puts(RAMDISK, w.rd, i, pos, k, v)
  BY <1>1, <1>2, <1>3, WritePuts
<1> HIDE DEF w
<1>6. \A k \in Nat : Puts(RAMDISK, RAMDISK', i, pos, k, v) => Landed(RAMDISK, RAMDISK', i, pos, k, v)
  BY <1>1, <1>2, PutsContents DEF Landed
<1>7. CASE ~ w.failed /\ w.pos = pos + n /\ Puts(RAMDISK, w.rd, i, pos, n, v)
  <2>1. InodeForFd(fdtablea, pid, fd) >= 0
    BY DEF Usable, InodeOf
  <2>2. fdtablea' = SeekWithFd(fdtablea, pid, fd, pos + n).tables
    BY <1>4, <1>7 DEF MoveTo
  <2>3. pos + n \in Nat
    BY <1>1
  <2>4. PositionForFd(SeekWithFd(fdtablea, pid, fd, pos + n).tables, pid, fd) = pos + n
    BY <1>2, <2>1, <2>3, MovedTo
  <2>. QED  BY <1>4, <1>6, <1>7, <2>2, <2>4
<1>8. CASE w.failed /\ \E k \in 0 .. n - 1 : Puts(RAMDISK, w.rd, i, pos, k, v)
  <2>1. PICK k \in 0 .. n - 1 : Puts(RAMDISK, w.rd, i, pos, k, v)
    BY <1>8
  <2>2. k \in Nat
    OBVIOUS
  <2>. QED  BY <1>4, <1>6, <1>8, <2>1, <2>2
<1>. QED  BY <1>5, <1>7, <1>8

(* What WritesExact says of a step *)
WriteExactly ==
  \A pid \in Pids, fd \in Fds, n \in WriteLens, v \in Data :
       LET i   == InodeOf(pid, fd)
           pos == PositionOf(pid, fd)
           old == Contents(RAMDISK, i)
           Done(k) == Contents(RAMDISK', i)
                        = IF k = 0 THEN old ELSE Written(old, pos, k, v)
       IN  (/\ ret' \in {n, -1}
            /\ Usable(pid, fd, FILE)
            /\ pos <= RAMDISK.inodes[i].size
            /\ ~HasHole(RAMDISK, i)
            /\ rd_write(pid, fd, n, v))
           => \/ ret' = n /\ Done(n) /\ PositionForFd(fdtablea', pid, fd) = pos + n
              \/ /\ ret' = -1 /\ (\E k \in 0 .. n - 1 : Done(k))
                 /\ UNCHANGED fdtablea

(***************************************************************************)
(* rd_write on a file without holes, from a position that is not beyond    *)
(* its end, puts the cells it answers for where the descriptor stands,     *)
(* whatever blocks and tables had to be added, changes no other cell and   *)
(* moves the descriptor past them; when a block cannot be had in the       *)
(* middle of it, what was written is a prefix, and the descriptor stays.   *)
(***************************************************************************)
THEOREM WritesAreExact == Spec => WritesExact
<1>1. ASSUME IInv, NEW pid \in Pids, NEW fd \in Fds, NEW n \in WriteLens, NEW v \in Data
      PROVE  LET i   == InodeOf(pid, fd)
                 pos == PositionOf(pid, fd)
                 old == Contents(RAMDISK, i)
                 Done(k) == Contents(RAMDISK', i)
                              = IF k = 0 THEN old ELSE Written(old, pos, k, v)
             IN  (/\ ret' \in {n, -1}
                  /\ Usable(pid, fd, FILE)
                  /\ pos <= RAMDISK.inodes[i].size
                  /\ ~HasHole(RAMDISK, i)
                  /\ rd_write(pid, fd, n, v))
                 => \/ ret' = n /\ Done(n) /\ PositionForFd(fdtablea', pid, fd) = pos + n
                    \/ /\ ret' = -1 /\ (\E k \in 0 .. n - 1 : Done(k))
                       /\ UNCHANGED fdtablea
  <2>1. n \in Nat
    BY RamdiskAssumption
  <2>. QED  BY <1>1, <2>1, WriteLands DEF Landed
<1>2. IInv => WriteExactly
  BY <1>1 DEF WriteExactly
<1>3. WritesExact <=> [][WriteExactly]_vars
  BY DEF WritesExact, WriteExactly
<1>. QED  BY <1>2, <1>3, Inductive, PTL

-----------------------------------------------------------------------------
(***************************************************************************)
(* Every file has its shape and no directory has a double indirect table,  *)
(* after any sequence of calls: however far beyond its end a file was      *)
(* written, no pointer of it belongs to a block past its size, and no      *)
(* table has a pointer after a null one.                                   *)
(***************************************************************************)
THEOREM ShapesHold == Spec => []Shapes(RAMDISK)
<1>1. Init => Shapes(RAMDISK)
  BY EmptyDiskInv DEF Init
<1>2. ASSUME IInv, Shapes(RAMDISK), [Next]_vars
      PROVE  Shapes(RAMDISK')
  <2>1. CASE UNCHANGED vars
    BY <1>2, <2>1 DEF vars
  <2>2. CASE Quietly
    BY <1>2, <2>2 DEF Quietly
  <2>3. CASE Starts
    BY <2>3, EmptyDiskInv DEF Starts
  <2>4. CASE Creates
    BY <1>2, <2>4 DEF Creates, Entered, Created, Tends
  <2>5. CASE Spoils
    BY <1>2, <2>5 DEF Spoils, Orphaned, Created, Tends
  <2>6. CASE Unlinks
    BY <1>2, <2>6, UnlinkTree DEF IInv, Unlinks
  <2>7. CASE Fills
    <3>1. PICK i \in Inums : RAMDISK.inodes[i].type = FILE /\ Wrote(RAMDISK, RAMDISK', i)
      BY <2>7 DEF Fills
    <3>2. Formed(RAMDISK', i) /\ RAMDISK'.inodes[i].type # DIR
      BY <1>2, <3>1 DEF Shapes, Wrote, FILE, DIR
    <3>3. RAMDISK \in Disks
      BY <1>2, DiskInvTypes DEF IInv
    <3>. QED  BY <1>2, <3>1, <3>2, <3>3, KeptShapes DEF Wrote
  <2>. QED  BY <1>2, <2>1, <2>2, <2>3, <2>4, <2>5, <2>6, <2>7, CallCases
<1>3. IInv /\ Shapes(RAMDISK) /\ [Next]_vars => Shapes(RAMDISK)'
  BY <1>2
<1>. QED  BY <1>1, <1>3, Inductive, PTL DEF Spec

(* In a file that is whole the blocks before one within its size are there. *)
LEMMA WholeBelow ==
  ASSUME NEW rd \in Disks, NEW i \in Inums, Whole(rd, i), NEW k \in Nat, NEW j \in Nat, j < k,
         Slot(k, 0) <= rd.inodes[i].size
  PROVE  Blk(rd, i, j) # NULL
<1>1. rd.inodes[i].size \in Nat /\ 0 \in Offs
  BY DiskTypes, InodeAssumption DEF Offs
<1>2. Slot(j, 0) \in Nat /\ Slot(k, 0) \in Nat /\ Slot(j, 0) < Slot(k, 0)
  BY <1>1, SlotOrder
<1>3. Slot(j, 0) \in 0 .. rd.inodes[i].size - 1
  BY <1>1, <1>2
<1>4. Slot(j, 0) \div BLOCK_CELLS = j
  BY <1>1, SlotParts
<1>. QED  BY <1>3, <1>4 DEF Whole

(* The direct blocks, and the first of the indirect ones *)
LEMMA FirstBlks ==
  ASSUME NEW rd, NEW i
  PROVE  /\ \A k \in Directs : k \in Near /\ k \in Nat /\ k < DIRECT_POINTERS
                               /\ Blk(rd, i, k) = rd.inodes[i].direct[k]
         /\ \A p \in Places :
              /\ DIRECT_POINTERS + p \in Near /\ p \in Nat
              /\ Blk(rd, i, DIRECT_POINTERS + p) = BlockAt(rd, rd.inodes[i].indirect, p)
         /\ 0 \in Places /\ DIRECT_POINTERS \in Nat \ {0} /\ BLOCK_PTRS \in Nat \ {0}
<1>1. DIRECT_POINTERS \in Nat \ {0} /\ BLOCK_PTRS \in Nat \ {0}
  BY InodeAssumption
<1>2. ASSUME NEW k \in Directs
      PROVE  k \in Near /\ k \in Nat /\ k < DIRECT_POINTERS
             /\ Blk(rd, i, k) = rd.inodes[i].direct[k]
  <2>1. k \in Near /\ k \in Nat /\ k < DIRECT_POINTERS
    BY <1>1 DEF Near, Directs
  <2>. QED  BY <2>1, NearBlk
<1>3. ASSUME NEW p \in Places
      PROVE  /\ DIRECT_POINTERS + p \in Near /\ p \in Nat
             /\ Blk(rd, i, DIRECT_POINTERS + p) = BlockAt(rd, rd.inodes[i].indirect, p)
  <2>1. /\ DIRECT_POINTERS + p \in Near /\ ~ (DIRECT_POINTERS + p < DIRECT_POINTERS)
        /\ (DIRECT_POINTERS + p) - DIRECT_POINTERS = p /\ p \in Nat
    BY <1>1 DEF Near, Places
  <2>. QED  BY <2>1, NearBlk
<1>4. 0 \in Places
  BY <1>1 DEF Places
<1>. QED  BY <1>1, <1>2, <1>3, <1>4

(* A file without holes has nothing behind a null pointer. *)
LEMMA WholeTight ==
  ASSUME NEW rd \in Disks, NEW i \in Inums, Whole(rd, i), Formed(rd, i)
  PROVE  Tight(rd, i)
<1> DEFINE node == rd.inodes[i]
<1>1. ASSUME NEW p \in Directs, NEW q \in Directs, q < p, node.direct[p] # NULL
      PROVE  node.direct[q] # NULL
  <2>1. Slot(p, 0) <= node.size
    BY <1>1 DEF Formed, Reaches
  <2>. QED  BY <1>1, <2>1, FirstBlks, WholeBelow
<1>2. ASSUME node.indirect # NULL, NEW k \in Directs
      PROVE  node.direct[k] # NULL
  <2>1. Slot(DIRECT_POINTERS, 0) <= node.size
    BY <1>2 DEF Formed, Reaches
  <2>. QED  BY <1>2, <2>1, FirstBlks, WholeBelow
<1>3. ASSUME node.double # NULL
      PROVE  node.indirect # NULL
  <2>1. Slot(DIRECT_POINTERS + BLOCK_PTRS, 0) <= node.size
    BY <1>3 DEF Formed, Reaches
  <2>2. DIRECT_POINTERS \in Nat /\ BLOCK_PTRS \in Nat \ {0}
    BY FirstBlks
  <2>3. DIRECT_POINTERS + BLOCK_PTRS \in Nat /\ DIRECT_POINTERS < DIRECT_POINTERS + BLOCK_PTRS
    BY <2>2
  <2>4. Blk(rd, i, DIRECT_POINTERS) # NULL
    BY <2>1, <2>2, <2>3, WholeBelow
  <2>5. DIRECT_POINTERS + 0 = DIRECT_POINTERS /\ 0 \in Places
    BY <2>2, FirstBlks
  <2>6. Blk(rd, i, DIRECT_POINTERS) = BlockAt(rd, node.indirect, 0)
    BY <2>5, FirstBlks
  <2>. QED  BY <2>4, <2>6 DEF BlockAt
<1>. QED  BY <1>1, <1>2, <1>3 DEF Tight, Formed

(* Nor has an empty directory, unless it has a stranded table. *)
LEMMA EmptyTight ==
  ASSUME NEW rd \in Disks, NEW d \in Inums, BlocksInOrder(rd, d), rd.inodes[d].size = 0,
         rd.inodes[d].double = NULL, ~ Stranded(rd, d)
  PROVE  Tight(rd, d)
<1> DEFINE node == rd.inodes[d]
<1>1. \A k \in Near : k # 0 => Blk(rd, d, k) = NULL
  <2>1. \A k \in Near : Slot(k, 0) \in Nat
    BY NearTypes, SlotAtLeast
  <2>. QED  BY <2>1 DEF BlocksInOrder
<1>2. ASSUME NEW p \in Directs, NEW q \in Directs, q < p
      PROVE  node.direct[p] = NULL
  <2>1. p # 0
    BY <1>2 DEF Directs
  <2>. QED  BY <1>1, <2>1, FirstBlks
<1>3. node.indirect # NULL => \A k \in Directs : node.direct[k] # NULL
  BY DEF Stranded
<1>4. Filled(rd, node.indirect)
  <2>1. SUFFICES ASSUME node.indirect # NULL, NEW p \in Places, NEW q \in Places, q < p
                 PROVE  rd.ptrs[node.indirect][p] = NULL
    BY DEF Filled
  <2>2. DIRECT_POINTERS + p # 0
    BY <2>1, FirstBlks
  <2>3. BlockAt(rd, node.indirect, p) = NULL
    BY <1>1, <2>2, FirstBlks
  <2>. QED  BY <2>1, <2>3 DEF BlockAt
<1>5. Filled(rd, NULL) /\ \A p \in Places : BlockAt(rd, NULL, p) = NULL
  BY DEF Filled, BlockAt
<1>6. TablesFilled(rd, d)
  BY <1>4, <1>5 DEF TablesFilled
<1>. QED  BY <1>2, <1>3, <1>6 DEF Tight

(* The inode that rd_unlink frees *)
LEMMA UnlinksLoose ==
  ASSUME IInv, Shapes(RAMDISK), Unlinks, \A i \in Inums : ~ HasHole(RAMDISK, i), ~ UnlinksStranded
  PROVE  NoneLost(RAMDISK, RAMDISK')
<1>1. DiskInv(RAMDISK) /\ RAMDISK \in Disks
  BY DiskInvTypes DEF IInv
<1>2. PICK path, d, found, p :
        /\ path \in Paths /\ rd_unlink(path)
        /\ Removable(RAMDISK, d, found, p)
        /\ ~ (RAMDISK.inodes[found.inum].type = DIR /\ RAMDISK.inodes[found.inum].size > 0)
        /\ RAMDISK' = RemoveEntry(DeallocateInode(Release(RAMDISK, found.inum), found.inum), d, found)
  BY DEF Unlinks
<1> DEFINE c == found.inum
<1>3. /\ Vacated(RAMDISK, RAMDISK', c)
      /\ Tight(RAMDISK, c) => NoneLost(RAMDISK, RAMDISK')
  BY <1>1, <1>2, UnlinkTree
<1>4. c \in Inums /\ RAMDISK.inodes[c].type # UNALLOCATED
  BY <1>2 DEF Removable
<1>5. ~ Stranded(RAMDISK, c)
  BY <1>2, <1>3, <1>4 DEF UnlinksStranded, Vacated
<1> HIDE DEF c
<1>6. RAMDISK.inodes[c].type \in {FILE, DIR} /\ RAMDISK.inodes[c].size \in Nat
  BY <1>1, <1>4, DiskTypes
<1>7. CASE RAMDISK.inodes[c].type = FILE
  <2>1. Whole(RAMDISK, c) /\ Formed(RAMDISK, c)
    BY <1>4, <1>6, <1>7, NoHoleWhole DEF Shapes
  <2>. QED  BY <1>1, <1>3, <1>4, <2>1, WholeTight
<1>8. CASE RAMDISK.inodes[c].type = DIR
  <2>1. RAMDISK.inodes[c].size = 0 /\ RAMDISK.inodes[c].double = NULL
    BY <1>3, <1>4, <1>8 DEF Vacated, Shapes
  <2>2. BlocksInOrder(RAMDISK, c)
    BY <1>1, <1>4, <1>8 DEF DiskInv, AllInOrder, InOrder
  <2>. QED  BY <1>1, <1>3, <1>4, <1>5, <2>1, <2>2, EmptyTight
<1>. QED  BY <1>6, <1>7, <1>8

(* The file that rd_write writes to *)
LEMMA FillsLoose ==
  ASSUME IInv, Fills, \A i \in Inums : ~ HasHole(RAMDISK, i), ~ WritesOutside
  PROVE  NoneLost(RAMDISK, RAMDISK')
<1>1. PICK i \in Inums :
        /\ Wrote(RAMDISK, RAMDISK', i)
        /\ \E pid \in Pids, fd \in Fds, n \in WriteLens, v \in Data :
             i = InodeOf(pid, fd) /\ Usable(pid, fd, FILE) /\ rd_write(pid, fd, n, v)
  BY DEF Fills
<1>2. PICK pid \in Pids, fd \in Fds, n \in WriteLens, v \in Data :
        i = InodeOf(pid, fd) /\ Usable(pid, fd, FILE) /\ rd_write(pid, fd, n, v)
  BY <1>1
<1> DEFINE pos == PositionOf(pid, fd)
           w   == Write(RAMDISK, i, pos, n, v)
<1>3. ~ (pos > RAMDISK.inodes[i].size) /\ ~ (pos + n > MaxFile)
  BY <1>2 DEF WritesOutside
<1>4. RAMDISK' = w.rd
  BY <1>2 DEF rd_write
<1>5. n \in Nat /\ pos \in Nat /\ RAMDISK.inodes[i].size \in Nat
  BY <1>2, UsableTypes, RamdiskAssumption DEF Usable
<1>6. Sound(RAMDISK) /\ RAMDISK \in Disks /\ Whole(RAMDISK, i)
  BY <1>5, DiskInvTypes, NoHoleWhole DEF IInv
<1> HIDE DEF pos, w
<1>7. MaxFile \in Nat
  BY InodeAssumption, SlotAtLeast DEF MaxFile
<1>8. pos <= RAMDISK.inodes[i].size /\ pos + n <= MaxFile
  BY <1>3, <1>5, <1>7
<1>9. Keeps(RAMDISK, RAMDISK', i)
  BY <1>4, <1>5, <1>6, <1>8, WritePuts DEF w
<1>10. RAMDISK' \in Disks /\ OthersKept(RAMDISK, RAMDISK', i)
  BY <1>1 DEF Wrote, Sound
<1>. QED  BY <1>6, <1>9, <1>10, KeepsNoneLost

(* The blocks in the trees are those that the pointers of the runs lead to. *)
LEMMA InTreesIs ==
  ASSUME NEW rd \in Disks, NEW b
  PROVE  b \in InTrees(rd) <=> \E i \in Inums : InTree(rd, i, b)
<1> DEFINE tables == UNION {TablesOf(rd, i) : i \in Inums}
<1>1. \A t \in Blocks : rd.ptrs[t] \in [Places -> Ptr]
  BY DiskTypes
<1>2. ASSUME NEW i \in Inums, NEW t
      PROVE  t \in TablesOf(rd, i)
               <=> /\ t # NULL
                   /\ \/ t = rd.inodes[i].indirect
                      \/ t = rd.inodes[i].double
                      \/ Under(rd, rd.inodes[i].double, t)
  <2> DEFINE double == rd.inodes[i].double
  <2>1. double \in Ptr
    BY DiskTypes
  <2>2. double # NULL => Range(rd.ptrs[double]) = {rd.ptrs[double][p] : p \in Places}
    <3>1. double # NULL => rd.ptrs[double] \in [Places -> Ptr]
      BY <1>1, <2>1 DEF Ptr
    <3>. QED  BY <3>1 DEF Range
  <2>. QED  BY <2>2 DEF TablesOf, Under
<1>3. ASSUME b \in InTrees(rd)
      PROVE  \E i \in Inums : InTree(rd, i, b)
  <2>1. PICK x \in Pointers(rd) : x[4] = b
    BY <1>3 DEF InTrees
  <2>2. b # NULL
    BY <2>1 DEF Pointers
  <2>3. \/ \E i \in Inums, k \in Directs : x = <<"direct", i, k, rd.inodes[i].direct[k]>>
        \/ \E i \in Inums : x = <<"indirect", i, 0, rd.inodes[i].indirect>>
        \/ \E i \in Inums : x = <<"double", i, 0, rd.inodes[i].double>>
        \/ \E t \in tables, p \in Places : x = <<"table", t, p, rd.ptrs[t][p]>>
    BY DEF Pointers
  <2> HIDE DEF tables
  <2>4. CASE \E i \in Inums, k \in Directs : x = <<"direct", i, k, rd.inodes[i].direct[k]>>
    BY <2>1, <2>2, <2>4 DEF InTree
  <2>5. CASE \E i \in Inums : x = <<"indirect", i, 0, rd.inodes[i].indirect>>
    BY <2>1, <2>2, <2>5 DEF InTree
  <2>6. CASE \E i \in Inums : x = <<"double", i, 0, rd.inodes[i].double>>
    BY <2>1, <2>2, <2>6 DEF InTree
  <2>7. CASE \E t \in tables, p \in Places : x = <<"table", t, p, rd.ptrs[t][p]>>
    <3>1. PICK t \in tables, p \in Places : x = <<"table", t, p, rd.ptrs[t][p]>>
      BY <2>7
    <3>2. PICK i \in Inums : t \in TablesOf(rd, i)
      BY <3>1 DEF tables
    <3>3. rd.ptrs[t][p] = b
      BY <2>1, <3>1
    <3>4. Under(rd, t, b)
      BY <1>2, <3>2, <3>3 DEF Under
    <3>5. Under(rd, rd.inodes[i].double, t) => t \in Blocks
      <4>1. rd.inodes[i].double \in Ptr
        BY DiskTypes
      <4>. QED  BY <1>1, <1>2, <3>2, <4>1 DEF Under, Ptr
    <3>. QED  BY <1>2, <2>2, <3>2, <3>4, <3>5 DEF InTree
  <2>. QED  BY <2>3, <2>4, <2>5, <2>6, <2>7
<1>4. ASSUME NEW i \in Inums, InTree(rd, i, b)
      PROVE  b \in InTrees(rd)
  <2>1. SUFFICES \E x \in Pointers(rd) : x[4] = b
    BY DEF InTrees
  <2>2. b # NULL
    BY <1>4 DEF InTree
  <2>3. ASSUME NEW t \in TablesOf(rd, i), Under(rd, t, b)
        PROVE  \E x \in Pointers(rd) : x[4] = b
    <3>1. PICK p \in Places : rd.ptrs[t][p] = b
      BY <2>3 DEF Under
    <3>2. t \in tables
      OBVIOUS
    <3>3. <<"table", t, p, rd.ptrs[t][p]>> \in Pointers(rd)
      BY <2>2, <3>1, <3>2 DEF Pointers
    <3>. QED  BY <3>1, <3>3
  <2>4. ASSUME NEW k \in Directs, rd.inodes[i].direct[k] = b
        PROVE  \E x \in Pointers(rd) : x[4] = b
    <3>1. <<"direct", i, k, rd.inodes[i].direct[k]>> \in Pointers(rd)
      BY <2>2, <2>4 DEF Pointers
    <3>. QED  BY <2>4, <3>1
  <2>5. ASSUME rd.inodes[i].indirect = b
        PROVE  \E x \in Pointers(rd) : x[4] = b
    <3>1. <<"indirect", i, 0, rd.inodes[i].indirect>> \in Pointers(rd)
      BY <2>2, <2>5 DEF Pointers
    <3>. QED  BY <2>5, <3>1
  <2>6. ASSUME rd.inodes[i].double = b
        PROVE  \E x \in Pointers(rd) : x[4] = b
    <3>1. <<"double", i, 0, rd.inodes[i].double>> \in Pointers(rd)
      BY <2>2, <2>6 DEF Pointers
    <3>. QED  BY <2>6, <3>1
  <2>7. \/ \E k \in Directs : rd.inodes[i].direct[k] = b
        \/ rd.inodes[i].indirect = b
        \/ rd.inodes[i].double = b
        \/ \E t \in TablesOf(rd, i) : Under(rd, t, b)
    <3>1. \A t : Under(rd, t, b) => t # NULL
      BY DEF Under
    <3>. QED  BY <1>2, <1>4, <3>1 DEF InTree
  <2>. QED  BY <2>3, <2>4, <2>5, <2>6, <2>7
<1>. QED  BY <1>3, <1>4

(***************************************************************************)
(* A block is lost only by a write outside what a file holds, or while     *)
(* there is a hole in one, or when a directory with a stranded table is    *)
(* removed: whatever else a call does, and however it fails, each block    *)
(* that is marked in the bitmap afterwards is in some tree or was lost     *)
(* before.                                                                 *)
(***************************************************************************)
THEOREM BlocksAreNotLost == Spec => LostOnlyOutside
<1> DEFINE Outside == \/ \E i \in Inums : HasHole(RAMDISK, i)
                      \/ WritesOutside
                      \/ UnlinksStranded
<1>1. ASSUME IInv, Shapes(RAMDISK), Next, ~ Outside
      PROVE  Lost(RAMDISK') \subseteq Lost(RAMDISK)
  <2>1. RAMDISK \in Disks /\ RAMDISK' \in Disks
    <3>1. IInv'
      BY <1>1, NextIInv
    <3>2. DiskInv(RAMDISK) /\ DiskInv(RAMDISK')
      BY <1>1, <3>1 DEF IInv
    <3>. QED  BY <3>2, DiskInvTypes
  <2>2. \/ NoneLost(RAMDISK, RAMDISK')
        \/ Allocated(RAMDISK') = {}
    <3>1. CASE Quietly
      BY <3>1 DEF Quietly, NoneLost
    <3>2. CASE Starts
      BY <3>2, EmptyDiskInv DEF Starts
    <3>3. CASE Creates
      BY <1>1, <3>3 DEF Creates, Entered, Created, Tends
    <3>4. CASE Spoils
      BY <1>1, <3>4 DEF Spoils, Orphaned, Created, Tends
    <3>5. CASE Unlinks
      BY <1>1, <3>5, UnlinksLoose
    <3>6. CASE Fills
      BY <1>1, <3>6, FillsLoose
    <3>. QED  BY <1>1, <3>1, <3>2, <3>3, <3>4, <3>5, <3>6, CallCases
  <2>3. \A b : /\ b \in Lost(RAMDISK) <=> Loose(RAMDISK, b)
               /\ b \in Lost(RAMDISK') <=> Loose(RAMDISK', b)
    BY <2>1, InTreesIs DEF Lost, Loose
  <2>. QED  BY <2>2, <2>3 DEF NoneLost, Loose
<1>2. IInv /\ Shapes(RAMDISK) /\ [Next]_vars =>
        [Lost(RAMDISK') \subseteq Lost(RAMDISK) \/ Outside]_RAMDISK
  BY <1>1 DEF vars
<1>. QED  BY <1>2, Inductive, ShapesHold, PTL DEF Spec, LostOnlyOutside
-----------------------------------------------------------------------------
(***************************************************************************)
(* Adding a block to a file of any shape, for a write that begins beyond   *)
(* its end.  Blocks are alike when one pointer table has a place for both; *)
(* a block that is added goes to the first free place of the table of the  *)
(* block that is wanted, which may be a place before or behind it.         *)
(***************************************************************************)
Alike(j, k) ==
  /\ Position(j).kind \in Tabled
  /\ Position(j).kind = Position(k).kind /\ Position(j).table = Position(k).table

(* It is an equivalence of the blocks that have a place in a table. *)
LEMMA AlikeSame ==
  ASSUME NEW j, NEW k, Alike(j, k)
  PROVE  Alike(k, j) /\ \A l : (Alike(k, l) <=> Alike(j, l)) /\ (Alike(l, k) <=> Alike(l, j))
BY DEF Alike

(* The kinds come one after the other. *)
LEMMA KindOrder ==
  ASSUME NEW m \in Nat, NEW range, range = BLOCK_PTRS * BLOCK_PTRS
  PROVE  /\ range \in Nat
         /\ Position(m).kind = "indirect"
              <=> m >= DIRECT_POINTERS /\ m < DIRECT_POINTERS + BLOCK_PTRS
         /\ Position(m).kind = "double"
              <=> /\ m >= DIRECT_POINTERS + BLOCK_PTRS
                  /\ m < DIRECT_POINTERS + BLOCK_PTRS + range
<1> DEFINE k1 == m - DIRECT_POINTERS
           k2 == k1 - BLOCK_PTRS
           kind == Position(m).kind
<1>1. BLOCK_PTRS \in Nat /\ DIRECT_POINTERS \in Nat /\ range \in Nat
  BY InodeAssumption
<1>2. kind = IF k1 < 0 THEN "direct" ELSE IF k2 < 0 THEN "indirect"
             ELSE IF k2 < range THEN "double" ELSE "none"
  BY DEF Position
<1>3. /\ k1 < 0 <=> m < DIRECT_POINTERS
      /\ k2 < 0 <=> m < DIRECT_POINTERS + BLOCK_PTRS
      /\ k2 < range <=> m < DIRECT_POINTERS + BLOCK_PTRS + range
      /\ m < DIRECT_POINTERS => m < DIRECT_POINTERS + BLOCK_PTRS
      /\ m >= DIRECT_POINTERS <=> ~ (m < DIRECT_POINTERS)
      /\ m >= DIRECT_POINTERS + BLOCK_PTRS <=> ~ (m < DIRECT_POINTERS + BLOCK_PTRS)
  BY <1>1
<1>4. /\ kind = "indirect" <=> ~ (k1 < 0) /\ k2 < 0
      /\ kind = "double" <=> ~ (k1 < 0) /\ ~ (k2 < 0) /\ k2 < range
  BY <1>2
<1> HIDE DEF kind, k1, k2
<1>. QED  BY <1>1, <1>3, <1>4 DEF kind

(* What is between two that are alike is like them. *)
LEMMA AlikeBetween ==
  ASSUME NEW l \in Nat, NEW m \in Nat, NEW s \in Nat, l <= m, m <= s, Alike(l, s)
  PROVE  Alike(l, m) /\ Alike(m, s)
<1> DEFINE pl == Position(l)
           pm == Position(m)
           ps == Position(s)
           range == BLOCK_PTRS * BLOCK_PTRS
<1>1. pl.kind \in Tabled /\ pl.kind = ps.kind /\ pl.table = ps.table
  BY DEF Alike
<1>2. pm.kind = pl.kind
  <2>1. DIRECT_POINTERS \in Nat /\ BLOCK_PTRS \in Nat
    BY InodeAssumption
  <2>2. /\ range \in Nat
        /\ \A x \in {l, m, s} :
             /\ Position(x).kind = "indirect"
                  <=> x >= DIRECT_POINTERS /\ x < DIRECT_POINTERS + BLOCK_PTRS
             /\ Position(x).kind = "double"
                  <=> /\ x >= DIRECT_POINTERS + BLOCK_PTRS
                      /\ x < DIRECT_POINTERS + BLOCK_PTRS + range
    BY KindOrder
  <2> HIDE DEF range, pl, pm, ps
  <2>. QED  BY <1>1, <2>1, <2>2 DEF Tabled, pl, pm, ps
<1>3. /\ pm.kind = "indirect" => pl.table = 0 /\ pm.table = 0
      /\ pm.kind = "double" =>
           /\ pl.table \in Places /\ pl.place \in Places /\ l = Numbered(pl.table, pl.place)
           /\ pm.table \in Places /\ pm.place \in Places /\ m = Numbered(pm.table, pm.place)
           /\ ps.table \in Places /\ ps.place \in Places /\ s = Numbered(ps.table, ps.place)
  BY <1>1, <1>2, PositionNumber
<1> HIDE DEF pl, pm, ps
<1>4. pm.table = pl.table
  <2>1. CASE pm.kind = "indirect"
    BY <1>3, <2>1
  <2>2. CASE pm.kind = "double"
    <3>1. pm.table \in Int /\ pl.table \in Int
      BY <1>3, <2>2 DEF Places
    <3>2. ~ (pm.table < pl.table)
      <4>1. pm.table < pl.table => m < l
        BY <1>3, <2>2, NumberedOrder
      <4>. QED  BY <4>1
    <3>3. ~ (pl.table < pm.table)
      <4>1. ps.table < pm.table => s < m
        BY <1>3, <2>2, NumberedOrder
      <4>. QED  BY <1>1, <4>1
    <3>. QED  BY <3>1, <3>2, <3>3
  <2>. QED  BY <1>1, <1>2, <2>1, <2>2 DEF Tabled
<1>. QED  BY <1>1, <1>2, <1>4 DEF Alike, pl, pm, ps

(* Alike are the blocks in order of their places. *)
LEMMA AlikeOrder ==
  ASSUME NEW j \in Nat, NEW k \in Nat, Alike(j, k)
  PROVE  Position(j).place < Position(k).place <=> j < k
<1> DEFINE pj == Position(j)
           pk == Position(k)
<1>1. pj.kind \in Tabled /\ pj.kind = pk.kind /\ pj.table = pk.table
  BY DEF Alike
<1>2. /\ pj.kind = "indirect" => /\ pj.place \in Places /\ j = DIRECT_POINTERS + pj.place
                                 /\ pk.place \in Places /\ k = DIRECT_POINTERS + pk.place
      /\ pj.kind = "double" =>
           /\ pj.table \in Places /\ pj.place \in Places /\ j = Numbered(pj.table, pj.place)
           /\ pk.place \in Places /\ k = Numbered(pj.table, pk.place)
  BY <1>1, PositionNumber
<1> HIDE DEF pj, pk
<1>3. CASE pj.kind = "indirect"
  BY <1>2, <1>3, InodeAssumption DEF Places, pj, pk
<1>4. CASE pj.kind = "double"
  <2>1. /\ pj.place < pk.place => j < k
        /\ pk.place < pj.place => k < j
    BY <1>2, <1>4, NumberedOrder
  <2>2. pj.place \in Int /\ pk.place \in Int
    BY <1>2, <1>4 DEF Places
  <2>3. pj.place = pk.place => j = k
    BY <1>2, <1>4
  <2>4. pj.place < pk.place \/ pk.place < pj.place \/ pj.place = pk.place
    BY <2>2
  <2>. QED  BY <2>1, <2>3, <2>4 DEF pj, pk
<1>. QED  BY <1>1, <1>3, <1>4 DEF Tabled

(* Every place of a table has a number. *)
LEMMA AlikeExists ==
  ASSUME NEW k \in Nat, NEW pos, pos = Position(k), pos.kind \in Tabled, NEW p \in Places
  PROVE  \E j \in Nat : Position(j) = [kind |-> pos.kind, table |-> pos.table, place |-> p]
<1>1. CASE pos.kind = "indirect"
  <2> DEFINE j == DIRECT_POINTERS + p
  <2>1. pos.table = 0
    BY <1>1, PositionNumber
  <2>2. j \in Nat /\ j - DIRECT_POINTERS = p /\ ~ (j - DIRECT_POINTERS < 0)
        /\ j - DIRECT_POINTERS - BLOCK_PTRS < 0
    BY InodeAssumption DEF Places
  <2> HIDE DEF j
  <2>3. Position(j) = [kind |-> pos.kind, table |-> pos.table, place |-> p]
    BY <1>1, <2>1, <2>2 DEF Position
  <2>. QED  BY <2>2, <2>3
<1>2. CASE pos.kind = "double"
  <2>1. pos.table \in Places
    BY <1>2, PositionNumber
  <2>. QED  BY <1>2, <2>1, NumberedPosition
<1>. QED  BY <1>1, <1>2 DEF Tabled

(***************************************************************************)
(* Block c becomes number j: the one that is wanted, k, or the first that  *)
(* is missing of those like it.                                            *)
(***************************************************************************)
Lands(rd, e, i, k, j, c) ==
  /\ \A l \in Nat : Blk(e, i, l) = IF l = j THEN c ELSE Blk(rd, i, l)
  /\ j = k \/ (Alike(j, k) /\ Blk(rd, i, j) = NULL)
  /\ \A l \in Nat : l < j /\ Alike(l, k) => Blk(rd, i, l) # NULL

(* The block that is got, if it is in the tree at all, is empty. *)
Comes(rd, got, i, k) ==
  \/ SameBlks(rd, got.rd, i)
  \/ \E j \in Nat, c \in Blocks :
       /\ Lands(rd, got.rd, i, k, j, c)
       /\ got.rd.data[c] = ZeroCells
       /\ got.block \in {NULL, c}

(* What was done before changed no block. *)
LEMMA ComesAfter ==
  ASSUME NEW rd, NEW e, NEW got, NEW i, NEW k \in Nat, SameBlks(rd, e, i), Comes(e, got, i, k)
  PROVE  Comes(rd, got, i, k)
<1>1. CASE SameBlks(e, got.rd, i)
  BY <1>1 DEF SameBlks, Comes
<1>2. CASE ~ SameBlks(e, got.rd, i)
  <2>1. PICK j \in Nat, c \in Blocks :
          /\ Lands(e, got.rd, i, k, j, c)
          /\ got.rd.data[c] = ZeroCells
          /\ got.block \in {NULL, c}
    BY <1>2 DEF Comes
  <2>2. Lands(rd, got.rd, i, k, j, c)
    BY <2>1 DEF Lands, SameBlks
  <2>. QED  BY <2>1, <2>2 DEF Comes
<1>. QED  BY <1>1, <1>2

(* The block in hand goes into a table that is there. *)
LEMMA IntoTableComes ==
  ASSUME NEW e, Sound(e), NEW i \in Inums, NEW k \in Nat,
         NEW pos, pos = Position(k), pos.kind \in Tabled,
         NEW t, t = TableFor(e, i, pos), t # NULL,
         NEW b \in Blocks, Spare(e, b), e.data[b] = ZeroCells
  PROVE  /\ Comes(e, IntoTable(InHand(b, e), t), i, k)
         /\ Comes(e, IntoIndirect(InHand(b, e), t, pos.place), i, k)
<1> DEFINE added == AddToTable(e, t, b)
           f == added.rd
           p == added.place
<1>1. e \in Disks /\ OnePlace(e) /\ b # NULL
  BY DEF Sound, Blocks, NULL
<1>2. pos.place \in Places /\ pos.table \in Places
  BY BlkIs
<1>3. t \in Blocks /\ InTree(e, i, t)
  BY <1>1, <1>2, TableForIs
<1>4. /\ IntoTable(InHand(b, e), t) = InHand(b, f)
      /\ IntoIndirect(InHand(b, e), t, pos.place) = InHand(IF p = pos.place THEN b ELSE NULL, f)
  BY <1>1 DEF IntoTable, IntoIndirect, InHand
<1>5. Added(e, i, t, b, added)
  BY <1>3, AddToTableResult
<1> HIDE DEF added
<1>6. f.inodes = e.inodes /\ Sound(f) /\ f.data = e.data
  BY <1>5 DEF Added, Grows
<1>7. SUFFICES \/ SameBlks(e, f, i)
               \/ \E j \in Nat : Lands(e, f, i, k, j, b)
  <2>1. InHand(b, f).rd = f /\ InHand(b, f).block = b
    BY DEF InHand
  <2>2. ASSUME NEW h \in {b, NULL} PROVE InHand(h, f).rd = f /\ InHand(h, f).block = h
    BY DEF InHand
  <2>. QED  BY <1>4, <1>6, <2>1, <2>2 DEF Comes
<1>8. CASE f = e
  BY <1>8 DEF SameBlks
<1>9. CASE /\ p \in Places /\ e.ptrs[t][p] = NULL
           /\ \A q \in Places : q < p => e.ptrs[t][q] # NULL
           /\ f.ptrs = [e.ptrs EXCEPT ![t][p] = b]
  <2>1. PICK j \in Nat : Position(j) = [kind |-> pos.kind, table |-> pos.table, place |-> p]
    BY <1>9, AlikeExists
  <2> DEFINE at == Position(j)
  <2>2. at.kind = pos.kind /\ at.table = pos.table /\ at.place = p
    BY <2>1
  <2>3. TableFor(e, i, at) = t
    BY <2>2 DEF TableFor
  <2>4. Alike(j, k)
    BY <2>2 DEF Alike
  <2>5. \A l \in Nat : Blk(f, i, l) = IF l = j THEN b ELSE Blk(e, i, l)
    <3>1. f.ptrs = [e.ptrs EXCEPT ![t][at.place] = b] /\ at.kind \in Tabled
      BY <1>9, <2>2
    <3> HIDE DEF f, at
    <3>. QED  BY <1>6, <2>3, <3>1, PlaceBlk DEF at
  <2>6. Blk(e, i, j) = NULL
    <3>1. Blk(e, i, j) = BlockAt(e, TableFor(e, i, at), at.place)
      BY <2>2, BlkIs
    <3>. QED  BY <1>9, <2>2, <2>3, <3>1 DEF BlockAt
  <2>7. ASSUME NEW l \in Nat, l < j, Alike(l, k) PROVE Blk(e, i, l) # NULL
    <3> DEFINE q == Position(l)
    <3>1. q.kind = pos.kind /\ q.table = pos.table /\ Alike(l, j)
      BY <2>2, <2>7 DEF Alike
    <3>2. q.place < p
      BY <2>2, <2>7, <3>1, AlikeOrder
    <3>3. q.place \in Places /\ Blk(e, i, l) = BlockAt(e, TableFor(e, i, q), q.place)
      BY <3>1, BlkIs
    <3>4. TableFor(e, i, q) = t
      BY <3>1 DEF TableFor
    <3> HIDE DEF q, f, p
    <3>5. e.ptrs[t][q.place] # NULL
      BY <1>9, <3>2, <3>3
    <3>. QED  BY <3>3, <3>4, <3>5 DEF BlockAt
  <2>. QED  BY <2>4, <2>5, <2>6, <2>7 DEF Lands
<1>. QED  BY <1>5, <1>8, <1>9 DEF Added

(* A block for a table, if one can be had and the table is there *)
LEMMA AllocateComes ==
  ASSUME NEW e, Sound(e), NEW i \in Inums, NEW k \in Nat,
         NEW pos, pos = Position(k), pos.kind \in Tabled,
         NEW t, t = TableFor(e, i, pos)
  PROVE  /\ Comes(e, IntoTable(Allocate(e), t), i, k)
         /\ t # NULL => Comes(e, IntoIndirect(Allocate(e), t, pos.place), i, k)
<1> DEFINE got == Allocate(e)
           g == got.rd
           c == got.block
<1>1. TakenFor(e, got, i)
  BY AllocateFor
<1>2. c # NULL => c \in Blocks /\ g.data[c] = ZeroCells
  <2>1. Obtains(e, got) /\ e.data \in [Blocks -> [Offs -> Cells]]
    BY AllocateResult DEF Sound, Disks
  <2> HIDE DEF got
  <2>. QED  BY <2>1 DEF Obtains
<1> HIDE DEF got
<1>3. SameBlks(e, g, i)
  BY <1>1 DEF TakenFor
<1>4. CASE c = NULL
  <2>1. IntoTable(got, t) = got /\ IntoIndirect(got, t, pos.place) = got
    BY <1>4 DEF IntoTable, IntoIndirect
  <2>. QED  BY <1>3, <2>1 DEF Comes, got
<1>5. CASE c # NULL
  <2>1. got = InHand(c, g) /\ Sound(g) /\ t = TableFor(g, i, pos) /\ Spare(g, c)
    BY <1>1, <1>5 DEF TakenFor
  <2>2. CASE t = NULL
    <3>1. IntoTable(got, t) = InHand(c, g)
      BY <1>5, <2>2 DEF IntoTable, AddToTable
    <3>2. IntoTable(got, t).rd = g
      BY <3>1 DEF InHand
    <3>. QED  BY <1>3, <2>2, <3>2 DEF Comes, got
  <2>3. CASE t # NULL
    <3> DEFINE u == IntoTable(InHand(c, g), t)
               w == IntoIndirect(InHand(c, g), t, pos.place)
    <3>1. Comes(g, u, i, k) /\ Comes(g, w, i, k)
      BY <1>2, <1>5, <2>1, <2>3, IntoTableComes
    <3>2. u = IntoTable(Allocate(e), t) /\ w = IntoIndirect(Allocate(e), t, pos.place)
      BY <2>1 DEF got
    <3> HIDE DEF u, w, g
    <3>. QED  BY <1>3, <3>1, <3>2, ComesAfter
  <2>. QED  BY <2>2, <2>3
<1>. QED  BY <1>4, <1>5
(* A table goes to the first free place of the double indirect one, *)
(* wherever that is.                                                *)
LEMMA TableComes ==
  ASSUME NEW e, Sound(e), NEW i \in Inums,
         NEW double, double = e.inodes[i].double, double # NULL,
         NEW b \in Blocks, Spare(e, b), e.ptrs[b] = NullPtrs,
         NEW f, f = AddToTable(e, double, b).rd
  PROVE  Sound(f) /\ SameBlks(e, f, i) /\ f.inodes = e.inodes
<1> DEFINE added == AddToTable(e, double, b)
           p == added.place
<1>1. e \in Disks /\ OnePlace(e) /\ b # NULL /\ e.ptrs \in [Blocks -> [Places -> Ptr]]
  BY DEF Sound, Disks, Blocks, NULL
<1>2. double \in Blocks /\ InTree(e, i, double)
  BY <1>1, DiskTypes, TreePlaces DEF Ptr
<1>3. Added(e, i, double, b, added)
  BY <1>2, AddToTableResult
<1> HIDE DEF added
<1>4. f.inodes = e.inodes /\ Sound(f)
  BY <1>3 DEF Added, Grows, added
<1>5. CASE f = e
  BY <1>4, <1>5 DEF SameBlks
<1>6. CASE /\ p \in Places /\ e.ptrs[double][p] = NULL
           /\ f.ptrs = [e.ptrs EXCEPT ![double][p] = b]
  <2>1. b # double
    BY <1>1, <1>2, SpareNotInTree
  <2>2. /\ \A c \in Blocks \ {double} : f.ptrs[c] = e.ptrs[c]
        /\ \A q \in Places : f.ptrs[double][q] = IF q = p THEN b ELSE e.ptrs[double][q]
    <3> HIDE DEF p
    <3>1. /\ e.ptrs = [c \in Blocks |-> e.ptrs[c]]
          /\ e.ptrs[double] = [q \in Places |-> e.ptrs[double][q]]
      BY <1>1, <1>2
    <3>2. \A c \in Blocks \ {double} : f.ptrs[c] = e.ptrs[c]
      BY <1>6, <3>1
    <3>3. f.ptrs[double] = [e.ptrs[double] EXCEPT ![p] = b]
      BY <1>2, <1>6, <3>1
    <3>4. \A q \in Places : f.ptrs[double][q] = IF q = p THEN b ELSE e.ptrs[double][q]
      BY <3>1, <3>3
    <3>. QED  BY <3>2, <3>4
  <2>3. \A q \in Places : BlockAt(f, double, q) = IF q = p THEN b ELSE BlockAt(e, double, q)
    BY <1>1, <1>2, <2>2 DEF BlockAt
  <2>4. f.inodes[i].direct = e.inodes[i].direct /\ f.ptrs[b] = NullPtrs
    BY <1>4, <2>1, <2>2
  <2>5. ASSUME NEW q, q.kind \in Tabled, q.table \in Places,
               NEW t, t = TableFor(e, i, q), NEW u, u = TableFor(f, i, q)
        PROVE  \/ t = NULL /\ u \in {NULL, b}
               \/ t # NULL /\ u = t /\ f.ptrs[t] = e.ptrs[t]
    <3>1. t # NULL => t \in Blocks \ {double}
      BY <1>1, <2>5, TableForIs
    <3>2. t # NULL => f.ptrs[t] = e.ptrs[t]
      BY <2>2, <3>1
    <3>3. CASE q.kind = "indirect"
      BY <1>4, <2>5, <3>2, <3>3 DEF TableFor
    <3>4. CASE q.kind = "double"
      <4>1. t = BlockAt(e, double, q.table) /\ u = BlockAt(f, double, q.table)
        BY <1>4, <2>5, <3>4 DEF TableFor
      <4>2. q.table = p => t = NULL
        BY <4>1, <1>6 DEF BlockAt
      <4>. QED  BY <2>3, <2>5, <3>2, <4>1, <4>2
    <3>. QED  BY <2>5, <3>3, <3>4 DEF Tabled
  <2>6. Grafts(e, f, i, b)
    BY <2>4, <2>5 DEF Grafts
  <2>. QED  BY <1>4, <2>6, GraftedBlks
<1>. QED  BY <1>3, <1>5, <1>6 DEF Added, added

(* The block in hand goes into the indirect table, or becomes it. *)
LEMMA AddIndirectComes ==
  ASSUME NEW e, Sound(e), NEW i \in Inums, NEW k \in Nat,
         NEW pos, pos = Position(k), pos.kind = "indirect",
         NEW b \in Blocks, Spare(e, b), e.ptrs[b] = NullPtrs, e.data[b] = ZeroCells
  PROVE  Comes(e, AddIndirect(e, i, b, pos.place), i, k)
<1>1. pos.kind \in Tabled /\ b # NULL
  BY DEF Tabled, Blocks, NULL
<1>2. CASE e.inodes[i].indirect # NULL
  <2> DEFINE t == e.inodes[i].indirect
  <2>1. AddIndirect(e, i, b, pos.place) = IntoIndirect(InHand(b, e), t, pos.place)
    BY <1>2 DEF AddIndirect
  <2>2. t = TableFor(e, i, pos)
    BY DEF TableFor
  <2> HIDE DEF t
  <2>. QED  BY <1>1, <1>2, <2>1, <2>2, IntoTableComes DEF t
<1>3. CASE e.inodes[i].indirect = NULL
  <2> DEFINE f == [e EXCEPT !.inodes[i].indirect = b]
             got == IntoIndirect(Allocate(f), b, pos.place)
  <2>1. AddIndirect(e, i, b, pos.place) = got
    BY <1>3 DEF AddIndirect
  <2>2. Prepares(e, f, i, b) /\ f.inodes[i].indirect = b
    BY <1>3, PrepareIndirect
  <2> HIDE DEF f
  <2>3. Sound(f) /\ SameBlks(e, f, i) /\ TableFor(f, i, pos) = b
    BY <2>2 DEF Prepares, TableFor
  <2>4. Comes(f, got, i, k)
    BY <1>1, <2>3, AllocateComes
  <2> HIDE DEF got
  <2>. QED  BY <2>1, <2>3, <2>4, ComesAfter
<1>. QED  BY <1>2, <1>3

(* It goes into a table of the double indirect one, or becomes one. *)
LEMMA IntoDoubleComes ==
  ASSUME NEW e, Sound(e), NEW i \in Inums, NEW k \in Nat,
         NEW pos, pos = Position(k), pos.kind = "double",
         NEW double, double = e.inodes[i].double, double # NULL,
         NEW b \in Blocks, Spare(e, b), e.ptrs[b] = NullPtrs, e.data[b] = ZeroCells
  PROVE  Comes(e, IntoDouble(InHand(b, e), double, pos), i, k)
<1>1. pos.kind \in Tabled /\ b # NULL /\ InHand(b, e).block = b /\ InHand(b, e).rd = e
  BY DEF Tabled, Blocks, NULL, InHand
<1>2. TableFor(e, i, pos) = BlockAt(e, double, pos.table)
  BY DEF TableFor
<1>3. CASE TableFor(e, i, pos) # NULL
  <2>1. IntoDouble(InHand(b, e), double, pos) = IntoTable(InHand(b, e), TableFor(e, i, pos))
    BY <1>1, <1>2, <1>3 DEF IntoDouble
  <2>. QED  BY <1>1, <1>3, <2>1, IntoTableComes
<1>4. CASE TableFor(e, i, pos) = NULL
  <2> DEFINE f == AddToTable(e, double, b).rd
             t == TableFor(f, i, pos)
             got == IntoTable(Allocate(f), t)
  <2>1. IntoDouble(InHand(b, e), double, pos) = NewTable(f, double, pos.table)
    BY <1>1, <1>2, <1>4 DEF IntoDouble
  <2>2. Sound(f) /\ SameBlks(e, f, i) /\ f.inodes = e.inodes
    BY TableComes
  <2> HIDE DEF f
  <2>3. t = BlockAt(f, double, pos.table)
    BY <2>2 DEF TableFor
  <2>4. IntoDouble(InHand(b, e), double, pos) = got
    BY <2>1, <2>3 DEF NewTable
  <2>5. Comes(f, got, i, k)
    BY <1>1, <2>2, AllocateComes
  <2> HIDE DEF got
  <2>. QED  BY <2>2, <2>4, <2>5, ComesAfter
<1>. QED  BY <1>3, <1>4

(* Or it becomes the double indirect table itself. *)
LEMMA AddDoubleComes ==
  ASSUME NEW e, Sound(e), NEW i \in Inums, NEW k \in Nat,
         NEW pos, pos = Position(k), pos.kind = "double",
         NEW b \in Blocks, Spare(e, b), e.ptrs[b] = NullPtrs, e.data[b] = ZeroCells
  PROVE  Comes(e, AddDouble(e, i, b, pos), i, k)
<1>1. CASE e.inodes[i].double # NULL
  <2>1. AddDouble(e, i, b, pos) = IntoDouble(InHand(b, e), e.inodes[i].double, pos)
    BY <1>1 DEF AddDouble
  <2>. QED  BY <1>1, <2>1, IntoDoubleComes
<1>2. CASE e.inodes[i].double = NULL
  <2> DEFINE f == [e EXCEPT !.inodes[i].double = b]
             had == Allocate(f)
             c == had.block
             g == had.rd
             got == IntoDouble(had, b, pos)
  <2>1. AddDouble(e, i, b, pos) = got
    BY <1>2 DEF AddDouble
  <2>2. Prepares(e, f, i, b) /\ f.inodes[i].double = b /\ b # NULL
    BY <1>2, PrepareDouble DEF Blocks, NULL
  <2> HIDE DEF f
  <2>3. Sound(f) /\ SameBlks(e, f, i)
    BY <2>2 DEF Prepares
  <2>4. TakenFor(f, had, i)
    BY <2>3, AllocateFor
  <2>5. c # NULL => g.data[c] = ZeroCells
    <3>1. Obtains(f, had) /\ f.data \in [Blocks -> [Offs -> Cells]]
      BY <2>3, AllocateResult DEF Sound, Disks
    <3> HIDE DEF had
    <3>. QED  BY <3>1 DEF Obtains
  <2> HIDE DEF had
  <2>6. SameBlks(f, g, i)
    BY <2>4 DEF TakenFor
  <2>7. Comes(f, got, i, k)
    <3>1. CASE c = NULL
      <4>1. got = had
        BY <3>1 DEF IntoDouble
      <4>. QED  BY <2>6, <4>1 DEF Comes
    <3>2. CASE c # NULL
      <4>1. had = InHand(c, g) /\ Sound(g) /\ b = g.inodes[i].double
            /\ c \in Blocks /\ Spare(g, c) /\ g.ptrs[c] = NullPtrs
        BY <2>2, <2>4, <3>2 DEF TakenFor
      <4>2. got = IntoDouble(InHand(c, g), b, pos)
        BY <4>1
      <4> HIDE DEF got, c, g
      <4>3. Comes(g, got, i, k)
        BY <2>2, <2>5, <3>2, <4>1, <4>2, IntoDoubleComes
      <4>. QED  BY <2>6, <4>3, ComesAfter
    <3>. QED  BY <3>1, <3>2
  <2> HIDE DEF got
  <2>. QED  BY <2>1, <2>3, <2>7, ComesAfter
<1>. QED  BY <1>1, <1>2

(* Or it is put in the inode, even in the place of another. *)
LEMMA AddDirectComes ==
  ASSUME NEW e, Sound(e), NEW i \in Inums, NEW k \in Nat,
         NEW pos, pos = Position(k), pos.kind = "direct", NEW b \in Blocks,
         Spare(e, b), e.data[b] = ZeroCells,
         NEW f, f = [e EXCEPT !.inodes[i].direct[pos.place] = b]
  PROVE  Comes(e, InHand(b, f), i, k)
<1> DEFINE node == [e.inodes[i] EXCEPT !.direct[pos.place] = b]
<1>1. pos.place \in Directs /\ pos.place = k
  BY PositionNumber
<1>2. Rooted(e, f, i, node, b)
  BY <1>1, RootedDirect
<1>3. e.inodes[i] \in Nodes /\ e.inodes[i].direct \in [Directs -> Ptr]
  BY DiskTypes DEF Sound
<1>4. /\ node.indirect = e.inodes[i].indirect /\ node.double = e.inodes[i].double
      /\ node.direct = [e.inodes[i].direct EXCEPT ![k] = b]
  BY <1>1, <1>3 DEF Nodes
<1> HIDE DEF node
<1>5. f.inodes[i] = node /\ f.ptrs = e.ptrs /\ f.data = e.data
  BY <1>2 DEF Rooted
<1>6. \A l \in Directs : node.direct[l] = IF l = k THEN b ELSE e.inodes[i].direct[l]
  BY <1>1, <1>3, <1>4
<1>7. \A j \in Nat : Blk(f, i, j) = IF j = k THEN b ELSE Blk(e, i, j)
  <2>1. TAKE j \in Nat
  <2> DEFINE q == Position(j)
  <2>2. ASSUME NEW h
        PROVE  /\ q.kind = "direct" => Blk(h, i, j) = h.inodes[i].direct[q.place]
               /\ q.kind \in Tabled => Blk(h, i, j) = BlockAt(h, TableFor(h, i, q), q.place)
               /\ q.kind = "none" => Blk(h, i, j) = NULL
               /\ q.kind \in {"direct", "none"} \cup Tabled
    BY BlkIs
  <2>3. q.kind = "direct" => q.place \in Directs /\ q.place = j
    BY PositionNumber
  <2>4. j = k => q.kind = "direct"
    OBVIOUS
  <2> HIDE DEF q
  <2>5. CASE q.kind = "direct"
    BY <1>5, <1>6, <2>2, <2>3, <2>5
  <2>6. CASE q.kind # "direct"
    <3>1. TableFor(f, i, q) = TableFor(e, i, q)
      BY <1>4, <1>5 DEF TableFor, BlockAt
    <3>2. BlockAt(f, TableFor(f, i, q), q.place) = BlockAt(e, TableFor(e, i, q), q.place)
      BY <1>5, <3>1 DEF BlockAt
    <3>. QED  BY <2>2, <2>4, <2>6, <3>2
  <2>. QED  BY <2>5, <2>6
<1>8. Lands(e, f, i, k, k, b)
  <2>1. \A l \in Nat : ~ Alike(l, k)
    BY DEF Alike, Tabled
  <2>. QED  BY <1>7, <2>1 DEF Lands
<1>9. InHand(b, f).rd = f /\ InHand(b, f).block = b
  BY DEF InHand
<1>. QED  BY <1>5, <1>8, <1>9 DEF Comes

(***************************************************************************)
(* inode_add_block, wherever the blocks of the file end                    *)
(***************************************************************************)
LEMMA AddBlockComes ==
  ASSUME NEW rd, Sound(rd), NEW i \in Inums, NEW k \in Nat,
         k = rd.inodes[i].size \div BLOCK_CELLS
  PROVE  Comes(rd, AddBlock(rd, i), i, k)
<1> DEFINE had == Allocate(rd)
           e == had.rd
           b == had.block
           pos == Position(k)
           got == AddBlock(rd, i)
<1>1. TakenFor(rd, had, i)
  BY AllocateFor
<1>2. b # NULL => e.data[b] = ZeroCells
  <2>1. Obtains(rd, had) /\ rd.data \in [Blocks -> [Offs -> Cells]]
    BY AllocateResult DEF Sound, Disks
  <2> HIDE DEF had
  <2>. QED  BY <2>1 DEF Obtains
<1>3. got = Attach(had, i, pos)
  BY DEF AddBlock
<1>4. pos.kind \in {"direct", "none"} \cup Tabled
  BY BlkIs
<1> HIDE DEF had, pos, got
<1>5. SameBlks(rd, e, i)
  BY <1>1 DEF TakenFor
<1>6. CASE b = NULL
  <2>1. got = had
    BY <1>3, <1>6 DEF Attach
  <2>. QED  BY <1>5, <2>1 DEF Comes, got
<1>7. CASE b # NULL
  <2>1. /\ had = InHand(b, e) /\ Sound(e)
        /\ b \in Blocks /\ Spare(e, b) /\ e.ptrs[b] = NullPtrs
    BY <1>1, <1>7 DEF TakenFor
  <2>2. SUFFICES Comes(e, got, i, k)
    BY <1>5, ComesAfter DEF got
  <2>3. CASE pos.kind = "direct"
    <3> DEFINE f == [e EXCEPT !.inodes[i].direct[pos.place] = b]
    <3>1. got = InHand(b, f)
      BY <1>3, <1>7, <2>1, <2>3 DEF Attach, InHand
    <3> HIDE DEF e, b
    <3>2. Comes(e, InHand(b, f), i, k)
      BY <1>2, <1>7, <2>1, <2>3, AddDirectComes DEF pos
    <3>. QED  BY <3>1, <3>2
  <2>4. CASE pos.kind = "indirect"
    <3>1. got = AddIndirect(e, i, b, pos.place)
      BY <1>3, <1>7, <2>4 DEF Attach
    <3> HIDE DEF e, b
    <3>. QED  BY <1>2, <1>7, <2>1, <2>4, <3>1, AddIndirectComes DEF pos
  <2>5. CASE pos.kind = "double"
    <3>1. got = AddDouble(e, i, b, pos)
      BY <1>3, <1>7, <2>5 DEF Attach
    <3> HIDE DEF e, b
    <3>. QED  BY <1>2, <1>7, <2>1, <2>5, <3>1, AddDoubleComes DEF pos
  <2>6. CASE pos.kind = "none"
    <3>1. got = InHand(NULL, e)
      BY <1>3, <1>7, <2>6 DEF Attach
    <3>2. got.rd = e
      BY <3>1 DEF InHand
    <3>. QED  BY <3>2 DEF Comes, SameBlks
  <2>. QED  BY <1>4, <2>3, <2>4, <2>5, <2>6 DEF Tabled
<1>. QED  BY <1>6, <1>7
-----------------------------------------------------------------------------
(***************************************************************************)
(* A turn of the loop of rd_write on a file of any shape.                  *)
(***************************************************************************)
BlkStays(rd, e, i, l) ==
  /\ Blk(e, i, l) = Blk(rd, i, l)
  /\ Blk(rd, i, l) # NULL => e.data[Blk(rd, i, l)] = rd.data[Blk(rd, i, l)]

(* No block of file i is touched, *)
Still(rd, e, i) == \A l \in Nat : BlkStays(rd, e, i, l)

(* or one only, which then holds these cells. *)
Gets(rd, e, i, j, cells) ==
  /\ Blk(e, i, j) # NULL
  /\ \A o \in Offs : e.data[Blk(e, i, j)][o] = cells[o]
  /\ \A l \in Nat \ {j} : BlkStays(rd, e, i, l)

(* The number of the block that inode_add_block wants, and where the block *)
(* it adds may settle.                                                     *)
LastBlk(rd, i) == rd.inodes[i].size \div BLOCK_CELLS

Settles(rd, i, j) ==
  /\ j = LastBlk(rd, i) \/ (Alike(j, LastBlk(rd, i)) /\ Blk(rd, i, j) = NULL)
  /\ \A l \in Nat : l < j /\ Alike(l, LastBlk(rd, i)) => Blk(rd, i, l) # NULL

(* inode_add_block: a block that is got is the one that settled, or is in *)
(* no place of the file at all.                                           *)
Supplies(rd, got, i) ==
  /\ Sound(got.rd) /\ got.rd.inodes[i].size = rd.inodes[i].size
  /\ got.block = NULL \/ got.block \in Blocks
  /\ \/ /\ Still(rd, got.rd, i)
        /\ got.block # NULL => \A l \in Nat : Blk(rd, i, l) # got.block
     \/ \E j \in Nat :
          /\ Settles(rd, i, j) /\ Gets(rd, got.rd, i, j, ZeroCells)
          /\ got.block # NULL => /\ Blk(got.rd, i, j) = got.block
                                 /\ \A l \in Nat \ {j} : Blk(got.rd, i, l) # got.block

LEMMA AddBlockSupplies ==
  ASSUME NEW rd, Sound(rd), NEW i \in Inums
  PROVE  Supplies(rd, AddBlock(rd, i), i)
<1> DEFINE got == AddBlock(rd, i)
           e == got.rd
           k == LastBlk(rd, i)
<1>1. rd \in Disks /\ OnePlace(rd) /\ rd.inodes[i].size \in Nat
  BY DiskTypes DEF Sound
<1>2. k \in Nat
  BY <1>1, SlotOf DEF LastBlk
<1>3. Fresh(rd, got, i)
  BY AddBlockFresh
<1>4. Comes(rd, got, i, k)
  BY <1>2, AddBlockComes DEF LastBlk
<1> HIDE DEF got, k
<1>5. Sound(e) /\ e \in Disks /\ OnePlace(e) /\ e.inodes[i].size = rd.inodes[i].size
  BY <1>3 DEF Fresh, Grows, Sound
<1>6. got.block = NULL \/ (got.block \in Blocks /\ got.block \notin Allocated(rd))
  BY <1>3, AllocatedFinite DEF Fresh
<1>7. ASSUME NEW l \in Nat, Blk(rd, i, l) # NULL
      PROVE  e.data[Blk(rd, i, l)] = rd.data[Blk(rd, i, l)] /\ Blk(rd, i, l) # got.block
  <2>1. Blk(rd, i, l) \in Allocated(rd)
    BY <1>1, <1>7, BlkTree, TreeAllocated DEF Sound
  <2>2. e.data[Blk(rd, i, l)] = rd.data[Blk(rd, i, l)]
    BY <1>3, <2>1 DEF Fresh, Grows
  <2>. QED  BY <1>6, <1>7, <2>1, <2>2
<1>8. CASE SameBlks(rd, e, i)
  <2>1. Still(rd, e, i)
    BY <1>7, <1>8 DEF Still, BlkStays, SameBlks
  <2>. QED  BY <1>5, <1>6, <1>7, <2>1 DEF Supplies, got
<1>9. CASE ~ SameBlks(rd, e, i)
  <2>1. PICK j \in Nat, c \in Blocks :
          /\ Lands(rd, e, i, k, j, c) /\ e.data[c] = ZeroCells /\ got.block \in {NULL, c}
    BY <1>4, <1>9 DEF Comes
  <2>2. Blk(e, i, j) = c /\ c # NULL
    BY <2>1 DEF Lands, Blocks, NULL
  <2>3. ASSUME NEW l \in Nat \ {j} PROVE BlkStays(rd, e, i, l)
    BY <1>7, <2>1 DEF Lands, BlkStays
  <2>4. Gets(rd, e, i, j, ZeroCells)
    BY <2>1, <2>2, <2>3 DEF Gets
  <2>5. Settles(rd, i, j)
    BY <2>1 DEF Lands, Settles, k
  <2>6. ASSUME NEW l \in Nat \ {j} PROVE Blk(e, i, l) # c
    BY <1>5, <2>2, BlkOnce
  <2>. QED  BY <1>5, <1>6, <2>1, <2>2, <2>4, <2>5, <2>6 DEF Supplies, got
<1>. QED  BY <1>8, <1>9

FillCells == [o \in Offs |-> Fill]

(* n cells are written from pos on, none beyond the block of pos. *)
Advances(rd, e, i, pos, n, v) ==
  LET b == Blk(rd, i, pos \div BLOCK_CELLS)
      off == pos % BLOCK_CELLS
  IN
  /\ e.inodes[i].size = Greater(rd.inodes[i].size, pos + n)
  /\ off + n <= BLOCK_CELLS
  /\ \/ b # NULL /\ Gets(rd, e, i, pos \div BLOCK_CELLS, Overlaid(rd.data[b], off, n, v))
     \/ b = NULL /\ Still(rd, e, i)
     \/ b = NULL /\ \E j \in Nat :
          Settles(rd, i, j) /\ Gets(rd, e, i, j, Overlaid(FillCells, off, n, v))

(* No block could be had for pos. *)
Halts(rd, e, i, pos) ==
  /\ e.inodes[i].size = rd.inodes[i].size
  /\ Blk(rd, i, pos \div BLOCK_CELLS) = NULL
  /\ Still(rd, e, i) \/ \E j \in Nat : Settles(rd, i, j) /\ Gets(rd, e, i, j, ZeroCells)

(* A block that is found, or supplied, is written. *)
LEMMA WrittenBlock ==
  ASSUME NEW rd, NEW g, NEW e, NEW i, NEW b \in Blocks, NEW cells,
         \A l \in Nat : Blk(e, i, l) = Blk(g, i, l) /\ Blk(g, i, l) \in Ptr,
         \A c \in Blocks : e.data[c] = IF c = b THEN cells ELSE g.data[c]
  PROVE  /\ \A l \in Nat : BlkStays(rd, g, i, l) /\ Blk(g, i, l) # b => BlkStays(rd, e, i, l)
         /\ \A j \in Nat : Blk(g, i, j) = b => Blk(e, i, j) # NULL /\ e.data[Blk(e, i, j)] = cells
<1>1. b # NULL
  BY DEF Blocks, NULL
<1>. QED  BY <1>1 DEF BlkStays, Ptr

LEMMA ChunkEffect ==
  ASSUME NEW w, IsTurn(w), NEW i \in Inums, Sound(w.rd),
         w.pos \in Nat, w.left \in Nat \ {0}, NEW v \in Data,
         NEW x, x = WriteChunk(w, i, v)
  PROVE  /\ IsTurn(x)
         /\ \/ x.failed /\ x.pos = w.pos /\ x.left = w.left /\ Halts(w.rd, x.rd, i, w.pos)
            \/ \E n \in 1 .. w.left :
                 /\ ~ x.failed /\ x.pos = w.pos + n /\ x.left = w.left - n
                 /\ x.left = 0 \/ x.pos = Slot(w.pos \div BLOCK_CELLS + 1, 0)
                 /\ Advances(w.rd, x.rd, i, w.pos, n, v)
<1> DEFINE rd    == w.rd
           pos   == w.pos
           k     == pos \div BLOCK_CELLS
           off   == pos % BLOCK_CELLS
           found == GetBlock(rd, rd.inodes[i], pos)
           got   == IF found = NULL THEN AddBlock(rd, i) ELSE [block |-> found, rd |-> rd]
           n     == Lesser(w.left, BLOCK_CELLS - off)
           Old(o) == IF found = NULL THEN Fill ELSE rd.data[found][o]
           cells == [o \in Offs |-> IF o \in off .. off + n - 1 THEN Bytes(v) ELSE Old(o)]
           e     == [got.rd EXCEPT !.data[got.block] = cells,
                                   !.inodes[i].size  = Greater(@, pos + n)]
<1>1. rd \in Disks /\ OnePlace(rd) /\ rd.inodes[i].size \in Nat
  BY DiskTypes DEF Sound
<1>2. k \in Nat /\ off \in Offs /\ pos = Slot(k, off)
  BY SlotOf
<1>3. found = Blk(rd, i, k)
  BY GetBlockIsBlk
<1>4. found # NULL => found \in Blocks
  BY <1>1, <1>2, <1>3, BlkTree
<1>5. x = IF got.block = NULL THEN [w EXCEPT !.rd = got.rd, !.failed = TRUE]
          ELSE [rd |-> e, pos |-> pos + n, left |-> w.left - n, failed |-> FALSE]
  BY DEF WriteChunk
<1>6. /\ found # NULL => cells = Overlaid(rd.data[found], off, n, v)
      /\ found = NULL => cells = Overlaid(FillCells, off, n, v)
  BY DEF Overlaid, FillCells
<1>7. /\ found = NULL => got = AddBlock(rd, i)
      /\ found # NULL => got.block = found /\ got.rd = rd
  OBVIOUS
<1>8. n = Lesser(w.left, BLOCK_CELLS - off)
  OBVIOUS
<1> HIDE DEF k, off, found, n, cells, got
<1>9. found = NULL => Supplies(rd, got, i)
  BY <1>7, AddBlockSupplies
<1>10. Sound(got.rd) /\ got.rd.inodes[i].size = rd.inodes[i].size
       /\ (got.block = NULL \/ got.block \in Blocks)
  BY <1>4, <1>7, <1>9 DEF Supplies
<1>11. n \in 1 .. w.left /\ off + n <= BLOCK_CELLS /\ (n = w.left \/ n = BLOCK_CELLS - off)
  BY <1>2, <1>8, InodeAssumption DEF Lesser, Offs
<1>12. CASE got.block = NULL
  <2>1. x = [rd |-> got.rd, pos |-> w.pos, left |-> w.left, failed |-> TRUE]
    BY <1>5, <1>12 DEF IsTurn
  <2>2. found = NULL
    BY <1>7, <1>12
  <2>3. Halts(rd, got.rd, i, pos)
    BY <1>3, <1>9, <2>2 DEF Supplies, Halts, k
  <2>. QED  BY <2>1, <2>3 DEF IsTurn
<1>13. CASE got.block # NULL
  <2> DEFINE g == got.rd
             b == got.block
  <2>1. b \in Blocks
    BY <1>10, <1>13
  <2>2. g \in Disks /\ OnePlace(g) /\ g.data \in [Blocks -> [Offs -> Cells]]
        /\ g.inodes \in [Inums -> Nodes] /\ g.inodes[i] \in Nodes
    BY <1>10 DEF Sound, Disks
  <2>3. \A c \in Blocks : e.data[c] = IF c = b THEN cells ELSE g.data[c]
    BY <2>1, <2>2 DEF Disks
  <2>4. e.inodes[i] = [g.inodes[i] EXCEPT !.size = Greater(@, pos + n)] /\ e.ptrs = g.ptrs
    BY <2>2 DEF Disks
  <2> HIDE DEF e, g, b
  <2>5. /\ e.inodes[i].size = Greater(g.inodes[i].size, pos + n)
        /\ e.inodes[i].direct = g.inodes[i].direct
        /\ e.inodes[i].indirect = g.inodes[i].indirect
        /\ e.inodes[i].double = g.inodes[i].double
    BY <2>2, <2>4 DEF Nodes
  <2>6. \A l \in Nat : Blk(e, i, l) = Blk(g, i, l) /\ Blk(g, i, l) \in Ptr
    <3>1. \A l \in Nat : Blk(g, i, l) \in Ptr
      BY <2>2, BlkTree
    <3>2. \A l \in Nat : Blk(e, i, l) = Blk(g, i, l)
      <4>1. /\ e.ptrs = g.ptrs /\ e.inodes[i].direct = g.inodes[i].direct
            /\ e.inodes[i].indirect = g.inodes[i].indirect
            /\ e.inodes[i].double = g.inodes[i].double
        BY <2>4, <2>5
      <4>. QED  BY <4>1, PointersDecide
    <3>. QED  BY <3>1, <3>2
  <2>7. e.inodes[i].size = Greater(rd.inodes[i].size, pos + n)
    BY <1>10, <2>5 DEF g
  <2>8. /\ \A l \in Nat : BlkStays(rd, g, i, l) /\ Blk(g, i, l) # b => BlkStays(rd, e, i, l)
        /\ \A j \in Nat : Blk(g, i, j) = b => Blk(e, i, j) # NULL /\ e.data[Blk(e, i, j)] = cells
    <3> HIDE DEF rd
    <3>1. /\ \A l \in Nat : Blk(e, i, l) = Blk(g, i, l) /\ Blk(g, i, l) \in Ptr
          /\ \A c \in Blocks : e.data[c] = IF c = b THEN cells ELSE g.data[c]
      BY <2>3, <2>6
    <3>. QED  BY ONLY <2>1, <3>1, WrittenBlock
  <2> DEFINE Settled == Still(rd, e, i)
                          \/ \E j \in Nat : Settles(rd, i, j) /\ Gets(rd, e, i, j, cells)
  <2>9. ASSUME found # NULL PROVE Advances(rd, e, i, pos, n, v)
    <3>1. g = rd /\ b = Blk(rd, i, k)
      BY <1>3, <1>7, <2>9 DEF g, b
    <3>2. \A l \in Nat \ {k} : BlkStays(rd, g, i, l) /\ Blk(g, i, l) # b
      <4>1. \A l \in Nat \ {k} : Blk(rd, i, l) # Blk(rd, i, k)
        BY <1>1, <1>2, <1>3, <2>9, BlkOnce
      <4>. QED  BY <3>1, <4>1 DEF BlkStays
    <3>3. Gets(rd, e, i, k, cells)
      <4> HIDE DEF rd
      <4>. QED  BY <1>2, <2>8, <3>1, <3>2 DEF Gets
    <3>4. Gets(rd, e, i, k, Overlaid(rd.data[found], off, n, v))
      BY <1>6, <2>9, <3>3
    <3>. QED  BY <1>3, <1>11, <2>7, <2>9, <3>4 DEF Advances, k, off
  <2>10. ASSUME found = NULL PROVE Advances(rd, e, i, pos, n, v)
    <3>1. Settled
      <4> HIDE DEF rd
      <4>1. CASE Still(rd, g, i) /\ \A l \in Nat : Blk(rd, i, l) # b
        <5>1. \A l \in Nat : BlkStays(rd, g, i, l) /\ Blk(g, i, l) # b
          BY <4>1 DEF Still, BlkStays
        <5>. QED  BY <2>8, <5>1 DEF Still
      <4>2. CASE \E j \in Nat : /\ Settles(rd, i, j) /\ Gets(rd, g, i, j, ZeroCells)
                                /\ Blk(g, i, j) = b /\ \A l \in Nat \ {j} : Blk(g, i, l) # b
        <5>1. PICK j \in Nat : /\ Settles(rd, i, j) /\ Gets(rd, g, i, j, ZeroCells)
                               /\ Blk(g, i, j) = b /\ \A l \in Nat \ {j} : Blk(g, i, l) # b
          BY <4>2
        <5>2. Gets(rd, e, i, j, cells)
          BY <2>8, <5>1 DEF Gets
        <5>. QED  BY <5>1, <5>2
      <4>. QED  BY <1>9, <1>13, <2>10, <4>1, <4>2 DEF Supplies, g, b
    <3>2. cells = Overlaid(FillCells, off, n, v)
      BY <1>6, <2>10
    <3>. QED  BY <1>3, <1>11, <2>7, <2>10, <3>1, <3>2 DEF Advances, k, off
  <2>11. Advances(rd, e, i, pos, n, v)
    BY <2>9, <2>10
  <2>12. x = [rd |-> e, pos |-> pos + n, left |-> w.left - n, failed |-> FALSE]
    BY <1>5, <1>13 DEF e
  <2>13. w.left - n = 0 \/ pos + n = Slot(k + 1, 0)
    <3>1. pos = Slot(k, 0) + off /\ Slot(k, 0) \in Nat /\ Slot(k + 1, 0) = Slot(k, 0) + BLOCK_CELLS
      <4>1. 0 \in Offs
        BY InodeAssumption DEF Offs
      <4>. QED  BY <1>2, <4>1, SlotOrder
    <3>2. off \in Nat /\ BLOCK_CELLS \in Nat
      BY <1>2, InodeAssumption DEF Offs
    <3> HIDE DEF pos
    <3>. QED  BY <1>11, <3>1, <3>2
  <2> HIDE DEF Settled
  <2>. QED  BY <1>11, <2>11, <2>12, <2>13 DEF IsTurn, k, rd, pos
<1>. QED  BY <1>12, <1>13
-----------------------------------------------------------------------------
(***************************************************************************)
(* What is behind the end of a file.  In a table the blocks come first,    *)
(* and either what the blocks have behind the end was never written, or a  *)
(* block is missing below the end whose place is not in the table at the   *)
(* end: then it stays missing, for no block will be added there.           *)
(***************************************************************************)
Packed(rd, i) ==
  \A l, k \in Nat : l < k /\ Alike(l, k) /\ Blk(rd, i, k) # NULL => Blk(rd, i, l) # NULL

Cut(rd, i) ==
  \E l \in Nat : l < LastBlk(rd, i) /\ Blk(rd, i, l) = NULL /\ ~ Alike(l, LastBlk(rd, i))

Clean(rd, i) ==
  \A l \in Nat, o \in Offs :
    Slot(l, o) >= rd.inodes[i].size /\ Blk(rd, i, l) # NULL
      => rd.data[Blk(rd, i, l)][o] \in {Fill, Zero}

Ended(rd, i) == Packed(rd, i) /\ (Cut(rd, i) \/ Clean(rd, i))

(* The number of the last block grows with the size. *)
LEMMA LastOrder ==
  ASSUME NEW m \in Nat, NEW n \in Nat, m <= n
  PROVE  m \div BLOCK_CELLS <= n \div BLOCK_CELLS
<1>1. /\ m \div BLOCK_CELLS \in Nat /\ m % BLOCK_CELLS \in Offs
      /\ m = Slot(m \div BLOCK_CELLS, m % BLOCK_CELLS)
      /\ n \div BLOCK_CELLS \in Nat /\ n % BLOCK_CELLS \in Offs
      /\ n = Slot(n \div BLOCK_CELLS, n % BLOCK_CELLS)
  BY SlotOf
<1>2. n \div BLOCK_CELLS < m \div BLOCK_CELLS => n < m
  <2> DEFINE a == n \div BLOCK_CELLS
             b == m \div BLOCK_CELLS
             p == n % BLOCK_CELLS
             q == m % BLOCK_CELLS
  <2> HIDE DEF a, b, p, q
  <2>1. a < b => Slot(a, p) < Slot(b, q)
    BY <1>1, SlotOrder DEF a, b, p, q
  <2>. QED  BY <1>1, <2>1 DEF a, b, p, q
<1> DEFINE a == n \div BLOCK_CELLS
           b == m \div BLOCK_CELLS
<1> HIDE DEF a, b
<1>. QED  BY <1>1, <1>2 DEF a, b

(* A block that settles leaves the blocks of its table in the first places. *)
LEMMA SettlesPacked ==
  ASSUME NEW rd, NEW e, NEW i, Packed(rd, i), NEW j \in Nat, Settles(rd, i, j),
         NEW cells, Gets(rd, e, i, j, cells)
  PROVE  Packed(e, i)
<1> SUFFICES ASSUME NEW l \in Nat, NEW k \in Nat, l < k, Alike(l, k), Blk(e, i, k) # NULL
             PROVE  Blk(e, i, l) # NULL
  BY DEF Packed
<1>1. \A h \in Nat : h # j => Blk(e, i, h) = Blk(rd, i, h)
  BY DEF Gets, BlkStays
<1>2. CASE l = j
  BY <1>2 DEF Gets
<1>3. CASE l # j /\ k # j
  BY <1>1, <1>3 DEF Packed
<1>4. CASE l # j /\ k = j
  <2>1. j = LastBlk(rd, i) \/ Alike(j, LastBlk(rd, i))
    BY DEF Settles
  <2>2. Alike(l, LastBlk(rd, i))
    BY <1>4, <2>1, AlikeSame
  <2>. QED  BY <1>1, <1>4, <2>2 DEF Settles
<1>. QED  BY <1>2, <1>3, <1>4

(* So does a write to a block that was there, or to none. *)
LEMMA SamePacked ==
  ASSUME NEW rd, NEW e, NEW i, Packed(rd, i),
         \A l \in Nat : Blk(e, i, l) = NULL <=> Blk(rd, i, l) = NULL
  PROVE  Packed(e, i)
BY DEF Packed

(* A block that is missing for good stays so. *)
LEMMA CutStays ==
  ASSUME NEW rd, NEW e, NEW i, Cut(rd, i),
         rd.inodes[i].size \in Nat, e.inodes[i].size \in Nat,
         rd.inodes[i].size <= e.inodes[i].size,
         \A l \in Nat : Blk(rd, i, l) = NULL =>
           Blk(e, i, l) = NULL \/ l = LastBlk(rd, i) \/ Alike(l, LastBlk(rd, i))
  PROVE  Cut(e, i)
<1> DEFINE s == LastBlk(rd, i)
           t == LastBlk(e, i)
<1>1. s \in Nat /\ t \in Nat /\ s <= t
  BY SlotOf, LastOrder DEF LastBlk
<1> HIDE DEF s, t
<1>2. PICK l \in Nat : l < s /\ Blk(rd, i, l) = NULL /\ ~ Alike(l, s)
  BY DEF Cut, s
<1>3. Blk(e, i, l) = NULL
  BY <1>1, <1>2 DEF s
<1>4. ~ Alike(l, t)
  <2>1. Alike(l, t) => Alike(l, s)
    BY <1>1, <1>2, AlikeBetween
  <2>. QED  BY <1>2, <2>1
<1>5. l < t
  BY <1>1, <1>2
<1>. QED  BY <1>3, <1>4, <1>5 DEF Cut, t

(* In particular when a block settles *)
LEMMA SettlesCut ==
  ASSUME NEW rd, NEW e, NEW i, Cut(rd, i),
         rd.inodes[i].size \in Nat, e.inodes[i].size \in Nat,
         rd.inodes[i].size <= e.inodes[i].size,
         NEW j \in Nat, Settles(rd, i, j), NEW cells, Gets(rd, e, i, j, cells)
  PROVE  Cut(e, i)
<1>1. \A l \in Nat : l # j => Blk(e, i, l) = Blk(rd, i, l)
  BY DEF Gets, BlkStays
<1>2. j = LastBlk(rd, i) \/ Alike(j, LastBlk(rd, i))
  BY DEF Settles
<1>3. \A l \in Nat : Blk(rd, i, l) = NULL =>
        Blk(e, i, l) = NULL \/ l = LastBlk(rd, i) \/ Alike(l, LastBlk(rd, i))
  BY <1>1, <1>2
<1>. QED  BY <1>3, CutStays

(* Behind the end nothing was written. *)
LEMMA GetsClean ==
  ASSUME NEW rd, NEW e, NEW i, Clean(rd, i),
         rd.inodes[i].size \in Nat, e.inodes[i].size \in Nat,
         rd.inodes[i].size <= e.inodes[i].size,
         NEW j \in Nat, NEW cells, Gets(rd, e, i, j, cells),
         \A o \in Offs : Slot(j, o) >= e.inodes[i].size => cells[o] \in {Fill, Zero}
  PROVE  Clean(e, i)
<1> SUFFICES ASSUME NEW l \in Nat, NEW o \in Offs,
                    Slot(l, o) >= e.inodes[i].size, Blk(e, i, l) # NULL
             PROVE  e.data[Blk(e, i, l)][o] \in {Fill, Zero}
  BY DEF Clean
<1>1. Slot(l, o) >= rd.inodes[i].size
  <2>1. Slot(l, o) \in Nat
    BY SlotOrder
  <2>. QED  BY <2>1
<1>2. CASE l = j
  BY <1>2 DEF Gets
<1>3. CASE l # j
  BY <1>1, <1>3 DEF Gets, BlkStays, Clean
<1>. QED  BY <1>2, <1>3

(* A write that was added where the end is leaves a hole that stays, if it *)
(* was meant for a block before that.                                      *)
LEMMA SettlesBehind ==
  ASSUME NEW rd, NEW e, NEW i,
         rd.inodes[i].size \in Nat, e.inodes[i].size \in Nat,
         rd.inodes[i].size <= e.inodes[i].size,
         NEW j \in Nat, Settles(rd, i, j), NEW cells, Gets(rd, e, i, j, cells),
         NEW k \in Nat, k < j, Blk(rd, i, k) = NULL
  PROVE  Cut(e, i)
<1> DEFINE s == LastBlk(rd, i)
           t == LastBlk(e, i)
<1>1. s \in Nat /\ t \in Nat /\ s <= t
  BY SlotOf, LastOrder DEF LastBlk
<1> HIDE DEF s, t
<1>2. Blk(e, i, k) = NULL
  BY DEF Gets, BlkStays
<1>3. ~ Alike(k, s) /\ (j = s \/ Alike(j, s))
  BY DEF Settles, s
<1>4. k < s
  <2>1. CASE j = s
    BY <2>1
  <2>2. CASE Alike(j, s)
    <3>1. s <= k => Alike(s, k)
      <4>1. Alike(s, j) /\ k <= j
        BY <2>2, AlikeSame
      <4>. QED  BY <1>1, <4>1, AlikeBetween
    <3>2. Alike(s, k) => Alike(k, s)
      BY AlikeSame
    <3>. QED  BY <1>1, <1>3, <3>1, <3>2
  <2>. QED  BY <1>3, <2>1, <2>2
<1>5. ~ Alike(k, t)
  <2>1. Alike(k, t) => Alike(k, s)
    BY <1>1, <1>4, AlikeBetween
  <2>. QED  BY <1>3, <2>1
<1>6. k < t
  BY <1>1, <1>4
<1>. QED  BY <1>2, <1>5, <1>6 DEF Cut, t

(* The cells of a block that a write does not reach *)
LEMMA OverlaidIs ==
  ASSUME NEW pos \in Nat, NEW k \in Nat, NEW off \in Offs, pos = Slot(k, off), NEW n \in Nat,
         NEW j \in Nat, NEW o \in Offs, j <= k, Slot(j, o) >= pos + n, NEW old, NEW v
  PROVE  Overlaid(old, off, n, v)[o] = old[o]
<1>1. /\ Slot(k, off) = Slot(k, 0) + off /\ Slot(k, o) = Slot(k, 0) + o /\ Slot(k, 0) \in Nat
      /\ Slot(j, o) \in Nat /\ Slot(j, o) <= Slot(k, o)
  <2>1. 0 \in Offs
    BY InodeAssumption DEF Offs
  <2>2. /\ Slot(k, off) = Slot(k, 0) + off /\ Slot(k, o) = Slot(k, 0) + o /\ Slot(k, 0) \in Nat
        /\ Slot(j, o) \in Nat /\ Slot(k, o) \in Nat /\ (j < k => Slot(j, o) < Slot(k, o))
    BY <2>1, SlotOrder
  <2>3. j < k \/ j = k
    OBVIOUS
  <2>. QED  BY <2>2, <2>3
<1>2. off \in Nat /\ o \in Nat
  BY DEF Offs
<1>3. o \notin off .. off + n - 1
  BY <1>1, <1>2
<1>. QED  BY <1>3 DEF Overlaid

(* A turn that writes *)
LEMMA EndedAdvances ==
  ASSUME NEW rd, NEW e, NEW i, rd.inodes[i].size \in Nat, Ended(rd, i),
         NEW pos \in Nat, NEW n \in Nat, NEW v, Advances(rd, e, i, pos, n, v)
  PROVE  Ended(e, i)
<1> DEFINE k   == pos \div BLOCK_CELLS
           off == pos % BLOCK_CELLS
           b   == Blk(rd, i, k)
<1>1. k \in Nat /\ off \in Offs /\ pos = Slot(k, off)
  BY SlotOf
<1>2. /\ e.inodes[i].size \in Nat /\ rd.inodes[i].size <= e.inodes[i].size
      /\ pos + n <= e.inodes[i].size
  BY DEF Advances, Greater
<1>3. Packed(rd, i) /\ (Cut(rd, i) \/ Clean(rd, i))
  BY DEF Ended
<1>4. \/ b # NULL /\ Gets(rd, e, i, k, Overlaid(rd.data[b], off, n, v))
      \/ b = NULL /\ Still(rd, e, i)
      \/ b = NULL /\ \E j \in Nat :
           Settles(rd, i, j) /\ Gets(rd, e, i, j, Overlaid(FillCells, off, n, v))
  BY DEF Advances
<1> HIDE DEF k, off, b
<1>5. CASE b # NULL /\ Gets(rd, e, i, k, Overlaid(rd.data[b], off, n, v))
  <2>1. \A l \in Nat : Blk(e, i, l) = NULL <=> Blk(rd, i, l) = NULL
    BY <1>1, <1>5 DEF Gets, BlkStays, b
  <2>2. Packed(e, i)
    BY <1>3, <2>1, SamePacked
  <2>3. Cut(rd, i) => Cut(e, i)
    BY <1>2, <2>1, CutStays
  <2>4. ASSUME Clean(rd, i) PROVE Clean(e, i)
    <3>1. ASSUME NEW o \in Offs, Slot(k, o) >= e.inodes[i].size
          PROVE  Overlaid(rd.data[b], off, n, v)[o] \in {Fill, Zero}
      <4>1. Slot(k, o) >= pos + n /\ Slot(k, o) >= rd.inodes[i].size
        <5>1. Slot(k, o) \in Nat
          BY <1>1, SlotOrder
        <5>. QED  BY <1>2, <3>1, <5>1
      <4>2. Overlaid(rd.data[b], off, n, v)[o] = rd.data[b][o]
        BY <1>1, <4>1, OverlaidIs
      <4>. QED  BY <1>1, <1>5, <2>4, <4>1, <4>2 DEF Clean, b
    <3>. QED  BY <1>1, <1>2, <1>5, <2>4, <3>1, GetsClean
  <2>. QED  BY <1>3, <2>2, <2>3, <2>4 DEF Ended
<1>6. CASE Still(rd, e, i)
  <2>1. \A l \in Nat : Blk(e, i, l) = NULL <=> Blk(rd, i, l) = NULL
    BY <1>6 DEF Still, BlkStays
  <2>2. Packed(e, i)
    BY <1>3, <2>1, SamePacked
  <2>3. Cut(rd, i) => Cut(e, i)
    BY <1>2, <2>1, CutStays
  <2>4. ASSUME Clean(rd, i) PROVE Clean(e, i)
    <3>1. \A l \in Nat, o \in Offs : Slot(l, o) \in Nat
      BY SlotOrder
    <3>. QED  BY <1>2, <1>6, <2>4, <3>1 DEF Still, BlkStays, Clean
  <2>. QED  BY <1>3, <2>2, <2>3, <2>4 DEF Ended
<1>7. ASSUME NEW j \in Nat, b = NULL, Settles(rd, i, j),
             Gets(rd, e, i, j, Overlaid(FillCells, off, n, v))
      PROVE  Ended(e, i)
  <2>1. Packed(e, i)
    BY <1>3, <1>7, SettlesPacked
  <2>2. Cut(rd, i) => Cut(e, i)
    BY <1>2, <1>7, SettlesCut
  <2>3. ASSUME Clean(rd, i), j <= k PROVE Clean(e, i)
    <3>1. ASSUME NEW o \in Offs, Slot(j, o) >= e.inodes[i].size
          PROVE  Overlaid(FillCells, off, n, v)[o] \in {Fill, Zero}
      <4>1. Slot(j, o) >= pos + n
        <5>1. Slot(j, o) \in Nat
          BY SlotOrder
        <5>. QED  BY <1>2, <3>1, <5>1
      <4>2. Overlaid(FillCells, off, n, v)[o] = FillCells[o]
        BY <1>1, <2>3, <4>1, OverlaidIs
      <4>. QED  BY <4>2 DEF FillCells
    <3>. QED  BY <1>2, <1>7, <2>3, <3>1, GetsClean
  <2>4. j > k => Cut(e, i)
    BY <1>1, <1>2, <1>7, SettlesBehind DEF b
  <2>. QED  BY <1>1, <1>3, <2>1, <2>2, <2>3, <2>4 DEF Ended
<1>. QED  BY <1>4, <1>5, <1>6, <1>7

(* and one that does not *)
LEMMA EndedHalts ==
  ASSUME NEW rd, NEW e, NEW i, rd.inodes[i].size \in Nat, Ended(rd, i),
         NEW pos \in Nat, Halts(rd, e, i, pos)
  PROVE  Ended(e, i)
<1>1. e.inodes[i].size \in Nat /\ rd.inodes[i].size <= e.inodes[i].size
  BY DEF Halts
<1>2. Packed(rd, i) /\ (Cut(rd, i) \/ Clean(rd, i))
  BY DEF Ended
<1>3. CASE Still(rd, e, i)
  <2>1. \A l \in Nat : Blk(e, i, l) = NULL <=> Blk(rd, i, l) = NULL
    BY <1>3 DEF Still, BlkStays
  <2>3. Packed(e, i) /\ (Cut(rd, i) => Cut(e, i))
    BY <1>1, <1>2, <2>1, SamePacked, CutStays
  <2>4. Clean(rd, i) => Clean(e, i)
    BY <1>3 DEF Still, BlkStays, Clean, Halts
  <2>. QED  BY <1>2, <2>3, <2>4 DEF Ended
<1>4. ASSUME NEW j \in Nat, Settles(rd, i, j), Gets(rd, e, i, j, ZeroCells)
      PROVE  Ended(e, i)
  <2>1. Packed(e, i) /\ (Cut(rd, i) => Cut(e, i))
    BY <1>1, <1>2, <1>4, SettlesPacked, SettlesCut
  <2>2. \A o \in Offs : ZeroCells[o] \in {Fill, Zero}
    BY DEF ZeroCells
  <2>3. Clean(rd, i) => Clean(e, i)
    BY <1>1, <1>4, <2>2, GetsClean
  <2>. QED  BY <1>2, <2>1, <2>3 DEF Ended
<1>. QED  BY <1>3, <1>4 DEF Halts

(* Another file, and one without blocks *)
LEMMA EndedKept ==
  ASSUME NEW rd \in Disks, OnePlace(rd), NEW e, NEW i \in Inums, Kept(rd, e, i), Ended(rd, i)
  PROVE  Ended(e, i)
<1>1. e.inodes[i] = rd.inodes[i]
  BY DEF Kept
<1>2. \A l \in Nat : BlkStays(rd, e, i, l)
  BY KeptAny DEF BlkStays
<1>. QED  BY <1>1, <1>2 DEF Ended, Packed, Cut, Clean, LastBlk, BlkStays

LEMMA EndedEmpty ==
  ASSUME NEW rd, NEW i, \A l \in Nat : Blk(rd, i, l) = NULL
  PROVE  Ended(rd, i)
BY DEF Ended, Packed, Clean
-----------------------------------------------------------------------------
(***************************************************************************)
(* Writing from beyond the end of a file that is whole: either it becomes  *)
(* larger, with cells that nobody wrote before the position, or it is not  *)
(* whole any more, and the rest of the write does not make it so.          *)
(***************************************************************************)
Extended(rd, e, i, pos, n, v) ==
  /\ Whole(e, i) /\ e.inodes[i].size = pos + n
  /\ \A p \in 0 .. pos + n - 1 :
       /\ p >= pos => Cell(e, i, p) = Bytes(v)
       /\ p < rd.inodes[i].size => Cell(e, i, p) = Cell(rd, i, p)
       /\ p < pos /\ p >= rd.inodes[i].size => Cell(e, i, p) \in {Fill, Zero}

Lags(rd, i) ==
  /\ rd.inodes[i].size \in Nat \ {0}
  /\ Cut(rd, i) \/ Blk(rd, i, (rd.inodes[i].size - 1) \div BLOCK_CELLS) = NULL

(* A file that is whole has no hole below its end. *)
LEMMA CutNotWhole ==
  ASSUME NEW rd, NEW i, rd.inodes[i].size \in Nat, Cut(rd, i)
  PROVE  ~ Whole(rd, i)
<1>1. PICK l \in Nat : l < LastBlk(rd, i) /\ Blk(rd, i, l) = NULL
  BY DEF Cut
<1>2. 0 \in Offs
  BY InodeAssumption DEF Offs
<1> DEFINE s == rd.inodes[i].size
           k == LastBlk(rd, i)
           o == s % BLOCK_CELLS
<1>3. k \in Nat /\ o \in Offs /\ s = Slot(k, o)
  BY SlotOf DEF LastBlk
<1> HIDE DEF k, o
<1>4. Slot(l, 0) \in Nat /\ Slot(l, 0) < s
  <2>1. Slot(l, 0) < Slot(k, o)
    BY <1>1, <1>2, <1>3, SlotOrder DEF k
  <2>. QED  BY <1>2, <1>3, <2>1, SlotOrder
<1>5. Slot(l, 0) \div BLOCK_CELLS = l
  BY <1>2, SlotParts
<1>6. Slot(l, 0) \in 0 .. s - 1
  BY <1>4
<1>. QED  BY <1>1, <1>5, <1>6 DEF Whole

LEMMA LagsNotWhole ==
  ASSUME NEW rd, NEW i, Lags(rd, i)
  PROVE  ~ Whole(rd, i)
<1>1. rd.inodes[i].size \in Nat \ {0}
  BY DEF Lags
<1>2. rd.inodes[i].size - 1 \in 0 .. rd.inodes[i].size - 1
  BY <1>1
<1>. QED  BY <1>1, <1>2, CutNotWhole DEF Lags, Whole

(* The block a turn writes to is that of the last cell it writes. *)
LEMMA LastWritten ==
  ASSUME NEW pos \in Nat, NEW n \in Nat \ {0}, (pos % BLOCK_CELLS) + n <= BLOCK_CELLS
  PROVE  (pos + n - 1) \div BLOCK_CELLS = pos \div BLOCK_CELLS
<1> DEFINE k   == pos \div BLOCK_CELLS
           off == pos % BLOCK_CELLS
           o   == off + n - 1
<1>1. k \in Nat /\ off \in Offs /\ pos = Slot(k, off)
  BY SlotOf
<1>2. BLOCK_CELLS \in Nat /\ 0 \in Offs
  BY InodeAssumption DEF Offs
<1> HIDE DEF k, off
<1>3. o \in Offs
  <2>1. off \in Nat
    BY <1>1 DEF Offs
  <2>2. off + n <= BLOCK_CELLS
    BY DEF off
  <2>. QED  BY <1>2, <2>1, <2>2 DEF Offs
<1>4. pos + n - 1 = Slot(k, o)
  <2>1. Slot(k, off) = Slot(k, 0) + off /\ Slot(k, o) = Slot(k, 0) + o /\ Slot(k, 0) \in Nat
    BY <1>1, <1>2, <1>3, SlotOrder
  <2>2. off \in Nat
    BY <1>1 DEF Offs
  <2>. QED  BY <1>1, <2>1, <2>2
<1>. QED  BY <1>1, <1>3, <1>4, SlotParts DEF k

(* What is missing for good stays missing in a turn. *)
LEMMA CutAdvances ==
  ASSUME NEW rd, NEW e, NEW i, rd.inodes[i].size \in Nat, Cut(rd, i),
         NEW pos \in Nat, NEW n \in Nat, NEW v, Advances(rd, e, i, pos, n, v)
  PROVE  Cut(e, i)
<1> DEFINE k == pos \div BLOCK_CELLS
           b == Blk(rd, i, k)
<1>1. k \in Nat
  BY SlotOf
<1>2. e.inodes[i].size \in Nat /\ rd.inodes[i].size <= e.inodes[i].size
  BY DEF Advances, Greater
<1>3. CASE \E j \in Nat : \E cells : Settles(rd, i, j) /\ Gets(rd, e, i, j, cells)
  BY <1>2, <1>3, SettlesCut
<1>4. CASE \A l \in Nat : Blk(rd, i, l) = NULL => Blk(e, i, l) = NULL
  BY <1>2, <1>4, CutStays
<1> HIDE DEF k
<1>5. CASE \E cells : b # NULL /\ Gets(rd, e, i, k, cells)
  <2>1. \A l \in Nat : Blk(rd, i, l) = NULL => Blk(e, i, l) = NULL
    BY <1>1, <1>5 DEF Gets, BlkStays
  <2>. QED  BY <1>4, <2>1
<1>6. CASE Still(rd, e, i)
  BY <1>4, <1>6 DEF Still, BlkStays
<1>. QED  BY <1>3, <1>5, <1>6 DEF Advances, k

(* A turn that begins at the end, where a block begins, and the block *)
(* before that is missing                                              *)
LEMMA LagsOn ==
  ASSUME NEW rd, NEW e, NEW i, Packed(rd, i), Lags(rd, i),
         NEW pos, pos = rd.inodes[i].size, pos % BLOCK_CELLS = 0,
         NEW n \in Nat \ {0}, NEW v, Advances(rd, e, i, pos, n, v)
  PROVE  Lags(e, i)
<1> DEFINE k == pos \div BLOCK_CELLS
<1>1. pos \in Nat \ {0}
  BY DEF Lags
<1>2. e.inodes[i].size = pos + n
  BY <1>1 DEF Advances, Greater
<1>3. CASE Cut(rd, i)
  BY <1>1, <1>2, <1>3, CutAdvances DEF Lags
<1>4. CASE ~ Cut(rd, i)
  <2>1. 0 \in Offs /\ BLOCK_CELLS \in Nat \ {0} /\ BLOCK_CELLS - 1 \in Offs
    BY InodeAssumption DEF Offs
  <2>2. k \in Nat /\ pos = Slot(k, 0) /\ k = LastBlk(rd, i)
    BY <1>1, SlotOf DEF LastBlk
  <2>3. (pos % BLOCK_CELLS) + n <= BLOCK_CELLS
    BY DEF Advances
  <2>4. (pos + n - 1) \div BLOCK_CELLS = k
    BY <1>1, <2>3, LastWritten
  <2> HIDE DEF k
  <2>5. k # 0
    <3>1. Slot(0, 0) = 0
      BY <2>1 DEF Slot
    <3>. QED  BY <1>1, <2>2, <3>1
  <2> DEFINE l == k - 1
  <2>6. l \in Nat /\ l < k /\ l + 1 = k
    BY <2>2, <2>5
  <2>7. (pos - 1) \div BLOCK_CELLS = l
    <3>1. Slot(l + 1, 0) = Slot(l, 0) + BLOCK_CELLS
          /\ Slot(l, BLOCK_CELLS - 1) = Slot(l, 0) + (BLOCK_CELLS - 1) /\ Slot(l, 0) \in Nat
      BY <2>1, <2>6, SlotOrder
    <3>2. pos - 1 = Slot(l, BLOCK_CELLS - 1)
      BY <2>1, <2>2, <2>6, <3>1
    <3>. QED  BY <2>1, <2>6, <3>2, SlotParts
  <2> HIDE DEF l
  <2>8. Blk(rd, i, l) = NULL
    BY <1>4, <2>7 DEF Lags
  <2>9. Alike(l, k)
    BY <1>4, <2>2, <2>6, <2>8 DEF Cut
  <2>10. Blk(rd, i, k) = NULL
    BY <2>2, <2>6, <2>8, <2>9 DEF Packed
  <2>11. Blk(e, i, k) = NULL
    <3>1. CASE Still(rd, e, i)
      BY <2>2, <2>10, <3>1 DEF Still, BlkStays
    <3>2. ASSUME NEW j \in Nat, NEW cells, Settles(rd, i, j), Gets(rd, e, i, j, cells)
          PROVE  Blk(e, i, k) = NULL
      <4>1. ~ (l < j)
        BY <2>2, <2>6, <2>8, <2>9, <3>2 DEF Settles
      <4>2. j # k
        BY <2>6, <4>1
      <4>. QED  BY <2>2, <2>10, <3>2, <4>2 DEF Gets, BlkStays
    <3>. QED  BY <2>10, <3>1, <3>2 DEF Advances, k
  <2>12. pos + n - 1 = e.inodes[i].size - 1 /\ e.inodes[i].size \in Nat \ {0}
    BY <1>1, <1>2
  <2>. QED  BY <2>4, <2>11, <2>12 DEF Lags
<1>. QED  BY <1>3, <1>4

(* The block at the position is written, and none is missing before it. *)
LEMMA ExtendedBy ==
  ASSUME NEW rd, NEW e, NEW i, Whole(rd, i), Clean(rd, i), rd.inodes[i].size \in Nat,
         NEW pos \in Nat, rd.inodes[i].size < pos,
         NEW k \in Nat, NEW off \in Offs, pos = Slot(k, off),
         NEW n \in Nat \ {0}, off + n <= BLOCK_CELLS, NEW v,
         \A l \in Nat : l < k => Blk(rd, i, l) # NULL,
         NEW old,
         \A o \in Offs : Slot(k, o) < rd.inodes[i].size => old[o] = Cell(rd, i, Slot(k, o)),
         \A o \in Offs : Slot(k, o) >= rd.inodes[i].size => old[o] \in {Fill, Zero},
         Gets(rd, e, i, k, Overlaid(old, off, n, v)), e.inodes[i].size = pos + n
  PROVE  Extended(rd, e, i, pos, n, v)
<1> DEFINE s == rd.inodes[i].size
<1>1. /\ 0 \in Offs /\ BLOCK_CELLS \in Nat /\ off \in Nat
      /\ Slot(k, 0) \in Nat /\ pos = Slot(k, 0) + off
  <2>1. 0 \in Offs /\ BLOCK_CELLS \in Nat /\ off \in Nat
    BY InodeAssumption DEF Offs
  <2>. QED  BY <2>1, SlotOrder
<1>2. pos \div BLOCK_CELLS = k /\ pos % BLOCK_CELLS = off
  BY SlotParts
<1>3. (pos + n - 1) \div BLOCK_CELLS = k
  BY <1>2, LastWritten
<1>4. ASSUME NEW p \in 0 .. pos + n - 1
      PROVE  /\ Blk(e, i, p \div BLOCK_CELLS) # NULL
             /\ p >= pos => Cell(e, i, p) = Bytes(v)
             /\ p < s => Cell(e, i, p) = Cell(rd, i, p)
             /\ p < pos /\ p >= s => Cell(e, i, p) \in {Fill, Zero}
  <2> DEFINE j == p \div BLOCK_CELLS
             o == p % BLOCK_CELLS
             b == Blk(rd, i, j)
             c == Blk(e, i, j)
             was == Cell(rd, i, p)
             now == Cell(e, i, p)
  <2>1. p \in Nat /\ j \in Nat /\ o \in Offs /\ p = Slot(j, o) /\ o \in Nat
    BY SlotOf DEF Offs
  <2>2. j <= k
    <3>1. p <= pos + n - 1 /\ pos + n - 1 \in Nat
      OBVIOUS
    <3>. QED  BY <1>3, <2>1, <3>1, LastOrder
  <2>3. /\ was = IF b = NULL THEN Stale ELSE rd.data[b][o]
        /\ now = IF c = NULL THEN Stale ELSE e.data[c][o]
    BY <2>1, CellIs
  <2> HIDE DEF j, o, was, now
  <2>4. CASE j < k
    <3>1. b # NULL /\ c = b /\ e.data[b] = rd.data[b]
      BY <2>1, <2>4 DEF Gets, BlkStays
    <3>2. now = was
      BY <2>3, <3>1
    <3>3. p < pos
      BY <2>1, <2>4, SlotOrder
    <3>4. p >= s => was \in {Fill, Zero}
      BY <2>1, <2>3, <3>1 DEF Clean
    <3>. QED  BY <2>1, <3>1, <3>2, <3>3, <3>4 DEF was, now, j
  <2>5. CASE j = k
    <3>1. c # NULL /\ now = Overlaid(old, off, n, v)[o]
      BY <2>1, <2>3, <2>5 DEF Gets
    <3>2. p = Slot(k, 0) + o
      BY <1>1, <2>1, <2>5, SlotOrder
    <3>3. p >= pos <=> o \in off .. off + n - 1
      BY <1>1, <2>1, <3>2
    <3>4. p >= pos => now = Bytes(v)
      BY <2>1, <3>1, <3>3 DEF Overlaid
    <3>5. p < pos => now = old[o]
      BY <1>1, <2>1, <3>1, <3>3 DEF Overlaid
    <3>6. p < s => now = was
      BY <2>1, <2>5, <3>5 DEF was
    <3>7. p < pos /\ p >= s => now \in {Fill, Zero}
      BY <2>1, <2>5, <3>5
    <3>. QED  BY <3>1, <3>4, <3>6, <3>7 DEF was, now, j
  <2>6. j < k \/ j = k
    BY <2>1, <2>2
  <2>. QED  BY <2>4, <2>5, <2>6
<1>. QED  BY <1>4 DEF Extended, Whole
(* The first turn *)
LEMMA FirstChunk ==
  ASSUME NEW rd \in Disks, NEW e, NEW i \in Inums, Whole(rd, i), Ended(rd, i),
         NEW pos \in Nat, rd.inodes[i].size < pos,
         NEW n \in Nat \ {0}, NEW v, Advances(rd, e, i, pos, n, v)
  PROVE  Lags(e, i) \/ Extended(rd, e, i, pos, n, v)
<1> DEFINE s == rd.inodes[i].size
           k == pos \div BLOCK_CELLS
           off == pos % BLOCK_CELLS
           m == LastBlk(rd, i)
           b == Blk(rd, i, k)
<1>1. s \in Nat /\ 0 \in Offs
  BY DiskTypes, InodeAssumption DEF Offs
<1>2. Packed(rd, i) /\ Clean(rd, i)
  BY <1>1, CutNotWhole DEF Ended
<1>3. k \in Nat /\ off \in Offs /\ pos = Slot(k, off)
  BY SlotOf
<1>4. m \in Nat /\ m <= k
  BY <1>1, SlotOf, LastOrder DEF LastBlk
<1>5. e.inodes[i].size = pos + n /\ off + n <= BLOCK_CELLS
  BY <1>1 DEF Advances, Greater
<1>6. LastBlk(e, i) \in Nat /\ k <= LastBlk(e, i)
  <2>1. pos + n \in Nat /\ pos <= pos + n
    OBVIOUS
  <2>. QED  BY <1>5, <2>1, SlotOf, LastOrder DEF LastBlk
<1>7. ASSUME Blk(e, i, k) = NULL  PROVE Lags(e, i)
  <2>1. (pos + n - 1) \div BLOCK_CELLS = k
    BY <1>5, LastWritten
  <2>2. e.inodes[i].size - 1 = pos + n - 1 /\ e.inodes[i].size \in Nat \ {0}
    BY <1>5
  <2>. QED  BY <1>7, <2>1, <2>2 DEF Lags
<1>8. \A l \in Nat : l < m => Blk(rd, i, l) # NULL
  <2>1. Slot(m, 0) <= s
    <3>1. s % BLOCK_CELLS \in Offs /\ s = Slot(m, s % BLOCK_CELLS)
      BY <1>1, SlotOf DEF LastBlk
    <3>2. \A o \in Offs : Slot(m, o) = Slot(m, 0) + o /\ Slot(m, o) \in Nat /\ o \in Nat
      BY <1>1, <1>4, SlotOrder DEF Offs
    <3>. QED  BY <1>1, <3>1, <3>2
  <2>. QED  BY <1>4, <2>1, WholeBelow
<1>9. \A o \in Offs : Slot(k, o) < s => b # NULL
  <2> SUFFICES ASSUME NEW o \in Offs, Slot(k, o) < s  PROVE b # NULL
    OBVIOUS
  <2>1. Slot(k, o) \in 0 .. s - 1
    BY <1>1, <1>3, SlotOrder
  <2>2. Slot(k, o) \div BLOCK_CELLS = k
    BY <1>3, SlotParts
  <2>. QED  BY <2>1, <2>2 DEF Whole
<1> HIDE DEF k, off, m, b
<1>10. ASSUME b # NULL, Gets(rd, e, i, k, Overlaid(rd.data[b], off, n, v))
       PROVE  Lags(e, i) \/ Extended(rd, e, i, pos, n, v)
  <2>1. ASSUME NEW l \in Nat, l < k, Blk(rd, i, l) = NULL  PROVE Lags(e, i)
    <3>1. Blk(e, i, l) = NULL
      BY <1>3, <1>10, <2>1 DEF Gets, BlkStays
    <3>2. ~ Alike(l, LastBlk(e, i))
      <4>1. Alike(l, LastBlk(e, i)) => Alike(l, k)
        BY <1>3, <1>6, <2>1, AlikeBetween
      <4>. QED  BY <1>2, <1>3, <1>10, <2>1, <4>1 DEF Packed, b
    <3>3. l < LastBlk(e, i)
      BY <1>3, <1>6, <2>1
    <3>. QED  BY <1>5, <3>1, <3>2, <3>3 DEF Lags, Cut
  <2>2. ASSUME \A l \in Nat : l < k => Blk(rd, i, l) # NULL
        PROVE  Extended(rd, e, i, pos, n, v)
    <3> DEFINE old == rd.data[b]
    <3>1. \A o \in Offs : Slot(k, o) < s => old[o] = Cell(rd, i, Slot(k, o))
      <4> SUFFICES ASSUME NEW o \in Offs  PROVE old[o] = Cell(rd, i, Slot(k, o))
        OBVIOUS
      <4>1. Slot(k, o) \in Nat /\ Slot(k, o) \div BLOCK_CELLS = k /\ Slot(k, o) % BLOCK_CELLS = o
        BY <1>3, SlotOrder, SlotParts
      <4>. QED  BY <1>10, <4>1, CellIs DEF b
    <3>2. \A o \in Offs : Slot(k, o) >= s => old[o] \in {Fill, Zero}
      BY <1>2, <1>3, <1>10 DEF Clean, b
    <3>3. Gets(rd, e, i, k, Overlaid(old, off, n, v))
      BY <1>10
    <3> HIDE DEF old
    <3>. QED  BY <1>1, <1>2, <1>3, <1>5, <2>2, <3>1, <3>2, <3>3, ExtendedBy
  <2>. QED  BY <2>1, <2>2
<1>11. ASSUME b = NULL, NEW j \in Nat, Settles(rd, i, j),
              Gets(rd, e, i, j, Overlaid(FillCells, off, n, v))
       PROVE  Lags(e, i) \/ Extended(rd, e, i, pos, n, v)
  <2>1. CASE j # k
    <3>1. Blk(e, i, k) = NULL
      BY <1>3, <1>11, <2>1 DEF Gets, BlkStays, b
    <3>. QED  BY <1>7, <3>1
  <2>2. CASE j = k
    <3>1. ASSUME NEW l \in Nat, l < k  PROVE Blk(rd, i, l) # NULL
      <4>1. CASE l < m
        BY <1>8, <4>1
      <4>2. CASE m <= l
        <5>1. Alike(k, m)
          BY <1>3, <1>4, <1>11, <2>2, <3>1, <4>2 DEF Settles, m
        <5>2. Alike(m, k)
          BY <5>1, AlikeSame
        <5>3. Alike(m, l)
          BY <1>3, <1>4, <3>1, <4>2, <5>2, AlikeBetween
        <5>4. Alike(l, m)
          BY <5>3, AlikeSame
        <5>. QED  BY <1>11, <2>2, <3>1, <5>4 DEF Settles, m
      <4>. QED  BY <1>4, <4>1, <4>2
    <3>2. \A o \in Offs : Slot(k, o) < s => FillCells[o] = Cell(rd, i, Slot(k, o))
      BY <1>9, <1>11
    <3>3. \A o \in Offs : Slot(k, o) >= s => FillCells[o] \in {Fill, Zero}
      BY DEF FillCells
    <3>4. Gets(rd, e, i, k, Overlaid(FillCells, off, n, v))
      BY <1>11, <2>2
    <3> DEFINE old == FillCells
    <3> HIDE DEF old
    <3>5. /\ \A o \in Offs : Slot(k, o) < s => old[o] = Cell(rd, i, Slot(k, o))
          /\ \A o \in Offs : Slot(k, o) >= s => old[o] \in {Fill, Zero}
          /\ Gets(rd, e, i, k, Overlaid(old, off, n, v))
      BY <3>2, <3>3, <3>4 DEF old
    <3>6. \A l \in Nat : l < k => Blk(rd, i, l) # NULL
      BY <3>1
    <3>. QED  BY <1>1, <1>2, <1>3, <1>5, <3>5, <3>6, ExtendedBy
  <2>. QED  BY <2>1, <2>2
<1>12. CASE b = NULL /\ Still(rd, e, i)
  <2>1. Blk(e, i, k) = NULL
    BY <1>3, <1>12 DEF Still, BlkStays, b
  <2>. QED  BY <1>7, <2>1
<1>13. \/ b # NULL /\ Gets(rd, e, i, k, Overlaid(rd.data[b], off, n, v))
       \/ b = NULL /\ Still(rd, e, i)
       \/ b = NULL /\ \E j \in Nat :
            Settles(rd, i, j) /\ Gets(rd, e, i, j, Overlaid(FillCells, off, n, v))
  BY DEF Advances, k, off, b
<1>. QED  BY <1>10, <1>11, <1>12, <1>13

(* More is written after that. *)
LEMMA ExtendedOn ==
  ASSUME NEW rd, NEW e, NEW f, NEW i, NEW v, rd.inodes[i].size \in Nat,
         NEW pos \in Nat, rd.inodes[i].size < pos, NEW m \in Nat, NEW n \in Nat,
         Extended(rd, e, i, pos, m, v), Puts(e, f, i, pos + m, n, v)
  PROVE  Extended(rd, f, i, pos, m + n, v)
<1>1. e.inodes[i].size = pos + m /\ f.inodes[i].size = pos + (m + n) /\ Whole(f, i)
  BY DEF Extended, Puts, Greater
<1>2. ASSUME NEW p \in 0 .. pos + (m + n) - 1
      PROVE  /\ p >= pos => Cell(f, i, p) = Bytes(v)
             /\ p < rd.inodes[i].size => Cell(f, i, p) = Cell(rd, i, p)
             /\ p < pos /\ p >= rd.inodes[i].size => Cell(f, i, p) \in {Fill, Zero}
  <2>1. Cell(f, i, p) = IF p \in pos + m .. pos + m + n - 1 THEN Bytes(v) ELSE Cell(e, i, p)
    BY <1>1 DEF Puts
  <2>2. CASE p \in pos + m .. pos + m + n - 1
    BY <2>1, <2>2
  <2>3. CASE p \notin pos + m .. pos + m + n - 1
    <3>1. p \in 0 .. pos + m - 1
      BY <2>3
    <3>. QED  BY <2>1, <2>3, <3>1 DEF Extended
  <2>. QED  BY <2>2, <2>3
<1>. QED  BY <1>1, <1>2 DEF Extended
-----------------------------------------------------------------------------
(***************************************************************************)
(* How far the loop of rd_write has come, whatever the shape of the file:  *)
(* n cells are written, and a file that was whole and ended before the     *)
(* position is not whole any more, or became larger by these cells.        *)
(***************************************************************************)
Beyond(rd, w, i, pos, n, v) ==
  Whole(rd, i) /\ rd.inodes[i].size < pos /\ Ended(rd, i) /\ ~ w.failed =>
    \/ n = 0 /\ w.rd = rd
    \/ /\ n # 0 /\ (w.left = 0 \/ w.pos % BLOCK_CELLS = 0)
       /\ Lags(w.rd, i) \/ Extended(rd, w.rd, i, pos, n, v)

SizeAfter(rd, i, pos, n) ==
  IF n = 0 THEN rd.inodes[i].size ELSE Greater(rd.inodes[i].size, pos + n)

Reaching(rd, w, i, pos, num_bytes, v) ==
  /\ IsTurn(w) /\ Writing(rd, w, i)
  /\ \E n \in 0 .. num_bytes :
       /\ w.pos = pos + n /\ w.left = num_bytes - n
       /\ w.rd.inodes[i].size = SizeAfter(rd, i, pos, n)
       /\ Beyond(rd, w, i, pos, n, v)
  /\ w.failed => w.left # 0
  /\ Ended(rd, i) => Ended(w.rd, i)

(* A turn of the loop that writes l cells *)
LEMMA TurnBeyond ==
  ASSUME NEW rd, Sound(rd), NEW i \in Inums, NEW pos \in Nat, NEW v \in Data,
         NEW w, IsTurn(w), Sound(w.rd), w.left \in Nat \ {0}, ~ w.failed,
         NEW n \in Nat, w.pos = pos + n, w.rd.inodes[i].size = SizeAfter(rd, i, pos, n),
         Ended(rd, i) => Ended(w.rd, i), Beyond(rd, w, i, pos, n, v),
         NEW x, x = WriteChunk(w, i, v), NEW l \in 1 .. w.left,
         ~ x.failed, x.pos = w.pos + l, x.left = 0 \/ x.pos = Slot(w.pos \div BLOCK_CELLS + 1, 0),
         Advances(w.rd, x.rd, i, w.pos, l, v)
  PROVE  Beyond(rd, x, i, pos, n + l, v)
<1> SUFFICES ASSUME Whole(rd, i), rd.inodes[i].size < pos, Ended(rd, i)
             PROVE  /\ n + l # 0 /\ (x.left = 0 \/ x.pos % BLOCK_CELLS = 0)
                    /\ Lags(x.rd, i) \/ Extended(rd, x.rd, i, pos, n + l, v)
  BY DEF Beyond
<1>1. rd \in Disks /\ w.rd \in Disks /\ rd.inodes[i].size \in Nat /\ l \in Nat \ {0}
  BY DiskTypes DEF Sound
<1>2. x.left = 0 \/ x.pos % BLOCK_CELLS = 0
  <2>1. w.pos \div BLOCK_CELLS + 1 \in Nat /\ 0 \in Offs
    BY SlotOf, InodeAssumption DEF Offs
  <2>. QED  BY <2>1, SlotParts
<1>3. CASE n = 0 /\ w.rd = rd
  <2>1. Advances(rd, x.rd, i, pos, l, v) /\ n + l = l
    BY <1>1, <1>3
  <2> DEFINE e == x.rd
  <2> HIDE DEF e
  <2>2. Advances(rd, e, i, pos, l, v)
    BY <2>1 DEF e
  <2>3. Lags(e, i) \/ Extended(rd, e, i, pos, l, v)
    BY <1>1, <2>2, FirstChunk
  <2>. QED  BY <1>1, <1>2, <2>1, <2>3 DEF e
<1>4. CASE n # 0 /\ w.pos % BLOCK_CELLS = 0
           /\ (Lags(w.rd, i) \/ Extended(rd, w.rd, i, pos, n, v))
  <2> DEFINE g == w.rd
             e == x.rd
             here == w.pos
  <2>1. g.inodes[i].size = here /\ here \in Nat /\ here = pos + n
    BY <1>1, <1>4 DEF SizeAfter, Greater
  <2>2. Packed(g, i) /\ Advances(g, e, i, here, l, v)
    BY DEF Ended
  <2>3. ASSUME Lags(g, i)  PROVE Lags(e, i)
    <3> HIDE DEF g, e, here
    <3>1. here % BLOCK_CELLS = 0
      BY <1>4 DEF here
    <3>. QED  BY <1>1, <2>1, <2>2, <2>3, <3>1, LagsOn
  <2>4. ASSUME Extended(rd, g, i, pos, n, v)  PROVE Extended(rd, e, i, pos, n + l, v)
    <3>1. Whole(w.rd, i) /\ w.pos <= w.rd.inodes[i].size
      BY <2>1, <2>4 DEF Extended
    <3>2. \E m \in 1 .. w.left : x.pos = w.pos + m /\ Puts(w.rd, x.rd, i, w.pos, m, v)
      BY <2>1, <3>1, ChunkPuts
    <3>3. PICK m \in 1 .. w.left : x.pos = w.pos + m /\ Puts(g, e, i, here, m, v)
      BY <3>2
    <3>4. m = l
      BY <2>1, <3>3
    <3> HIDE DEF g, e, here
    <3>. QED  BY <1>1, <2>1, <2>4, <3>3, <3>4, ExtendedOn
  <2>. QED  BY <1>1, <1>2, <1>4, <2>3, <2>4
<1>. QED  BY <1>3, <1>4 DEF Beyond

(* A turn of the loop, if there is anything left to write *)
LEMMA TurnReaches ==
  ASSUME NEW rd, Sound(rd), NEW i \in Inums,
         NEW pos \in Nat, NEW num_bytes \in Nat, NEW v \in Data,
         NEW w, Reaching(rd, w, i, pos, num_bytes, v), NEW m \in Nat,
         w.failed \/ w.left = 0 \/ w.left <= num_bytes - m, NEW x, x = Turn(w, i, v)
  PROVE  /\ Reaching(rd, x, i, pos, num_bytes, v)
         /\ x.failed \/ x.left = 0 \/ x.left <= num_bytes - (m + 1)
<1>1. PICK n \in 0 .. num_bytes : /\ w.pos = pos + n /\ w.left = num_bytes - n
                                  /\ w.rd.inodes[i].size = SizeAfter(rd, i, pos, n)
                                  /\ Beyond(rd, w, i, pos, n, v)
  BY DEF Reaching
<1>2. IsTurn(w) /\ Writing(rd, w, i) /\ Sound(w.rd) /\ rd \in Disks /\ w.rd \in Disks
      /\ (Ended(rd, i) => Ended(w.rd, i))
  BY DEF Reaching, Writing, Wrote, Sound
<1>3. CASE w.left = 0 \/ w.failed
  BY <1>3 DEF Turn
<1>4. CASE ~ (w.left = 0 \/ w.failed)
  <2>1. x = WriteChunk(w, i, v)
    BY <1>4 DEF Turn
  <2>2. Writing(rd, x, i)
    BY <1>2, <2>1, ChunkWriting
  <2>3. /\ w.pos \in Nat /\ w.left \in Nat \ {0} /\ ~ w.failed
        /\ w.rd.inodes[i].size \in Nat /\ rd.inodes[i].size \in Nat
    BY <1>1, <1>2, <1>4, DiskTypes
  <2>4. /\ IsTurn(x)
        /\ \/ x.failed /\ x.pos = w.pos /\ x.left = w.left /\ Halts(w.rd, x.rd, i, w.pos)
           \/ \E l \in 1 .. w.left :
                /\ ~ x.failed /\ x.pos = w.pos + l /\ x.left = w.left - l
                /\ x.left = 0 \/ x.pos = Slot(w.pos \div BLOCK_CELLS + 1, 0)
                /\ Advances(w.rd, x.rd, i, w.pos, l, v)
    BY <1>2, <2>1, <2>3, ChunkEffect
  <2>5. CASE x.failed /\ x.pos = w.pos /\ x.left = w.left /\ Halts(w.rd, x.rd, i, w.pos)
    <3>1. Ended(rd, i) => Ended(x.rd, i)
      <4> DEFINE g == w.rd
                 e == x.rd
                 here == w.pos
      <4>1. Halts(g, e, i, here) /\ g.inodes[i].size \in Nat /\ here \in Nat
        BY <2>3, <2>5
      <4>2. Ended(rd, i) => Ended(g, i)
        BY <1>2
      <4> HIDE DEF g, e, here
      <4>3. Ended(rd, i) => Ended(e, i)
        BY <4>1, <4>2, EndedHalts
      <4>. QED  BY <4>3 DEF e
    <3>2. x.rd.inodes[i].size = SizeAfter(rd, i, pos, n)
      BY <1>1, <2>5 DEF Halts
    <3>3. Beyond(rd, x, i, pos, n, v)
      BY <2>5 DEF Beyond
    <3>. QED  BY <1>1, <2>2, <2>3, <2>4, <2>5, <3>1, <3>2, <3>3 DEF Reaching
  <2>6. CASE \E l \in 1 .. w.left :
                /\ ~ x.failed /\ x.pos = w.pos + l /\ x.left = w.left - l
                /\ x.left = 0 \/ x.pos = Slot(w.pos \div BLOCK_CELLS + 1, 0)
                /\ Advances(w.rd, x.rd, i, w.pos, l, v)
    <3>1. PICK l \in 1 .. w.left :
                /\ ~ x.failed /\ x.pos = w.pos + l /\ x.left = w.left - l
                /\ x.left = 0 \/ x.pos = Slot(w.pos \div BLOCK_CELLS + 1, 0)
                /\ Advances(w.rd, x.rd, i, w.pos, l, v)
      BY <2>6
    <3>2. Beyond(rd, x, i, pos, n + l, v)
      BY <1>1, <1>2, <2>1, <2>3, <3>1, TurnBeyond
    <3>3. n + l \in 0 .. num_bytes /\ x.pos = pos + (n + l) /\ x.left = num_bytes - (n + l)
      BY <1>1, <3>1
    <3>4. x.left <= num_bytes - (m + 1)
      BY <1>1, <1>4, <3>1
    <3>5. x.rd.inodes[i].size = SizeAfter(rd, i, pos, n + l)
      BY <1>1, <2>3, <3>1 DEF Advances, SizeAfter, Greater
    <3>6. Ended(rd, i) => Ended(x.rd, i)
      <4> DEFINE g == w.rd
                 e == x.rd
                 here == w.pos
      <4>1. Advances(g, e, i, here, l, v) /\ g.inodes[i].size \in Nat /\ here \in Nat /\ l \in Nat
        BY <2>3, <3>1
      <4>2. Ended(rd, i) => Ended(g, i)
        BY <1>2
      <4> HIDE DEF g, e, here
      <4>3. Ended(rd, i) => Ended(e, i)
        BY <4>1, <4>2, EndedAdvances
      <4>. QED  BY <4>3 DEF e
    <3>. QED  BY <2>2, <2>4, <3>1, <3>2, <3>3, <3>4, <3>5, <3>6 DEF Reaching
  <2>. QED  BY <2>4, <2>5, <2>6
<1>. QED  BY <1>3, <1>4

(* The whole loop *)
LEMMA WriteReaches ==
  ASSUME NEW rd, Sound(rd), NEW i \in Inums, NEW pos \in Nat, NEW num_bytes \in Nat,
         NEW v \in Data, NEW w, w = Write(rd, i, pos, num_bytes, v)
  PROVE  /\ Reaching(rd, w, i, pos, num_bytes, v)
         /\ w.failed \/ w.left = 0
<1> DEFINE w0 == [rd |-> rd, pos |-> pos, left |-> num_bytes, failed |-> FALSE]
           f == CHOOSE f : Turning(w0, i, v, f, num_bytes)
           Good(m) == /\ Reaching(rd, f[m], i, pos, num_bytes, v)
                      /\ f[m].failed \/ f[m].left = 0 \/ f[m].left <= num_bytes - m
<1>1. Turning(w0, i, v, f, num_bytes)
  BY TurningExists
<1>2. Turns(rd, i, pos, num_bytes, v) = f
  BY DEF Turns, Turning
<1>3. Reaching(rd, w0, i, pos, num_bytes, v) /\ w0.left <= num_bytes - 0
  <2>1. Writing(rd, w0, i)
    BY DEF Writing, Wrote, OthersKept, Kept
  <2>2. Beyond(rd, w0, i, pos, 0, v)
    BY DEF Beyond
  <2>3. rd.inodes[i].size = SizeAfter(rd, i, pos, 0)
    BY DEF SizeAfter
  <2>4. \E n \in 0 .. num_bytes :
          /\ w0.pos = pos + n /\ w0.left = num_bytes - n
          /\ w0.rd.inodes[i].size = SizeAfter(rd, i, pos, n)
          /\ Beyond(rd, w0, i, pos, n, v)
    <3>1. 0 \in 0 .. num_bytes /\ w0.pos = pos + 0 /\ w0.left = num_bytes - 0 /\ w0.rd = rd
      OBVIOUS
    <3>. QED  BY <2>2, <2>3, <3>1
  <2>5. IsTurn(w0) /\ ~ w0.failed /\ w0.rd = rd /\ w0.left = num_bytes
    BY DEF IsTurn
  <2>6. Ended(rd, i) => Ended(w0.rd, i)
    OBVIOUS
  <2> HIDE DEF w0
  <2>. QED  BY <2>1, <2>4, <2>5, <2>6 DEF Reaching
<1> HIDE DEF f, w0
<1>4. \A n \in 0 .. num_bytes : f[n] = IF n = 0 THEN w0 ELSE Turn(f[n - 1], i, v)
  BY <1>1 DEF Turning
<1> DEFINE Bad == {n \in 0 .. num_bytes : ~ Good(n)}
<1>5. ASSUME Bad # {} PROVE FALSE
  <2>1. Bad \in SUBSET Nat
    OBVIOUS
  <2>2. PICK n \in Bad : \A k \in Bad : n <= k
    <3> HIDE DEF Bad
    <3>. QED  BY <1>5, <2>1, MinIsLeast
  <2>3. n # 0
    BY <1>3, <1>4
  <2>4. n - 1 \in 0 .. num_bytes /\ n - 1 \notin Bad /\ n \in 0 .. num_bytes
    BY <2>2, <2>3
  <2>5. Good(n - 1)
    BY <2>4
  <2>6. f[n] = Turn(f[n - 1], i, v)
    BY <1>4, <2>3, <2>4
  <2>7. n - 1 \in Nat /\ n - 1 + 1 = n
    BY <2>3, <2>4
  <2>8. Good(n)
    BY <2>5, <2>6, <2>7, TurnReaches
  <2>. QED  BY <2>2, <2>8
<1>6. Good(num_bytes) /\ w = f[num_bytes]
  BY <1>2, <1>5 DEF Write
<1>7. w.left \in Nat /\ w.left <= num_bytes
  BY <1>6 DEF Reaching
<1>. QED  BY <1>6, <1>7
-----------------------------------------------------------------------------
(***************************************************************************)
(* What rd_write does to a file                                            *)
(***************************************************************************)
(* The cells after a write: those written, those before, and the others *)
Lined(rd, e, i, pos, k, v) ==
  \A p \in 0 .. e.inodes[i].size - 1 :
    /\ p \in pos .. pos + k - 1 => Cell(e, i, p) = Bytes(v)
    /\ p \notin pos .. pos + k - 1 =>
         IF p < rd.inodes[i].size THEN Cell(e, i, p) = Cell(rd, i, p)
         ELSE Cell(e, i, p) \in {Fill, Zero}

LEMMA FileWrites ==
  ASSUME NEW rd, Sound(rd), NEW i \in Inums, Ended(rd, i), NEW pos \in Nat,
         NEW num_bytes \in Nat, NEW v \in Data, NEW w, w = Write(rd, i, pos, num_bytes, v)
  PROVE  /\ ~ w.failed => w.pos = pos + num_bytes
         /\ w.failed \in BOOLEAN /\ Wrote(rd, w.rd, i) /\ Ended(w.rd, i)
         /\ \E k \in 0 .. num_bytes :
              /\ k = num_bytes <=> ~ w.failed
              /\ w.rd.inodes[i].size = SizeAfter(rd, i, pos, k)
              /\ Whole(rd, i) /\ pos <= rd.inodes[i].size => Whole(w.rd, i)
              /\ Whole(rd, i) /\ Whole(w.rd, i) /\ (pos <= rd.inodes[i].size \/ ~ w.failed)
                   => Lined(rd, w.rd, i, pos, k, v)
<1> DEFINE e == w.rd
           s == rd.inodes[i].size
<1>1. rd \in Disks /\ s \in Nat
  BY DiskTypes DEF Sound
<1>2. Reaching(rd, w, i, pos, num_bytes, v) /\ (w.failed \/ w.left = 0)
  BY WriteReaches
<1>3. PICK n \in 0 .. num_bytes :
        /\ w.pos = pos + n /\ w.left = num_bytes - n
        /\ e.inodes[i].size = SizeAfter(rd, i, pos, n)
        /\ Beyond(rd, w, i, pos, n, v)
  BY <1>2 DEF Reaching
<1>4. n = num_bytes <=> ~ w.failed
  BY <1>2, <1>3 DEF Reaching
<1>5. ~ w.failed => w.pos = pos + num_bytes
  BY <1>3, <1>4
<1>6. w.failed \in BOOLEAN /\ Wrote(rd, e, i) /\ Ended(e, i)
  BY <1>2 DEF Reaching, IsTurn, Writing
<1>7. CASE Whole(rd, i) /\ pos <= s
  <2>1. \/ ~ w.failed /\ w.pos = pos + num_bytes /\ Puts(rd, w.rd, i, pos, num_bytes, v)
        \/ w.failed /\ \E k \in 0 .. num_bytes - 1 : Puts(rd, w.rd, i, pos, k, v)
    BY <1>7, WritePuts
  <2>2. PICK k \in 0 .. num_bytes : (k = num_bytes <=> ~ w.failed) /\ Puts(rd, e, i, pos, k, v)
    <3> HIDE DEF e
    <3>1. CASE ~ w.failed
      BY <2>1, <3>1 DEF e
    <3>2. CASE w.failed
      <4>1. PICK k \in 0 .. num_bytes - 1 : Puts(rd, w.rd, i, pos, k, v)
        BY <2>1, <3>2
      <4>2. k \in 0 .. num_bytes /\ k # num_bytes
        OBVIOUS
      <4>. QED  BY <3>2, <4>1, <4>2 DEF e
    <3>. QED  BY <3>1, <3>2
  <2> HIDE DEF e
  <2>3. Whole(e, i)
    BY <2>2 DEF Puts
  <2>4. e.inodes[i].size = SizeAfter(rd, i, pos, k)
    BY <1>1, <1>7, <2>2 DEF Puts, SizeAfter, Greater
  <2>5. Lined(rd, e, i, pos, k, v)
    <3>1. ASSUME NEW p \in 0 .. e.inodes[i].size - 1
          PROVE  /\ p \in pos .. pos + k - 1 => Cell(e, i, p) = Bytes(v)
                 /\ p \notin pos .. pos + k - 1 => p < s /\ Cell(e, i, p) = Cell(rd, i, p)
      <4>1. Cell(e, i, p) = IF p \in pos .. pos + k - 1 THEN Bytes(v) ELSE Cell(rd, i, p)
        BY <2>2 DEF Puts
      <4>2. e.inodes[i].size = Greater(s, pos + k)
        BY <2>2 DEF Puts
      <4>3. p \notin pos .. pos + k - 1 => p < s
        BY <1>1, <1>7, <4>2 DEF Greater
      <4>. QED  BY <4>1, <4>3
    <3>. QED  BY <3>1 DEF Lined
  <2>. QED  BY <1>5, <1>6, <2>2, <2>3, <2>4, <2>5 DEF e
<1>8. CASE ~ (Whole(rd, i) /\ pos <= s)
  <2>1. ASSUME Whole(rd, i), Whole(e, i), ~ w.failed
        PROVE  Lined(rd, e, i, pos, n, v)
    <3>1. \/ n = 0 /\ e = rd
          \/ n # 0 /\ (Lags(e, i) \/ Extended(rd, e, i, pos, n, v))
      BY <1>1, <1>3, <1>8, <2>1 DEF Beyond
    <3>2. ~ Lags(e, i)
      BY <2>1, LagsNotWhole
    <3> HIDE DEF e
    <3>3. CASE n = 0 /\ e = rd
      BY <1>1, <3>3 DEF Lined
    <3>4. CASE Extended(rd, e, i, pos, n, v)
      <4>1. e.inodes[i].size = pos + n
        BY <3>4 DEF Extended
      <4>2. s < pos
        BY <1>1, <1>8, <2>1
      <4>3. ASSUME NEW p \in 0 .. e.inodes[i].size - 1
            PROVE  /\ p \in pos .. pos + n - 1 => Cell(e, i, p) = Bytes(v)
                   /\ p \notin pos .. pos + n - 1 =>
                        IF p < s THEN Cell(e, i, p) = Cell(rd, i, p)
                        ELSE Cell(e, i, p) \in {Fill, Zero}
        <5>1. p \in 0 .. pos + n - 1
          BY <4>1
        <5>2. /\ p >= pos => Cell(e, i, p) = Bytes(v)
              /\ p < s => Cell(e, i, p) = Cell(rd, i, p)
              /\ p < pos /\ p >= s => Cell(e, i, p) \in {Fill, Zero}
          BY <3>4, <5>1 DEF Extended
        <5>. QED  BY <1>1, <4>2, <5>1, <5>2
      <4>. QED  BY <4>3 DEF Lined
    <3>. QED  BY <3>1, <3>2, <3>3, <3>4
  <2> HIDE DEF e
  <2>. QED  BY <1>3, <1>4, <1>5, <1>6, <1>8, <2>1 DEF e
<1>. QED  BY <1>7, <1>8
-----------------------------------------------------------------------------
(***************************************************************************)
(* Every call keeps the ends of the files as they must be.                 *)
(***************************************************************************)
(* Behind the end of no file is anything that was written, unless it is cut *)
EndsHold(rd) == \A i \in Inums : rd.inodes[i].type = FILE => Ended(rd, i)

(* An inode without pointers has no blocks. *)
LEMMA InitialBlks ==
  ASSUME NEW e, NEW c, \A k \in Directs : e.inodes[c].direct[k] = NULL,
         e.inodes[c].indirect = NULL, e.inodes[c].double = NULL
  PROVE  \A l \in Nat : Blk(e, c, l) = NULL
<1>2. ASSUME NEW l \in Nat, NEW pos, pos = Position(l)  PROVE Blk(e, c, l) = NULL
  <2>1. TableFor(e, c, pos) = NULL
    BY DEF TableFor, BlockAt
  <2>2. pos.kind \in Tabled => Blk(e, c, l) = BlockAt(e, TableFor(e, c, pos), pos.place)
    BY <1>2, BlkIs
  <2>3. pos.kind = "direct" => pos.place \in Directs /\ Blk(e, c, l) = e.inodes[c].direct[pos.place]
    BY <1>2, BlkIs
  <2>4. pos.kind = "none" => Blk(e, c, l) = NULL
    BY <1>2, BlkIs
  <2>5. pos.kind \in {"direct", "none"} \cup Tabled
    BY <1>2, BlkIs, Zenon
  <2>. QED  BY <2>1, <2>2, <2>3, <2>4, <2>5 DEF BlockAt
<1>. QED  BY <1>2

LEMMA EndsAtStart ==
  EndsHold(EmptyDisk)
<1>1. ASSUME NEW i \in Inums, EmptyDisk.inodes[i].type = FILE  PROVE FALSE
  <2>1. i = Root
    BY <1>1, EmptyDiskInv DEF FILE, UNALLOCATED
  <2>2. Root \in Directories(EmptyDisk)
    BY EmptyDiskInv, DiskInvTypes
  <2>. QED  BY <1>1, <2>1, <2>2 DEF Directories, FILE, DIR
<1>. QED  BY <1>1 DEF EndsHold

(* The files of which nothing changed *)
LEMMA EndsElse ==
  ASSUME NEW rd, DiskInv(rd), EndsHold(rd), NEW e, NEW c, FilesKept(rd, e, c),
         \A j \in Inums \ {c} : e.inodes[j].type = rd.inodes[j].type
  PROVE  \A j \in Inums \ {c} : e.inodes[j].type = FILE => Ended(e, j)
<1>1. rd \in Disks /\ OnePlace(rd)
  BY DiskInvTypes DEF Sound
<1>2. ASSUME NEW j \in Inums \ {c}, e.inodes[j].type = FILE  PROVE Ended(e, j)
  <2>1. rd.inodes[j].type = FILE
    BY <1>2
  <2>2. Kept(rd, e, j) /\ Ended(rd, j)
    BY <2>1 DEF FilesKept, EndsHold
  <2>. QED  BY <1>1, <2>2, EndedKept
<1>. QED  BY <1>2

LEMMA EndsCreated ==
  ASSUME NEW rd, DiskInv(rd), EndsHold(rd), NEW e, NEW c, NEW type, Created(rd, e, c, type)
  PROVE  EndsHold(e)
<1>1. \A j \in Inums \ {c} : e.inodes[j].type = FILE => Ended(e, j)
  BY EndsElse DEF Created
<1>2. Ended(e, c)
  <2>1. e.inodes[c] = [InitialInode EXCEPT !.type = type]
    BY DEF Created
  <2>2. /\ \A k \in Directs : e.inodes[c].direct[k] = NULL
        /\ e.inodes[c].indirect = NULL /\ e.inodes[c].double = NULL
    BY <2>1 DEF InitialInode
  <2>. QED  BY <2>2, InitialBlks, EndedEmpty
<1>. QED  BY <1>1, <1>2 DEF EndsHold

LEMMA EndsUnlinked ==
  ASSUME NEW rd, DiskInv(rd), EndsHold(rd), NEW e, NEW d, NEW p, NEW c, Unlinked(rd, e, d, p, c)
  PROVE  EndsHold(e)
<1>1. \A j \in Inums \ {c} : e.inodes[j].type = FILE => Ended(e, j)
  BY EndsElse DEF Unlinked
<1>2. e.inodes[c].type # FILE
  BY DEF Unlinked, FILE, UNALLOCATED
<1>. QED  BY <1>1, <1>2 DEF EndsHold

LEMMA EndsFilled ==
  ASSUME IInv, EndsHold(RAMDISK), Fills
  PROVE  EndsHold(RAMDISK')
<1>1. PICK i \in Inums, pid \in Pids, fd \in Fds, n \in WriteLens, v \in Data :
        /\ RAMDISK.inodes[i].type = FILE /\ Wrote(RAMDISK, RAMDISK', i)
        /\ i = InodeOf(pid, fd) /\ Usable(pid, fd, FILE) /\ rd_write(pid, fd, n, v)
  BY DEF Fills
<1>2. DiskInv(RAMDISK) /\ Sound(RAMDISK) /\ Ended(RAMDISK, i)
  BY <1>1, DiskInvTypes DEF IInv, EndsHold
<1> DEFINE pos == PositionOf(pid, fd)
           w   == Write(RAMDISK, i, pos, n, v)
           e   == RAMDISK'
<1>3. n \in Nat /\ pos \in Nat
  <2>1. pos \in Int /\ pos >= 0
    BY <1>1, UsableTypes DEF Usable
  <2> HIDE DEF pos
  <2>. QED  BY <2>1, RamdiskAssumption
<1>4. e = w.rd
  BY <1>1 DEF rd_write
<1> HIDE DEF pos
<1>5. Ended(w.rd, i)
  BY <1>2, <1>3, FileWrites
<1> HIDE DEF w
<1>6. Ended(e, i)
  BY <1>4, <1>5
<1>7. FilesKept(RAMDISK, e, i) /\ \A j \in Inums \ {i} : e.inodes[j].type = RAMDISK.inodes[j].type
  BY <1>1 DEF Wrote, OthersKept, Kept, FilesKept
<1>8. \A j \in Inums \ {i} : e.inodes[j].type = FILE => Ended(e, j)
  BY <1>2, <1>7, EndsElse
<1>9. EndsHold(e)
  BY <1>6, <1>8 DEF EndsHold
<1>. QED  BY <1>9

LEMMA EndsStep ==
  ASSUME IInv, EndsHold(RAMDISK), Next
  PROVE  EndsHold(RAMDISK')
<1>1. DiskInv(RAMDISK)
  BY DEF IInv
<1>2. CASE Quietly
  BY <1>2 DEF Quietly
<1>3. CASE Starts
  BY <1>3, EndsAtStart DEF Starts
<1>4. CASE Creates
  <2>1. PICK c, type : Created(RAMDISK, RAMDISK', c, type)
    BY <1>4, CreatesDisk
  <2>. QED  BY <1>1, <2>1, EndsCreated
<1>5. CASE Spoils
  <2>1. PICK c, type : Created(RAMDISK, RAMDISK', c, type)
    BY <1>5, SpoilsDisk
  <2>. QED  BY <1>1, <2>1, EndsCreated
<1>6. CASE Unlinks
  <2>1. PICK d, found, p :
          /\ Removable(RAMDISK, d, found, p)
          /\ ~ (RAMDISK.inodes[found.inum].type = DIR /\ RAMDISK.inodes[found.inum].size > 0)
          /\ RAMDISK' = RemoveEntry(DeallocateInode(Release(RAMDISK, found.inum), found.inum),
                                    d, found)
    BY <1>6 DEF Unlinks
  <2>2. Unlinked(RAMDISK, RAMDISK', d, p, found.inum)
    BY <1>1, <2>1, UnlinkTree
  <2>. QED  BY <1>1, <2>2, EndsUnlinked
<1>7. CASE Fills
  BY <1>7, EndsFilled
<1>. QED  BY <1>2, <1>3, <1>4, <1>5, <1>6, <1>7, CallCases

=============================================================================

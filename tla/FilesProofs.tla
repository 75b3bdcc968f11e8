---------------------------- MODULE FilesProofs ----------------------------
(***************************************************************************)
(* What the users of the RAM disk see: descriptors, directories, their     *)
(* listings and files, in the words of Listing and RamdiskFiles, and that  *)
(* they see a FileSystem.  The descriptor tables are those of              *)
(* DescriptorTablesProofs, the disk that of RamdiskProofs, whose invariant *)
(* is used throughout.                                                     *)
(***************************************************************************)
EXTENDS Listing, RamdiskProofs, FiniteSetTheorems

(***************************************************************************)
(* The descriptor tables.  What DescriptorTablesProofs proves of them for  *)
(* arbitrary callers is used here for the calls of the disk.               *)
(***************************************************************************)
T == INSTANCE DescriptorTablesProofs WITH
  Inodes <- Inums, Fds <- Int, Offsets <- Int, result <- ret, call <- "any"

(* The instance speaks of the same tables, *)
LEMMA SameSets ==
  /\ T!Tables = Tables /\ T!Slots = Slots /\ T!Entry = Entry /\ T!FdTableArray = FdTableArray
  /\ T!NoPid = NoPid /\ T!NoInode = NoInode /\ T!UnusedEntry = UnusedEntry
  /\ T!InitialTables = InitialTables
BY DEF T!Tables, Tables, T!Slots, Slots, T!Entry, Entry, T!FdTableArray, FdTableArray,
       T!NoPid, NoPid, T!NoInode, NoInode, T!UnusedEntry, UnusedEntry,
       T!InitialTables, InitialTables

(* has the same operators on them, *)
LEMMA SameOperators ==
  ASSUME NEW a, NEW pid
  PROVE  /\ T!OwnedBy(a, pid) = OwnedBy(a, pid)
         /\ T!HasTable(a, pid) <=> HasTable(a, pid)
         /\ T!TableOf(a, pid) = TableOf(a, pid)
         /\ \A fd : T!RemoveAtFd(a, pid, fd) = RemoveAtFd(a, pid, fd)
         /\ \A table : T!Update(a, pid, table) = Update(a, pid, table)
         /\ \A fd : T!InodeForFd(a, pid, fd) = InodeForFd(a, pid, fd)
         /\ \A i : T!CreateEntry(a, pid, i) = CreateEntry(a, pid, i)
         /\ \A i : T!CheckForInode(a, i) = CheckForInode(a, i)
<1>1. T!Tables = Tables /\ T!Slots = Slots /\ T!NoPid = NoPid /\ T!UnusedEntry = UnusedEntry
  BY SameSets
<1>2. \A q : T!OwnedBy(a, q) = OwnedBy(a, q) /\ (T!HasTable(a, q) <=> HasTable(a, q))
  BY <1>1 DEF T!OwnedBy, OwnedBy, T!HasTable, HasTable
<1>3. \A S : T!Min(S) = Min(S)
  BY DEF T!Min, Min
<1>4. T!TableOf(a, pid) = TableOf(a, pid)
  BY <1>2, <1>3 DEF T!TableOf, TableOf
<1>5. \A t, q, table : T!Store(a, t, q, table) = Store(a, t, q, table)
  BY DEF T!Store, Store
<1>6. \A table : T!Update(a, pid, table) = Update(a, pid, table)
  BY <1>2, <1>3, <1>5 DEF T!Update, Update
<1>7. \A table : T!Unused(table) = Unused(table)
  BY <1>1 DEF T!Unused, Unused
<1>8. \A fd : T!RemoveAtFd(a, pid, fd) = RemoveAtFd(a, pid, fd)
  BY <1>1, <1>2, <1>4, <1>6 DEF T!RemoveAtFd, RemoveAtFd
<1>9. \A fd : T!InodeForFd(a, pid, fd) = InodeForFd(a, pid, fd)
  BY <1>1, <1>2, <1>4 DEF T!InodeForFd, InodeForFd, T!CanSeek, CanSeek
<1>10. \A i : T!CreateEntry(a, pid, i) = CreateEntry(a, pid, i)
  BY <1>1, <1>2, <1>3, <1>5, <1>7 DEF T!CreateEntry, CreateEntry
<1>11. \A i : T!CheckForInode(a, i) = CheckForInode(a, i)
  BY <1>1 DEF T!CheckForInode, CheckForInode, T!Holding, Holding
<1>. QED  BY <1>2, <1>4, <1>6, <1>8, <1>9, <1>10, <1>11

(***************************************************************************)
(* The invariant of the tables, of which RamdiskProofs needs only Held:    *)
(* a process has one table, and one that nobody owns is empty.             *)
(***************************************************************************)
TablesInv(a) ==
  /\ Held(a)
  /\ \A t, u \in Tables : a[t].pid = a[u].pid => t = u \/ a[t].pid = NoPid
  /\ \A t \in Tables : a[t].pid = NoPid => Unused(a[t].table) = Slots

(* and the same invariant. *)
LEMMA TablesAre ==
  /\ T!IInv <=> TablesInv(fdtablea) /\ ret \in Int
  /\ T!IInv' <=> TablesInv(fdtablea') /\ ret' \in Int
BY SameSets
   DEF T!IInv, TablesInv, Held, GoodEntry, T!TablesTyped, T!EntriesConsistent, T!OneTablePerPid,
       T!UnownedTablesEmpty, T!Unused, Unused, FdTableArray

(* A descriptor is read in the same way, *)
LEMMA DescriptorIs ==
  ASSUME NEW pid \in Pids, NEW fd \in Slots
  PROVE  /\ T!Descriptor(pid, fd) = Descriptor(fdtablea, pid, fd)
         /\ T!Descriptor(pid, fd)' = Descriptor(fdtablea', pid, fd)
BY SameSets, SameOperators DEF T!Descriptor, Descriptor, InodeForFd, PositionForFd, CanSeek

(* and so are all of them, and the processes that have any. *)
LEMMA DescriptorsAre ==
  /\ T!AbstractOpen = Descriptors(fdtablea) /\ T!AbstractOpen' = Descriptors(fdtablea')
  /\ T!Known = {pid \in Pids : HasTable(fdtablea, pid)}
  /\ T!Known' = {pid \in Pids : HasTable(fdtablea', pid)}
BY SameSets, SameOperators, DescriptorIs DEF T!AbstractOpen, Descriptors, T!Known

(* What the instance assumes of its constants *)
LEMMA TFacts ==
  /\ T!NoPid \notin Pids /\ NUM_TABLES \in Nat \ {0} /\ TABLE_SIZE \in Nat \ {0}
  /\ Inums \subseteq Nat /\ T!Slots \subseteq Int /\ Int \subseteq Int
BY RamdiskAssumption DEF T!Slots, T!NoPid, NoPid, Inums

(* What a step means for OpenFiles it means for the descriptors of FileSystem. *)
LEMMA SameAbstract ==
  /\ \A S : T!Abstract!Cardinality(S) = Files!D!Cardinality(S)
  /\ \A S : T!Abstract!Min(S) = Files!D!Min(S)
<1>1. \A S : T!Abstract!Cardinality(S) = Files!D!Cardinality(S)
  BY DEF T!Abstract!Cardinality, Files!D!Cardinality
<1>2. \A S : T!Abstract!Min(S) = Files!D!Min(S)
  BY DEF T!Abstract!Min, Files!D!Min
<1>. QED  BY <1>1, <1>2

(* In particular when a descriptor is opened *)
LEMMA SameOpen ==
  ASSUME NEW pid \in Pids, NEW i \in Inums, T!Abstract!Open(pid, i),
         descriptors = Descriptors(fdtablea), descriptors' = Descriptors(fdtablea')
  PROVE  Files!D!Open(pid, i)
<1>1. T!AbstractOpen = descriptors /\ T!AbstractOpen' = descriptors'
  BY DescriptorsAre
<1>2. /\ T!Known = {p \in Pids : HasTable(fdtablea, p)}
      /\ T!Known' = {p \in Pids : HasTable(fdtablea', p)}
  BY DescriptorsAre
<1>3. /\ \A p : T!HasTable(fdtablea, p) <=> HasTable(fdtablea, p)
      /\ \A p : T!HasTable(fdtablea', p) <=> HasTable(fdtablea', p)
  BY SameOperators
<1>4. T!Slots = Slots /\ T!Abstract!Closed = Files!D!Closed
      /\ T!Abstract!Opened(i, 0) = Files!D!Opened(i, 0)
  BY SameSets DEF T!Abstract!Closed, Files!D!Closed, T!Abstract!Opened, Files!D!Opened
<1>5. T!Abstract!Vacant(pid) = Files!D!Vacant(pid)
  BY <1>1, <1>4 DEF T!Abstract!Vacant, Files!D!Vacant, T!AbstractOpen
<1>6. T!Abstract!Admitted(pid) <=> Files!D!Admitted(pid)
  BY <1>3, SameAbstract DEF T!Abstract!Admitted, Files!D!Admitted
<1>. QED
  BY <1>1, <1>2, <1>4, <1>5, <1>6, SameAbstract
  DEF T!Abstract!Open, Files!D!Open, T!AbstractOpen, T!Known

(* What descriptor fd of a process stands for *)
LEMMA DescriptorAt ==
  ASSUME TablesInv(fdtablea), descriptors = Descriptors(fdtablea), NEW pid \in Pids, NEW fd
  PROVE  /\ Files!D!IsOpen(pid, fd) <=> InodeOf(pid, fd) >= 0
         /\ Files!D!IsOpen(pid, fd) =>
              /\ fd \in Slots /\ HasTable(fdtablea, pid) /\ InodeOf(pid, fd) \in Inums
              /\ PositionOf(pid, fd) \in Int
              /\ descriptors[pid][fd] = [inode |-> InodeOf(pid, fd), offset |-> PositionOf(pid, fd)]
         /\ fd \in Slots /\ ~ Files!D!IsOpen(pid, fd) =>
              descriptors[pid][fd] = [inode |-> -1, offset |-> -1]
<1>1. CASE CanSeek(fdtablea, pid, fd)
  <2> DEFINE e == TableOf(fdtablea, pid)[fd]
  <2>1. /\ fd \in Slots /\ HasTable(fdtablea, pid)
        /\ InodeOf(pid, fd) = e.inode_num /\ PositionOf(pid, fd) = e.offset
    BY <1>1 DEF CanSeek, InodeOf, PositionOf, InodeForFd, PositionForFd
  <2>2. GoodEntry(e)
    BY <2>1, OwnedTable DEF TablesInv
  <2>3. descriptors[pid][fd] = IF e.being_used = 1 THEN [inode |-> e.inode_num, offset |-> e.offset]
                               ELSE [inode |-> -1, offset |-> -1]
    BY <2>1 DEF Descriptors, Descriptor, InodeOf, PositionOf
  <2> HIDE DEF e
  <2>4. e.being_used = 1 => e.inode_num >= 0 /\ e.inode_num # -1
    BY <2>2 DEF GoodEntry, Inums
  <2>5. e.being_used # 1 => ~ (e.inode_num >= 0)
    BY <2>2 DEF GoodEntry, NoInode
  <2>6. Files!D!IsOpen(pid, fd) <=> e.being_used = 1
    BY <2>1, <2>3, <2>4 DEF Files!D!IsOpen, Files!D!Closed
  <2>7. e.being_used = 1 => e.inode_num \in Inums /\ e.offset \in Int
    BY <2>2 DEF GoodEntry, Entry
  <2>. QED  BY <2>1, <2>3, <2>4, <2>5, <2>6, <2>7
<1>2. CASE ~ CanSeek(fdtablea, pid, fd)
  <2>1. InodeOf(pid, fd) = -1
    BY <1>2 DEF InodeOf, InodeForFd
  <2>2. fd \in Slots => descriptors[pid][fd] = [inode |-> -1, offset |-> -1]
    BY <1>2 DEF CanSeek, Descriptors, Descriptor
  <2>. QED  BY <2>1, <2>2 DEF Files!D!IsOpen, Files!D!Closed
<1>. QED  BY <1>1, <1>2

(* Moving a descriptor *)
LEMMA MoveStep ==
  ASSUME TablesInv(fdtablea), ret \in Int, ret' \in Int, NEW pid \in Pids, NEW fd,
         NEW offset \in Int, MoveTo(pid, fd, offset),
         descriptors = Descriptors(fdtablea), descriptors' = Descriptors(fdtablea')
  PROVE  /\ TablesInv(fdtablea')
         /\ {p \in Pids : HasTable(fdtablea', p)} = {p \in Pids : HasTable(fdtablea, p)}
         /\ ~ Files!D!IsOpen(pid, fd) => descriptors' = descriptors
         /\ Files!D!IsOpen(pid, fd) =>
              descriptors' = [descriptors EXCEPT ![pid][fd].offset = offset]
<1>1. CASE ~ CanSeek(fdtablea, pid, fd)
  <2>1. fdtablea' = fdtablea
    BY <1>1 DEF MoveTo, SeekWithFd
  <2>2. ~ Files!D!IsOpen(pid, fd)
    BY <1>1, DescriptorAt DEF CanSeek
  <2>. QED  BY <2>1, <2>2
<1>2. CASE CanSeek(fdtablea, pid, fd)
  <2> DEFINE e == SeekEntry(TableOf(fdtablea, pid)[fd], offset)
             o == TableOf(fdtablea, pid)[fd]
  <2>1. fd \in Slots /\ HasTable(fdtablea, pid)
    BY <1>2 DEF CanSeek
  <2>2. GoodEntry(o)
    BY <2>1, OwnedTable DEF TablesInv
  <2>3. /\ e \in Entry /\ e.being_used = o.being_used /\ e.inode_num = o.inode_num
        /\ e.offset = offset
        /\ IF e.being_used = 1 THEN e.inode_num \in Inums ELSE e.inode_num = NoInode
    <3> HIDE DEF o
    <3>. QED  BY <2>2 DEF GoodEntry, Entry, SeekEntry, o
  <2>4. fdtablea' = Update(fdtablea, pid, [TableOf(fdtablea, pid) EXCEPT ![fd] = e])
    BY <1>2 DEF MoveTo, SeekWithFd
  <2> HIDE DEF e, o
  <2>5. T!IInv
    BY TablesAre
  <2>6. /\ T!HasTable(fdtablea, pid) /\ fd \in T!Slots /\ e \in T!Entry
        /\ IF e.being_used = 1 THEN e.inode_num \in Inums ELSE e.inode_num = T!NoInode
        /\ fdtablea' = T!Update(fdtablea, pid, [T!TableOf(fdtablea, pid) EXCEPT ![fd] = e])
    BY <2>1, <2>3, <2>4, SameSets, SameOperators
  <2>7. /\ T!IInv' /\ T!Known' = T!Known
        /\ T!AbstractOpen' = [T!AbstractOpen EXCEPT ![pid][fd] = T!EntryDescriptor(e)]
    BY <2>5, <2>6, TFacts, T!ReplaceEntry DEF T!ReplaceEntry
  <2>8. descriptors' = [descriptors EXCEPT ![pid][fd] = T!EntryDescriptor(e)]
    BY <2>7, DescriptorsAre
  <2>9. descriptors = [p \in Pids |-> [s \in Slots |-> descriptors[p][s]]]
    BY DEF Descriptors
  <2>10. Files!D!IsOpen(pid, fd) =>
           /\ o.being_used = 1 /\ descriptors[pid][fd].inode = o.inode_num
           /\ descriptors[pid][fd] = [inode |-> o.inode_num, offset |-> o.offset]
    BY <2>1, <2>2, DescriptorAt
    DEF InodeOf, PositionOf, InodeForFd, PositionForFd, o, CanSeek, GoodEntry, NoInode, Inums
  <2>11. ~ Files!D!IsOpen(pid, fd) =>
           o.being_used # 1 /\ descriptors[pid][fd] = [inode |-> -1, offset |-> -1]
    <3>1. o.being_used = 1 => o.inode_num >= 0
      BY <2>2 DEF GoodEntry, Inums
    <3>. QED  BY <2>1, <3>1, DescriptorAt DEF InodeOf, InodeForFd, o, CanSeek
  <2>12. Files!D!IsOpen(pid, fd) =>
          T!EntryDescriptor(e) = [descriptors[pid][fd] EXCEPT !.offset = offset]
    BY <2>3, <2>10 DEF T!EntryDescriptor
  <2>13. ~ Files!D!IsOpen(pid, fd) => T!EntryDescriptor(e) = descriptors[pid][fd]
    BY <2>3, <2>11 DEF T!EntryDescriptor
  <2>14. TablesInv(fdtablea')
    BY <2>7, TablesAre
  <2>15. {p \in Pids : HasTable(fdtablea', p)} = {p \in Pids : HasTable(fdtablea, p)}
    BY <2>7, DescriptorsAre
  <2>16. ~ Files!D!IsOpen(pid, fd) => descriptors' = descriptors
    <3>1. descriptors[pid] = [s \in Slots |-> descriptors[pid][s]]
      BY <2>9
    <3>2. [descriptors[pid] EXCEPT ![fd] = descriptors[pid][fd]] = descriptors[pid]
      BY <2>1, <3>1
    <3>3. [descriptors EXCEPT ![pid] = descriptors[pid]] = descriptors
      BY <2>9
    <3>. QED  BY <2>8, <2>13, <3>2, <3>3
  <2>17. Files!D!IsOpen(pid, fd) => descriptors' = [descriptors EXCEPT ![pid][fd].offset = offset]
    BY <2>1, <2>8, <2>9, <2>12
  <2>. QED  BY <2>14, <2>15, <2>16, <2>17
<1>. QED  BY <1>1, <1>2

(* Closing a descriptor, also when there is none *)
LEMMA CloseStep ==
  ASSUME TablesInv(fdtablea), ret \in Int, NEW pid \in Pids, NEW fd \in Int,
         rd_close(pid, fd),
         descriptors = Descriptors(fdtablea), descriptors' = Descriptors(fdtablea')
  PROVE  TablesInv(fdtablea') /\ Files!D!Close(pid, fd)
<1>1. T!IInv
  BY TablesAre
<1>2. T!Returns(T!RemoveAtFd(fdtablea, pid, fd))
  BY SameOperators DEF T!Returns, rd_close
<1>3. T!IInv' /\ T!Abstract!Close(pid, fd)
  BY <1>1, <1>2, TFacts, T!RemoveStep DEF T!RemoveStep
<1>4. T!AbstractOpen = descriptors /\ T!AbstractOpen' = descriptors'
  BY DescriptorsAre
<1>5. /\ T!Known = {p \in Pids : HasTable(fdtablea, p)}
      /\ T!Known' = {p \in Pids : HasTable(fdtablea', p)}
  BY DescriptorsAre
<1>6. T!Slots = Slots /\ T!Abstract!Closed = Files!D!Closed
  BY SameSets DEF T!Abstract!Closed, Files!D!Closed
<1>7. T!Abstract!IsOpen(pid, fd) <=> Files!D!IsOpen(pid, fd)
  BY <1>4, <1>6 DEF T!Abstract!IsOpen, Files!D!IsOpen, T!AbstractOpen
<1>8. Files!D!Close(pid, fd)
  BY <1>3, <1>4, <1>5, <1>6, <1>7 DEF T!Abstract!Close, Files!D!Close, T!AbstractOpen, T!Known
<1>. QED  BY <1>3, <1>8, TablesAre

(* At the start every descriptor is closed. *)
LEMMA StartTables ==
  /\ TablesInv(InitialTables)
  /\ Descriptors(InitialTables)
       = [pid \in Pids |-> [fd \in Slots |-> [inode |-> -1, offset |-> -1]]]
  /\ {pid \in Pids : HasTable(InitialTables, pid)} = {}
<1>1. Held(InitialTables)
  BY InitialHeld
<1>2. \A t \in Tables : InitialTables[t].pid = NoPid /\ Unused(InitialTables[t].table) = Slots
  BY DEF InitialTables, Unused, UnusedEntry
<1>3. \A pid \in Pids : ~ HasTable(InitialTables, pid)
  BY <1>2, RamdiskAssumption DEF HasTable, OwnedBy
<1>. QED  BY <1>1, <1>2, <1>3 DEF TablesInv, Descriptors, Descriptor

(* The search for an inode succeeds if some process has it open. *)
LEMMA InodeIsHeld ==
  ASSUME TablesInv(fdtablea), ret \in Int, descriptors = Descriptors(fdtablea), NEW i \in Inums
  PROVE  CheckForInode(fdtablea, i) = 1 <=> Files!Held(i)
<1>1. T!IInv
  BY TablesAre
<1>2. T!CheckForInode(fdtablea, i)
           = IF \E p \in Pids : T!Abstract!WithInode(p, i) # {} THEN 1 ELSE -1
  BY <1>1, TFacts, T!CheckResult DEF T!CheckResult
<1>3. T!Slots = Slots /\ T!AbstractOpen = descriptors
  BY SameSets, DescriptorsAre
<1>4. \A p \in Pids : T!Abstract!WithInode(p, i) = Files!D!WithInode(p, i)
  BY <1>3 DEF T!Abstract!WithInode, Files!D!WithInode, T!AbstractOpen
<1>5. \A p \in Pids : Files!D!WithInode(p, i) # {} => HasTable(fdtablea, p)
  <2>1. i # -1 /\ ~ (i < 0)
    BY DEF Inums
  <2>. QED  BY <2>1 DEF Files!D!WithInode, Descriptors, Descriptor
<1>6. ~ (i < 0)
  BY DEF Inums
<1>. QED  BY <1>2, <1>4, <1>5, <1>6, SameOperators DEF Files!Held

(* Whether the search for no inode succeeds: unless everything is open. *)
LEMMA NoInodeIsHeld ==
  ASSUME TablesInv(fdtablea), ret \in Int, descriptors = Descriptors(fdtablea)
  PROVE  CheckForInode(fdtablea, -1) = 1 <=> ~ Files!AllOpen
<1> DEFINE known == {p \in Pids : HasTable(fdtablea, p)}
<1>1. CheckForInode(fdtablea, -1) = 1
        <=> \E t \in Tables, s \in Slots : fdtablea[t].table[s].inode_num = -1
  BY DEF CheckForInode, Holding
<1>2. \A t \in Tables, s \in Slots :
        fdtablea[t].table[s].inode_num = -1 <=> fdtablea[t].table[s].being_used # 1
  BY DEF TablesInv, Held, GoodEntry, NoInode, Inums
<1>3. Files!Cardinality(known) = NUM_TABLES <=> ~ HasTable(fdtablea, NoPid)
  <2>1. T!IInv
    BY TablesAre
  <2>2. T!Cardinality(T!Known) = NUM_TABLES <=> ~ T!HasTable(fdtablea, T!NoPid)
    BY <2>1, TFacts, T!KnownCounted DEF T!KnownCounted
  <2>3. T!Cardinality(T!Known) = Files!Cardinality(T!Known)
    BY DEF T!Cardinality, Files!Cardinality
  <2>. QED  BY <2>2, <2>3, DescriptorsAre, SameSets, SameOperators
<1>4. \A p \in known, s \in Slots :
        s \in Files!D!Vacant(p) <=> TableOf(fdtablea, p)[s].being_used # 1
  <2>1. TAKE p \in known, s \in Slots
  <2> DEFINE e == TableOf(fdtablea, p)[s]
  <2>2. GoodEntry(e)
    BY OwnedTable DEF TablesInv
  <2>3. descriptors[p][s] = IF e.being_used = 1
                            THEN [inode |-> InodeOf(p, s), offset |-> PositionOf(p, s)]
                            ELSE [inode |-> -1, offset |-> -1]
    BY DEF Descriptors, Descriptor, InodeOf, PositionOf
  <2>4. InodeOf(p, s) = e.inode_num
    BY DEF InodeOf, InodeForFd, CanSeek
  <2> HIDE DEF e
  <2>5. e.being_used = 1 => InodeOf(p, s) # -1
    BY <2>2, <2>4 DEF GoodEntry, Inums
  <2>6. s \in Files!D!Vacant(p) <=> e.being_used # 1
    BY <2>3, <2>5 DEF Files!D!Vacant, Files!D!Closed
  <2>. QED  BY <2>6 DEF e
<1>5. ASSUME ~ Files!AllOpen
      PROVE  \E t \in Tables, s \in Slots : fdtablea[t].table[s].being_used # 1
  <2>1. CASE HasTable(fdtablea, NoPid)
    <3>1. PICK t \in Tables : fdtablea[t].pid = NoPid
      BY <2>1 DEF HasTable, OwnedBy
    <3>2. 0 \in Slots /\ 0 \in Unused(fdtablea[t].table)
      BY <3>1, RamdiskAssumption DEF TablesInv, Slots
    <3>. QED  BY <3>2 DEF Unused
  <2>2. CASE ~ HasTable(fdtablea, NoPid)
    <3>1. PICK p \in known : Files!D!Vacant(p) # {}
      BY <1>3, <1>5, <2>2 DEF Files!AllOpen
    <3>2. PICK s \in Slots : TableOf(fdtablea, p)[s].being_used # 1
      BY <1>4, <3>1 DEF Files!D!Vacant
    <3>3. Min(OwnedBy(fdtablea, p)) \in Tables
      BY OwnedTable DEF TablesInv
    <3>. QED  BY <3>2, <3>3 DEF TableOf
  <2>. QED  BY <2>1, <2>2
<1>6. ASSUME NEW t \in Tables, NEW s \in Slots, fdtablea[t].table[s].being_used # 1
      PROVE  ~ Files!AllOpen
  <2>1. CASE fdtablea[t].pid = NoPid
    <3>1. HasTable(fdtablea, NoPid)
      BY <2>1 DEF HasTable, OwnedBy
    <3>. QED  BY <1>3, <3>1 DEF Files!AllOpen
  <2>2. CASE fdtablea[t].pid # NoPid
    <3> DEFINE p == fdtablea[t].pid
    <3>1. p \in Pids
      BY <2>2 DEF TablesInv, Held, FdTableArray
    <3>2. p \in known
      BY <3>1 DEF HasTable, OwnedBy
    <3>3. Min(OwnedBy(fdtablea, p)) = t
      BY <2>2, <3>2, OwnedTable DEF TablesInv
    <3>4. s \in Files!D!Vacant(p)
      BY <1>4, <1>6, <3>2, <3>3 DEF TableOf
    <3>. QED  BY <3>2, <3>4 DEF Files!AllOpen
  <2>. QED  BY <2>1, <2>2
<1>. QED  BY <1>1, <1>2, <1>5, <1>6

-----------------------------------------------------------------------------
(* What can be reached, in the words of the mapping *)
LEMMA ReachableIs ==
  ASSUME NEW rd, DiskInv(rd)
  PROVE  Reachable(rd) = {i \in Inums : Reached(rd, i)}
<1>1. \A known \in SUBSET Inums : known \in ClosedUnder(Links(rd)) <=> Closed(rd, known)
  <2>1. TAKE known \in SUBSET Inums
  <2>2. ASSUME known \in ClosedUnder(Links(rd)), NEW d \in Directories(rd),
               NEW p \in Positions(rd, d), d \in known
        PROVE  DirCell(rd, d, p).data \in known
    <3>1. <<d, p>> \in EntryPlaces(rd) /\ EntryAt(rd, <<d, p>>) = DirCell(rd, d, p)
      BY EntriesAt
    <3>2. <<d, DirCell(rd, d, p).data>> \in Links(rd)
      BY <3>1 DEF Links
    <3>. QED  BY <2>2, <3>2 DEF ClosedUnder
  <2>3. ASSUME Closed(rd, known), NEW l \in Links(rd), l[1] \in known
        PROVE  l[2] \in known
    <3>1. PICK x \in EntryPlaces(rd) : l = <<x[1], EntryAt(rd, x).data>>
      BY DEF Links
    <3>. QED  BY <2>3, <3>1, EntriesAt DEF Closed
  <2>. QED  BY <2>2, <2>3 DEF ClosedUnder, Closed
<1>2. \A known \in ClosedUnder(Links(rd)) : known \in SUBSET Inums
  BY DEF ClosedUnder
<1>. QED  BY <1>1, <1>2 DEF Reachable, Reached

(* What the tree says of a node *)
AbsentNode == [kind |-> "absent"]

(* A node that can be reached is what its inode says. *)
LEMMA ShownNode ==
  ASSUME NEW rd, DiskInv(rd), NEW i \in Inums
  PROVE  /\ ~ Reached(rd, i) => Shows(rd)[i] = AbsentNode
         /\ Reached(rd, i) /\ i \in Directories(rd) =>
              Shows(rd)[i] = [kind |-> "dir", entries |-> EntriesOf(rd, i)]
         /\ Reached(rd, i) /\ i \notin Directories(rd) => Shows(rd)[i] = FileOf(rd, i)
BY ReachableIs DEF Shows, Tree, NodeOf, AbsentNode, Directories

(* The entries of a directory as a function of their names *)
EntryNames(rd, d) == {DirCell(rd, d, p).name : p \in Positions(rd, d)}
EntryData(rd, d)  == {DirCell(rd, d, p).data : p \in Positions(rd, d)}

(* The mapping finds each entry of a directory by its name. *)
LEMMA EntriesOfIs ==
  ASSUME NEW rd, DiskInv(rd), NEW d \in Directories(rd)
  PROVE  /\ DOMAIN EntriesOf(rd, d) = EntryNames(rd, d)
         /\ EntriesOf(rd, d) = [name \in EntryNames(rd, d) |-> EntriesOf(rd, d)[name]]
         /\ \A p \in Positions(rd, d) :
              EntriesOf(rd, d)[DirCell(rd, d, p).name] = DirCell(rd, d, p).data
         /\ Range(EntriesOf(rd, d)) = EntryData(rd, d)
<1> DEFINE entries == {EntryAt(rd, <<d, p>>) : p \in 0 .. rd.inodes[d].size - 1}
<1>1. entries = {DirCell(rd, d, p) : p \in Positions(rd, d)}
  <2>1. \A p \in Positions(rd, d) : EntryAt(rd, <<d, p>>) = DirCell(rd, d, p)
    BY EntriesAt
  <2>. QED  BY <2>1 DEF Positions
<1>2. {e.name : e \in entries} = EntryNames(rd, d)
  BY <1>1 DEF EntryNames
<1>3. \A p, q \in Positions(rd, d) :
        DirCell(rd, d, p).name = DirCell(rd, d, q).name => p = q
  BY DiskInvTypes DEF InOrder, NamesDiffer, Positions
<1>4. EntriesOf(rd, d) = [name \in EntryNames(rd, d) |->
                            (CHOOSE e \in entries : e.name = name).data]
  BY <1>2 DEF EntriesOf
<1> HIDE DEF entries
<1>5. ASSUME NEW p \in Positions(rd, d)
      PROVE  /\ DirCell(rd, d, p).name \in EntryNames(rd, d)
             /\ EntriesOf(rd, d)[DirCell(rd, d, p).name] = DirCell(rd, d, p).data
  <2> DEFINE c == DirCell(rd, d, p)
             e == CHOOSE x \in entries : x.name = c.name
  <2>1. c \in entries /\ c.name \in EntryNames(rd, d)
    BY <1>1 DEF EntryNames
  <2>2. e \in entries /\ e.name = c.name
    BY <2>1
  <2>3. PICK q \in Positions(rd, d) : e = DirCell(rd, d, q)
    BY <1>1, <2>2
  <2>4. e = c
    BY <1>3, <2>2, <2>3
  <2>. QED  BY <1>4, <2>1, <2>4
<1>6. Range(EntriesOf(rd, d)) = EntryData(rd, d)
  <2>1. \A x \in EntryData(rd, d) : x \in Range(EntriesOf(rd, d))
    BY <1>4, <1>5 DEF EntryData, Range
  <2>2. \A x \in Range(EntriesOf(rd, d)) : x \in EntryData(rd, d)
    BY <1>4, <1>5 DEF EntryData, EntryNames, Range
  <2>. QED  BY <2>1, <2>2
<1>. QED  BY <1>4, <1>5, <1>6

(* The entries that a reader of a directory sees *)
LEMMA EntriesInIs ==
  ASSUME NEW rd, DiskInv(rd), NEW d
  PROVE  EntriesIn(Shows(rd), d) = IF d \in Directories(rd) THEN EntryData(rd, d) ELSE {}
<1>1. CASE d \notin Directories(rd)
  <2>1. d \in Inums => Shows(rd)[d] \in {AbsentNode, FileOf(rd, d)}
    BY <1>1, ShownNode
  <2>2. AbsentNode.kind # "dir" /\ FileOf(rd, d).kind # "dir"
    BY DEF AbsentNode, FileOf
  <2>. QED  BY <1>1, <2>1, <2>2 DEF EntriesIn
<1>2. CASE d \in Directories(rd) /\ Reached(rd, d)
  <2>1. d \in Inums
    BY <1>2 DEF Directories
  <2>2. Shows(rd)[d] = [kind |-> "dir", entries |-> EntriesOf(rd, d)]
    BY <1>2, <2>1, ShownNode
  <2>. QED  BY <1>2, <2>1, <2>2, EntriesOfIs DEF EntriesIn
<1>3. CASE d \in Directories(rd) /\ ~ Reached(rd, d)
  <2>1. d \in Inums
    BY <1>3 DEF Directories
  <2>2. Shows(rd)[d] = AbsentNode
    BY <1>3, <2>1, ShownNode
  <2>3. Positions(rd, d) = {}
    <3>1. rd.inodes[d].size \in Nat /\ ~ (rd.inodes[d].size > 0)
      BY <1>3, <2>1, DiskInvTypes DEF DiskInv, RootedTree
    <3>. QED  BY <3>1 DEF Positions
  <2>4. EntryData(rd, d) = {}
    BY <2>3 DEF EntryData
  <2>. QED  BY <1>3, <2>2, <2>4 DEF EntriesIn, AbsentNode
<1>. QED  BY <1>1, <1>2, <1>3

-----------------------------------------------------------------------------
(* Opening a descriptor *)
LEMMA OpenStep ==
  ASSUME TablesInv(fdtablea), ret \in Int, NEW pid \in Pids, NEW i \in Inums,
         fdtablea' = CreateEntry(fdtablea, pid, i).tables,
         ret' = CreateEntry(fdtablea, pid, i).fd,
         descriptors = Descriptors(fdtablea), descriptors' = Descriptors(fdtablea')
  PROVE  TablesInv(fdtablea') /\ Files!D!Open(pid, i)
<1>1. T!IInv
  BY TablesAre
<1>2. T!a_createentry(pid, i)
  BY SameOperators DEF T!a_createentry
<1>3. T!IInv' /\ T!Abstract!Open(pid, i)
  BY <1>1, <1>2, TFacts, T!CreateStep DEF T!CreateStep
<1>. QED  BY <1>3, SameOpen, TablesAre

(***************************************************************************)
(* What a step may do to a descriptor: nothing, close it, open it, move it *)
(* past an entry of a directory, or move it along a file.                  *)
(***************************************************************************)
Passes(r, s) ==
  /\ Goes(r, s) /\ s.offset = r.offset + 1 /\ ret' = 1
  /\ RAMDISK' = RAMDISK /\ r.inode \in Directories(RAMDISK)
  /\ r.offset >= 0 /\ r.offset # RAMDISK.inodes[r.inode].size
  /\ GetBlock(RAMDISK, RAMDISK.inodes[r.inode], r.offset) # NULL

Handled(r, s) ==
  \/ s = r
  \/ s = NoReader
  \/ r = NoReader /\ s.offset = 0
  \/ Passes(r, s)
  \/ /\ Goes(r, s) /\ r.offset >= 0
     /\ r.inode \notin Directories(RAMDISK) /\ r.inode \notin Directories(RAMDISK')

AllHandled ==
  \A pid \in Pids, fd \in Slots : Handled(descriptors[pid][fd], descriptors'[pid][fd])

(* The descriptors are those in the tables. *)
ReadersInv ==
  /\ IInv /\ TablesInv(fdtablea)
  /\ tree = Shows(RAMDISK) /\ descriptors = Descriptors(fdtablea)

(* A call that leaves the descriptors alone *)
LEMMA SameHandled ==
  ASSUME descriptors' = descriptors
  PROVE  AllHandled
BY DEF AllHandled, Handled

(* A closed descriptor has no reader. *)
LEMMA ClosedIs == Files!D!Closed = NoReader
BY DEF Files!D!Closed, NoReader

(* rd_open takes a closed descriptor. *)
LEMMA OpenHandled ==
  ASSUME ReadersInv, NEW pid \in Pids, NEW i \in Inums, Files!D!Open(pid, i)
  PROVE  AllHandled
<1>1. CASE descriptors' = descriptors
  BY <1>1, SameHandled
<1>2. CASE descriptors' # descriptors
  <2> DEFINE m == Files!D!Min(Files!D!Vacant(pid))
  <2>1. /\ Files!D!Vacant(pid) # {}
        /\ descriptors' = [descriptors EXCEPT ![pid][m] = [inode |-> i, offset |-> 0]]
    BY <1>2 DEF Files!D!Open, Files!D!Opened
  <2>2. m \in Files!D!Vacant(pid)
    <3>1. Files!D!Vacant(pid) \in SUBSET Nat
      BY RamdiskAssumption DEF Files!D!Vacant, Slots
    <3>2. Min(Files!D!Vacant(pid)) \in Files!D!Vacant(pid)
      BY <2>1, <3>1, MinIsLeast
    <3>. QED  BY <3>2 DEF Files!D!Min, Min
  <2>3. m \in Slots /\ descriptors[pid][m] = NoReader
    BY <2>2, ClosedIs DEF Files!D!Vacant
  <2>4. descriptors = [p \in Pids |-> [s \in Slots |-> descriptors[p][s]]]
    BY DEF ReadersInv, Descriptors
  <2> HIDE DEF m
  <2>5. ASSUME NEW p \in Pids, NEW s \in Slots
        PROVE  descriptors'[p][s] = IF p = pid /\ s = m THEN [inode |-> i, offset |-> 0]
                                    ELSE descriptors[p][s]
    BY <2>1, <2>3, <2>4
  <2>. QED  BY <2>3, <2>5 DEF AllHandled, Handled
<1>. QED  BY <1>1, <1>2

(* rd_close closes one. *)
LEMMA CloseHandled ==
  ASSUME ReadersInv, NEW pid \in Pids, NEW fd, Files!D!Close(pid, fd)
  PROVE  AllHandled
<1>1. CASE Files!D!IsOpen(pid, fd)
  <2>1. descriptors' = [descriptors EXCEPT ![pid][fd] = NoReader]
    BY <1>1, ClosedIs DEF Files!D!Close
  <2>2. descriptors = [p \in Pids |-> [s \in Slots |-> descriptors[p][s]]]
    BY DEF ReadersInv, Descriptors
  <2>3. ASSUME NEW p \in Pids, NEW s \in Slots
        PROVE  descriptors'[p][s] = IF p = pid /\ s = fd THEN NoReader ELSE descriptors[p][s]
    BY <1>1, <2>1, <2>2 DEF Files!D!IsOpen
  <2>. QED  BY <2>3 DEF AllHandled, Handled
<1>2. CASE ~ Files!D!IsOpen(pid, fd)
  BY <1>2, SameHandled DEF Files!D!Close
<1>. QED  BY <1>1, <1>2

(* The calls that move a descriptor *)
LEMMA MoveHandled ==
  ASSUME ReadersInv, NEW pid \in Pids, NEW fd, NEW offset \in Int, ret' \in Int,
         MoveTo(pid, fd, offset), descriptors' = Descriptors(fdtablea'),
         InodeOf(pid, fd) >= 0, PositionOf(pid, fd) >= 0,
         \/ /\ InodeOf(pid, fd) \in Directories(RAMDISK) /\ RAMDISK' = RAMDISK /\ ret' = 1
            /\ offset = PositionOf(pid, fd) + 1
            /\ PositionOf(pid, fd) # RAMDISK.inodes[InodeOf(pid, fd)].size
            /\ GetBlock(RAMDISK, RAMDISK.inodes[InodeOf(pid, fd)], PositionOf(pid, fd)) # NULL
         \/ /\ InodeOf(pid, fd) \notin Directories(RAMDISK)
            /\ InodeOf(pid, fd) \notin Directories(RAMDISK')
  PROVE  TablesInv(fdtablea') /\ AllHandled
<1>1. Files!D!IsOpen(pid, fd)
  BY DescriptorAt DEF ReadersInv
<1>2. /\ fd \in Slots /\ InodeOf(pid, fd) \in Inums
      /\ descriptors[pid][fd] = [inode |-> InodeOf(pid, fd), offset |-> PositionOf(pid, fd)]
  BY <1>1, DescriptorAt DEF ReadersInv
<1>3. /\ TablesInv(fdtablea')
      /\ descriptors' = [descriptors EXCEPT ![pid][fd].offset = offset]
  <2>1. ret \in Int
    BY DEF ReadersInv, IInv
  <2>. QED  BY <1>1, <2>1, MoveStep DEF ReadersInv
<1>4. descriptors = [p \in Pids |-> [s \in Slots |-> descriptors[p][s]]]
  BY DEF ReadersInv, Descriptors
<1> DEFINE r == descriptors[pid][fd]
<1>5. ASSUME NEW p \in Pids, NEW s \in Slots
      PROVE  descriptors'[p][s] = IF p = pid /\ s = fd THEN [r EXCEPT !.offset = offset]
                                  ELSE descriptors[p][s]
  BY <1>2, <1>3, <1>4
<1>6. [r EXCEPT !.offset = offset] = [inode |-> r.inode, offset |-> offset]
  BY <1>2
<1>7. r # NoReader
  BY <1>2 DEF NoReader, Inums
<1>8. Handled(r, [inode |-> r.inode, offset |-> offset])
  BY <1>2, <1>7 DEF Handled, Passes, Goes
<1> HIDE DEF r
<1>9. AllHandled
  BY <1>5, <1>6, <1>8 DEF AllHandled, Handled, r
<1>. QED  BY <1>3, <1>9

(***************************************************************************)
(* What each call does to the tables and the descriptors                   *)
(***************************************************************************)
WellHandled == TablesInv(fdtablea') /\ AllHandled

(* A call that leaves the tables alone *)
LEMMA SameTables ==
  ASSUME ReadersInv, fdtablea' = fdtablea, descriptors' = Descriptors(fdtablea')
  PROVE  WellHandled
BY SameHandled DEF ReadersInv, WellHandled

(* rd_init *)
LEMMA InitWell ==
  ASSUME ReadersInv, fdtablea' = InitialTables, descriptors' = Descriptors(fdtablea')
  PROVE  WellHandled
BY StartTables DEF WellHandled, AllHandled, Handled, NoReader

(* rd_open *)
LEMMA OpenWell ==
  ASSUME ReadersInv, NEW pid \in Pids, NEW path \in Paths, rd_open(pid, path),
         descriptors' = Descriptors(fdtablea')
  PROVE  WellHandled
<1> DEFINE idx == WalkPath(RAMDISK, path)
<1>1. CASE idx < 0
  BY <1>1, SameTables DEF rd_open, Answer
<1>2. CASE ~ (idx < 0)
  <2>1. /\ fdtablea' = CreateEntry(fdtablea, pid, idx).tables
        /\ ret' = CreateEntry(fdtablea, pid, idx).fd
    BY <1>2 DEF rd_open
  <2>2. idx \in Inums
    <3>1. path \in Seq(Labels) /\ DiskInv(RAMDISK)
      BY PathLabels DEF ReadersInv, IInv
    <3>2. Leads(RAMDISK, idx)
      BY <3>1, WalkLeads
    <3>. QED  BY <1>2, <3>2 DEF Leads
  <2> HIDE DEF idx
  <2>3. TablesInv(fdtablea') /\ Files!D!Open(pid, idx)
    BY <2>1, <2>2, OpenStep DEF ReadersInv, IInv
  <2>. QED  BY <2>2, <2>3, OpenHandled DEF WellHandled
<1>. QED  BY <1>1, <1>2

(* rd_close *)
LEMMA CloseWell ==
  ASSUME ReadersInv, NEW pid \in Pids, NEW fd \in Fds, rd_close(pid, fd),
         descriptors' = Descriptors(fdtablea')
  PROVE  WellHandled
<1>1. fd \in Int
  BY RamdiskAssumption
<1>2. TablesInv(fdtablea') /\ Files!D!Close(pid, fd)
  BY <1>1, CloseStep DEF ReadersInv, IInv
<1>. QED  BY <1>2, CloseHandled DEF WellHandled

(* rd_readdir *)
LEMMA ReaddirWell ==
  ASSUME ReadersInv, NEW pid \in Pids, NEW fd, rd_readdir(pid, fd),
         descriptors' = Descriptors(fdtablea')
  PROVE  WellHandled
<1> DEFINE i   == InodeOf(pid, fd)
           pos == PositionOf(pid, fd)
<1>1. CASE \E r \in {-1, 0} : Answer(r)
  BY <1>1, SameTables DEF Answer
<1>2. CASE /\ Usable(pid, fd, DIR) /\ pos # RAMDISK.inodes[i].size
           /\ GetBlock(RAMDISK, RAMDISK.inodes[i], pos) # NULL
           /\ MoveTo(pid, fd, pos + 1) /\ ret' = 1 /\ RAMDISK' = RAMDISK
  <2>1. i \in Directories(RAMDISK) /\ pos + 1 \in Int
    <3>1. i \in Inums /\ pos \in Int
      BY <1>2, UsableTypes DEF Usable, ReadersInv
    <3>. QED  BY <1>2, <3>1 DEF Usable, Directories
  <2>. QED  BY <1>2, <2>1, MoveHandled DEF Usable, WellHandled
<1>. QED  BY <1>1, <1>2 DEF rd_readdir

(* rd_read *)
LEMMA ReadWell ==
  ASSUME ReadersInv, NEW pid \in Pids, NEW fd, NEW n \in ReadLens, rd_read(pid, fd, n),
         descriptors' = Descriptors(fdtablea')
  PROVE  WellHandled
<1> DEFINE node  == RAMDISK.inodes[InodeOf(pid, fd)]
           pos   == PositionOf(pid, fd)
           total == Lesser(n, node.size - pos)
<1>1. CASE \E r \in {-1, 0} : Answer(r)
  BY <1>1, SameTables DEF Answer
<1>2. CASE /\ Usable(pid, fd, FILE)
           /\ MoveTo(pid, fd, pos + total) /\ ret' = total /\ RAMDISK' = RAMDISK
  <2>1. n \in Nat
    BY RamdiskAssumption
  <2>2. pos \in Int /\ node.size \in Nat /\ node.type = FILE
    BY <1>2, UsableTypes DEF Usable, ReadersInv
  <2>3. InodeOf(pid, fd) \notin Directories(RAMDISK)
    BY <2>2 DEF Directories, FILE, DIR
  <2> HIDE DEF pos, node
  <2>4. total \in Int /\ pos + total \in Int
    BY <2>1, <2>2 DEF Lesser
  <2> HIDE DEF total
  <2>. QED  BY <1>2, <2>3, <2>4, MoveHandled DEF Usable, WellHandled
<1>. QED  BY <1>1, <1>2 DEF rd_read

(* rd_write *)
LEMMA WriteWell ==
  ASSUME ReadersInv, NEW pid \in Pids, NEW fd \in Fds, NEW n \in WriteLens, NEW v \in Data,
         rd_write(pid, fd, n, v), descriptors' = Descriptors(fdtablea')
  PROVE  WellHandled
<1> DEFINE i   == InodeOf(pid, fd)
           pos == PositionOf(pid, fd)
           w   == Write(RAMDISK, i, pos, n, v)
<1>1. CASE ~ Usable(pid, fd, FILE)
  BY <1>1, SameTables DEF rd_write, Answer
<1>2. CASE Usable(pid, fd, FILE)
  <2>1. n \in Nat
    BY RamdiskAssumption
  <2>2. i \in Inums /\ pos \in Nat /\ RAMDISK.inodes[i].type = FILE
    BY <1>2, UsableTypes DEF Usable, ReadersInv
  <2>3. Sound(RAMDISK)
    BY DiskInvTypes DEF IInv, ReadersInv
  <2>4. /\ RAMDISK' = w.rd
        /\ IF w.failed THEN ret' = -1 /\ fdtablea' = fdtablea
           ELSE ret' = n /\ MoveTo(pid, fd, w.pos)
    BY <1>2 DEF rd_write
  <2>5. i = InodeOf(pid, fd) /\ i >= 0 /\ PositionOf(pid, fd) >= 0
    BY <1>2 DEF Usable
  <2> HIDE DEF i, pos
  <2>6. Writing(RAMDISK, w, i)
    BY <2>1, <2>2, <2>3, WriteResult
  <2> HIDE DEF w
  <2>7. /\ w.pos \in Int
        /\ i \notin Directories(RAMDISK) /\ i \notin Directories(RAMDISK')
    BY <2>2, <2>4, <2>6 DEF Writing, Wrote, Directories, FILE, DIR
  <2>8. CASE w.failed
    BY <2>4, <2>8, SameTables
  <2>9. CASE ~ w.failed
    <3>1. MoveTo(pid, fd, w.pos) /\ ret' \in Int
      BY <2>1, <2>4, <2>9
    <3>. QED  BY <2>5, <2>7, <3>1, MoveHandled DEF WellHandled
  <2>. QED  BY <2>8, <2>9
<1>. QED  BY <1>1, <1>2

(* rd_seek moves a descriptor at will. *)
Seeks == \E pid \in Pids, fd \in Fds, offset \in SeekOffsets : rd_seek(pid, fd, offset)

LEMMA SeekWell ==
  ASSUME ReadersInv, Seeks, descriptors' = Descriptors(fdtablea')
  PROVE  TablesInv(fdtablea')
<1>1. PICK pid \in Pids, fd \in Fds, offset \in SeekOffsets : rd_seek(pid, fd, offset)
  BY DEF Seeks
<1>2. offset \in Int /\ SeekOffsets \subseteq Int
  BY RamdiskAssumption
<1>3. PICK target \in Target(pid, fd, offset) : MoveTo(pid, fd, target)
  BY <1>1 DEF rd_seek
<1>4. /\ InodeOf(pid, fd) \in Inums \cup {-1}
      /\ InodeOf(pid, fd) >= 0 => RAMDISK.inodes[InodeOf(pid, fd)].size \in Nat
  BY UsableTypes DEF ReadersInv
<1>5. target \in Int
  BY <1>2, <1>3, <1>4 DEF Target
<1>6. ret \in Int /\ ret' \in Int
  BY <1>1 DEF ReadersInv, IInv, rd_seek
<1>. QED  BY <1>3, <1>5, <1>6, MoveStep DEF ReadersInv

(* Every other call *)
LEMMA CallsWell ==
  ASSUME ReadersInv, Next, descriptors' = Descriptors(fdtablea')
  PROVE  WellHandled \/ Seeks
<1>1. CASE rd_init
  BY <1>1, InitWell DEF rd_init
<1>2. CASE rd_test
  BY <1>2, SameTables DEF rd_test, Answer
<1>3. CASE \E path \in Paths : rd_creat(path) \/ rd_unlink(path)
  BY <1>3, SameTables DEF rd_creat, rd_unlink, Make, Answer
<1>4. CASE \E path \in MkdirPaths : rd_mkdir(path)
  BY <1>4, SameTables DEF rd_mkdir, Make, Answer
<1>5. CASE \E pid \in Pids, path \in Paths : rd_open(pid, path)
  BY <1>5, OpenWell
<1>6. CASE \E pid \in Pids, fd \in Fds : rd_close(pid, fd)
  BY <1>6, CloseWell
<1>7. CASE \E pid \in Pids, fd \in Fds : rd_readdir(pid, fd)
  BY <1>7, ReaddirWell
<1>8. CASE \E pid \in Pids, fd \in Fds, n \in ReadLens : rd_read(pid, fd, n)
  BY <1>8, ReadWell
<1>9. CASE \E pid \in Pids, fd \in Fds, n \in WriteLens, v \in Data : rd_write(pid, fd, n, v)
  BY <1>9, WriteWell
<1>10. CASE Seeks
  BY <1>10
<1>. QED
  BY <1>1, <1>2, <1>3, <1>4, <1>5, <1>6, <1>7, <1>8, <1>9, <1>10 DEF Next, Seeks

(***************************************************************************)
(* What each call does to the entries of a directory                       *)
(***************************************************************************)
Stays(rd, e, d) ==
  /\ e.inodes[d].size = rd.inodes[d].size
  /\ \A p \in Positions(rd, d) : DirCell(e, d, p) = DirCell(rd, d, p)

Grew(rd, e, d) ==
  /\ e.inodes[d].size = rd.inodes[d].size + 1
  /\ \A p \in Positions(rd, d) : DirCell(e, d, p) = DirCell(rd, d, p)
  /\ DirCell(e, d, rd.inodes[d].size).data \notin EntryData(rd, d)

Shrank(rd, e, d, p) ==
  /\ p \in Positions(rd, d)
  /\ e.inodes[d].size = LastEntry(rd, d)
  /\ \A q \in Positions(e, d) :
       DirCell(e, d, q) = DirCell(rd, d, IF q = p THEN LastEntry(rd, d) ELSE q)

Changed(rd, e, d) ==
  \/ e.inodes[d].size = 0
  \/ /\ d \in Directories(rd)
     /\ Stays(rd, e, d) \/ Grew(rd, e, d) \/ \E p : Shrank(rd, e, d, p)

(* Directories other than the one that gets an entry, the new one included *)
LEMMA CreatedChanged ==
  ASSUME NEW rd, DiskInv(rd), NEW e, NEW c, NEW type, Created(rd, e, c, type),
         NEW S, DirsKept(rd, e, S), NEW d \in Directories(e), d \notin S
  PROVE  Changed(rd, e, d)
<1>1. CASE d = c
  BY <1>1 DEF Created, Changed
<1>2. CASE d # c
  <2>1. d \in Inums /\ rd.inodes[d].type = DIR
    BY <1>2 DEF Created, Directories
  <2>. QED  BY <2>1 DEF DirsKept, DirKept, Changed, Stays, Positions, Directories
<1>. QED  BY <1>1, <1>2

(* The entry that is added leads to an inode that was free, so it is a new one. *)
LEMMA EnteredChanged ==
  ASSUME NEW rd, DiskInv(rd), NEW made, NEW d \in Inums, NEW name, NEW type,
         Entered(rd, made, d, name, type), NEW x \in Directories(made.rd)
  PROVE  Changed(rd, made.rd, x)
<1>1. CASE x # d
  BY <1>1, CreatedChanged DEF Entered
<1>2. CASE x = d
  <2> DEFINE c == made.inum
  <2>1. c \in Inums /\ rd.inodes[c].type = UNALLOCATED /\ d \in Directories(rd)
    BY DEF Entered, Created, Unallocated, Directories
  <2>2. \A p \in Positions(rd, d) : DirCell(rd, d, p).data # c
    BY <2>1 DEF DiskInv, RootedTree, EntriesLead
  <2>3. DirExtended(rd, made.rd, d, name, c)
    BY DEF Entered
  <2>4. DirEntry(name, c).data = c
    BY DEF DirEntry
  <2> HIDE DEF c
  <2>5. Grew(rd, made.rd, d)
    BY <2>2, <2>3, <2>4 DEF DirExtended, Grew, Positions, EntryData
  <2>. QED  BY <1>2, <2>1, <2>5 DEF Changed
<1>. QED  BY <1>1, <1>2

(* An entry is removed. *)
LEMMA UnlinkedChanged ==
  ASSUME NEW rd, NEW e, NEW d \in Directories(rd), NEW p \in Positions(rd, d), NEW c,
         Unlinked(rd, e, d, p, c), NEW x \in Directories(e)
  PROVE  Changed(rd, e, x)
<1>1. x # c /\ x \in Directories(rd) /\ x \in Inums
  <2>1. x # c
    BY DEF Unlinked, Directories, UNALLOCATED, DIR
  <2>. QED  BY <2>1 DEF Unlinked, Directories
<1>2. CASE x # d
  <2>1. DirKept(rd, e, x)
    BY <1>1, <1>2 DEF Unlinked, DirsKept, Directories
  <2>. QED  BY <1>1, <2>1 DEF DirKept, Changed, Stays, Positions
<1>3. CASE x = d
  <2>1. e.inodes[d].size = LastEntry(rd, d)
    BY DEF Unlinked
  <2>2. Positions(e, d) = 0 .. LastEntry(rd, d) - 1
    BY <2>1 DEF Positions
  <2>3. Shrank(rd, e, d, p)
    BY <2>1, <2>2 DEF Unlinked, Shrank
  <2>. QED  BY <1>1, <1>3, <2>3 DEF Changed
<1>. QED  BY <1>2, <1>3

(* The directories after any call *)
LEMMA CallsChanged ==
  ASSUME IInv, Next, NEW d \in Directories(RAMDISK')
  PROVE  Changed(RAMDISK, RAMDISK', d)
<1> DEFINE rd == RAMDISK
           e  == RAMDISK'
<1>0. DiskInv(rd) /\ d \in Inums
  BY DEF IInv, Directories
<1>1. CASE Quietly
  BY <1>1 DEF Quietly, Changed, Stays
<1>2. CASE Starts
  <2>1. d = Root /\ DiskInv(EmptyDisk) /\ e = EmptyDisk
    BY <1>0, <1>2, EmptyDiskInv DEF Starts, Directories, UNALLOCATED, DIR
  <2>2. /\ EmptyDisk.inodes[Root].size \in Nat /\ Root \in Inums
        /\ Root \in Directories(EmptyDisk)
    BY <2>1, DiskInvTypes
  <2>3. ASSUME EmptyDisk.inodes[Root].size # 0
        PROVE  FALSE
    <3>1. 0 \in Positions(EmptyDisk, Root)
      BY <2>2, <2>3 DEF Positions
    <3>2. /\ DirCell(EmptyDisk, Root, 0).data \in Inums \ {Root}
          /\ EmptyDisk.inodes[DirCell(EmptyDisk, Root, 0).data].type # UNALLOCATED
      BY <2>1, <2>2, <3>1 DEF DiskInv, RootedTree, EntriesLead
    <3>. QED  BY <3>2, EmptyDiskInv
  <2>. QED  BY <2>1, <2>3 DEF Changed
<1>3. CASE Creates
  <2>1. PICK x, name, made, type :
          /\ x \in Inums /\ Entered(RAMDISK, made, x, name, type) /\ RAMDISK' = made.rd
    BY <1>3 DEF Creates
  <2>. QED  BY <1>0, <2>1, EnteredChanged
<1>4. CASE Spoils
  <2>1. PICK made, type : Orphaned(RAMDISK, made, type) /\ RAMDISK' = made.rd
    BY <1>4 DEF Spoils
  <2>2. PICK c : Created(RAMDISK, RAMDISK', c, type) /\ DirsKept(RAMDISK, RAMDISK', {})
    BY <2>1 DEF Orphaned
  <2>. QED  BY <1>0, <2>2, CreatedChanged
<1>5. CASE Unlinks
  <2>1. PICK x, found, p : /\ Removable(RAMDISK, x, found, p)
                           /\ Unlinked(RAMDISK, RAMDISK', x, p, found.inum)
    BY <1>0, <1>5, UnlinkTree DEF Unlinks
  <2>. QED  BY <2>1, UnlinkedChanged DEF Removable
<1>6. CASE Fills
  <2>1. /\ DirsKept(RAMDISK, RAMDISK', {})
        /\ \A j \in Inums : RAMDISK'.inodes[j].type = RAMDISK.inodes[j].type
    BY <1>6, FillsDisk
  <2>. QED  BY <1>0, <2>1 DEF DirsKept, DirKept, Changed, Stays, Positions, Directories
<1>. QED  BY <1>1, <1>2, <1>3, <1>4, <1>5, <1>6, CallCases

(***************************************************************************)
(* The entries behind a reader, by their positions                         *)
(***************************************************************************)
BehindIn(rd, d, pos) == {DirCell(rd, d, p).data : p \in 0 .. Lesser(pos, rd.inodes[d].size) - 1}

EntryIs(rd, d, pos) == IF pos \in Positions(rd, d) THEN {DirCell(rd, d, pos).data} ELSE {}

(* They are those that Listing looks at. *)
LEMMA BehindIs ==
  ASSUME DiskInv(RAMDISK), NEW d \in Directories(RAMDISK), NEW pos \in Int
  PROVE  /\ Here(d, pos) = EntryIs(RAMDISK, d, pos)
         /\ LastOf(d) = EntryIs(RAMDISK, d, LastEntry(RAMDISK, d))
         /\ Behind(d, pos) = BehindIn(RAMDISK, d, pos)
<1>1. \A p : Here(d, p) = EntryIs(RAMDISK, d, p)
  BY EntriesAt DEF Here, EntryIs, Positions
<1>2. RAMDISK.inodes[d].size \in Nat
  BY DiskInvTypes
<1>3. \A p \in 0 .. Lesser(pos, RAMDISK.inodes[d].size) - 1 : p \in Positions(RAMDISK, d)
  BY <1>2 DEF Lesser, Positions
<1>4. \A p \in 0 .. Lesser(pos, RAMDISK.inodes[d].size) - 1 :
        Here(d, p) = {DirCell(RAMDISK, d, p).data}
  BY <1>1, <1>3 DEF EntryIs
<1>5. Behind(d, pos) = BehindIn(RAMDISK, d, pos)
  <2>1. \A x \in Behind(d, pos) : x \in BehindIn(RAMDISK, d, pos)
    BY <1>4 DEF Behind, BehindIn
  <2>2. \A x \in BehindIn(RAMDISK, d, pos) : x \in Behind(d, pos)
    BY <1>4 DEF Behind, BehindIn
  <2>. QED  BY <2>1, <2>2
<1>. QED  BY <1>1, <1>5 DEF LastOf, LastEntry

(***************************************************************************)
(* A reader that stands at pos of directory d, and has seen some entries   *)
(* and missed others                                                       *)
(***************************************************************************)
Follows(rd, d, pos, seen, lost) ==
  /\ seen \subseteq EntryData(rd, d) /\ lost \subseteq EntryData(rd, d)
  /\ BehindIn(rd, d, pos) = seen \cup lost

(* What Listing adds to those missed, and what is left of both *)
Passed(rd, e, d, seen, lost) ==
  IF (EntryData(rd, d) \ EntryData(e, d)) \cap (seen \cup lost) # {}
  THEN EntryIs(rd, d, LastEntry(rd, d)) ELSE {}

Arrived(rd, e, d, pos) ==
  IF pos > rd.inodes[d].size THEN EntryData(e, d) \ EntryData(rd, d) ELSE {}

StillSeen(e, d, seen) == seen \cap EntryData(e, d)
StillLost(rd, e, d, pos, seen, lost) ==
  ((lost \cup Passed(rd, e, d, seen, lost) \cup Arrived(rd, e, d, pos)) \cap EntryData(e, d))
    \ seen

(* Nothing happens to the directory. *)
LEMMA StaysFollows ==
  ASSUME NEW rd, NEW e, NEW d, NEW pos \in Int, NEW seen, NEW lost,
         Follows(rd, d, pos, seen, lost), Stays(rd, e, d), rd.inodes[d].size \in Nat
  PROVE  Follows(e, d, pos, StillSeen(e, d, seen), StillLost(rd, e, d, pos, seen, lost))
<1>1. Positions(e, d) = Positions(rd, d) /\ EntryData(e, d) = EntryData(rd, d)
  BY DEF Stays, EntryData, Positions
<1>2. \A p \in 0 .. Lesser(pos, rd.inodes[d].size) - 1 : p \in Positions(rd, d)
  BY DEF Lesser, Positions
<1>3. BehindIn(e, d, pos) = BehindIn(rd, d, pos)
  BY <1>2 DEF Stays, BehindIn
<1>4. Passed(rd, e, d, seen, lost) = {} /\ Arrived(rd, e, d, pos) = {}
  BY <1>1 DEF Passed, Arrived
<1>. QED  BY <1>1, <1>3, <1>4 DEF Follows, StillSeen, StillLost

(* An entry is added, behind a reader that stands beyond the end. *)
LEMMA GrewFollows ==
  ASSUME NEW rd, NEW e, NEW d, NEW pos \in Int, NEW seen, NEW lost,
         Follows(rd, d, pos, seen, lost), Grew(rd, e, d), rd.inodes[d].size \in Nat
  PROVE  Follows(e, d, pos, StillSeen(e, d, seen), StillLost(rd, e, d, pos, seen, lost))
<1> DEFINE n == rd.inodes[d].size
           x == DirCell(e, d, n).data
<1>1. Positions(e, d) = Positions(rd, d) \cup {n} /\ e.inodes[d].size = n + 1
  BY DEF Grew, Positions
<1>2. \A p \in Positions(rd, d) : DirCell(e, d, p) = DirCell(rd, d, p)
  BY DEF Grew
<1>3. EntryData(e, d) = EntryData(rd, d) \cup {x}
  <2>1. \A y \in EntryData(e, d) : y \in EntryData(rd, d) \cup {x}
    BY <1>1, <1>2 DEF EntryData
  <2>2. \A y \in EntryData(rd, d) \cup {x} : y \in EntryData(e, d)
    BY <1>1, <1>2 DEF EntryData
  <2>. QED  BY <2>1, <2>2
<1>4. x \notin EntryData(rd, d)
  BY DEF Grew
<1>5. Passed(rd, e, d, seen, lost) = {}
  BY <1>3 DEF Passed
<1>6. Arrived(rd, e, d, pos) = IF pos > n THEN {x} ELSE {}
  BY <1>3, <1>4 DEF Arrived
<1> HIDE DEF x
<1>7. CASE pos > n
  <2>1. Lesser(pos, n) = n /\ Lesser(pos, n + 1) = n + 1
    BY <1>7 DEF Lesser
  <2>2. BehindIn(rd, d, pos) = EntryData(rd, d)
    BY <2>1 DEF BehindIn, EntryData, Positions
  <2>3. BehindIn(e, d, pos) = EntryData(e, d)
    BY <1>1, <2>1 DEF BehindIn, EntryData, Positions
  <2>. QED  BY <1>3, <1>5, <1>6, <1>7, <2>2, <2>3 DEF Follows, StillSeen, StillLost
<1>8. CASE ~ (pos > n)
  <2>1. Lesser(pos, n) = Lesser(pos, n + 1)
    BY <1>8 DEF Lesser
  <2>2. \A p \in 0 .. Lesser(pos, n) - 1 : p \in Positions(rd, d)
    BY DEF Lesser, Positions
  <2>3. BehindIn(e, d, pos) = BehindIn(rd, d, pos)
    BY <1>1, <1>2, <2>1, <2>2 DEF BehindIn
  <2>. QED  BY <1>3, <1>5, <1>6, <1>8, <2>3 DEF Follows, StillSeen, StillLost
<1>. QED  BY <1>7, <1>8

(* An entry is removed, and the last one gets behind a reader that had passed it. *)
LEMMA ShrankFollows ==
  ASSUME NEW rd, NEW e, NEW d, NEW pos \in Int, NEW seen, NEW lost,
         Follows(rd, d, pos, seen, lost), NEW p, Shrank(rd, e, d, p), rd.inodes[d].size \in Nat,
         \A q, r \in Positions(rd, d) : DirCell(rd, d, q).data = DirCell(rd, d, r).data => q = r
  PROVE  Follows(e, d, pos, StillSeen(e, d, seen), StillLost(rd, e, d, pos, seen, lost))
<1> DEFINE n == rd.inodes[d].size
           a(q) == DirCell(rd, d, q).data
           b(q) == DirCell(e, d, q).data
<1>1. /\ p \in Positions(rd, d) /\ n - 1 \in Positions(rd, d) /\ n \in Nat
      /\ e.inodes[d].size = n - 1
  BY DEF Shrank, Positions, LastEntry
<1>2. Positions(rd, d) = 0 .. n - 1 /\ Positions(e, d) = 0 .. n - 2
  BY <1>1 DEF Positions
<1>3. \A q \in 0 .. n - 2 : b(q) = IF q = p THEN a(n - 1) ELSE a(q)
  BY <1>2 DEF Shrank, LastEntry
<1>4. \A q, r \in 0 .. n - 1 : a(q) = a(r) => q = r
  BY <1>2
<1>5. EntryData(rd, d) = {a(q) : q \in 0 .. n - 1} /\ EntryData(e, d) = {b(q) : q \in 0 .. n - 2}
  BY <1>2 DEF EntryData
<1>6. /\ BehindIn(rd, d, pos) = {a(q) : q \in 0 .. Lesser(pos, n) - 1}
      /\ BehindIn(e, d, pos) = {b(q) : q \in 0 .. Lesser(pos, n - 1) - 1}
  BY <1>1 DEF BehindIn
<1>7. EntryIs(rd, d, LastEntry(rd, d)) = {a(n - 1)}
  BY <1>1 DEF EntryIs, LastEntry
<1> HIDE DEF n, a, b
<1>8. EntryData(e, d) = EntryData(rd, d) \ {a(p)}
  <2>1. ASSUME NEW q \in 0 .. n - 2
        PROVE  b(q) \in EntryData(rd, d) \ {a(p)}
    <3>1. CASE q = p
      <4>1. n - 1 \in 0 .. n - 1 /\ n - 1 # p /\ p \in 0 .. n - 1
        BY <1>1, <1>2, <3>1
      <4>. QED  BY <1>3, <1>4, <1>5, <3>1, <4>1
    <3>2. CASE q # p
      <4>1. q \in 0 .. n - 1 /\ p \in 0 .. n - 1
        BY <1>1, <1>2
      <4>. QED  BY <1>3, <1>4, <1>5, <3>2, <4>1
    <3>. QED  BY <3>1, <3>2
  <2>2. ASSUME NEW q \in 0 .. n - 1, q # p
        PROVE  a(q) \in EntryData(e, d)
    <3>1. CASE q = n - 1
      <4>1. p \in 0 .. n - 2
        BY <1>1, <1>2, <2>2, <3>1
      <4>. QED  BY <1>3, <1>5, <3>1, <4>1
    <3>2. CASE q # n - 1
      <4>1. q \in 0 .. n - 2
        BY <1>1, <3>2
      <4>. QED  BY <1>3, <1>5, <2>2, <4>1
    <3>. QED  BY <3>1, <3>2
  <2>. QED  BY <1>5, <2>1, <2>2
<1>9. a(p) \in EntryData(rd, d)
  BY <1>1, <1>2, <1>5
<1>10. Arrived(rd, e, d, pos) = {}
  BY <1>8 DEF Arrived
<1>11. Passed(rd, e, d, seen, lost)
         = IF a(p) \in BehindIn(rd, d, pos) THEN {a(n - 1)} ELSE {}
  BY <1>7, <1>8, <1>9 DEF Passed, Follows
<1>12. a(p) \in BehindIn(rd, d, pos) <=> p < Lesser(pos, n)
  <2>1. \A q \in 0 .. Lesser(pos, n) - 1 : q \in 0 .. n - 1
    BY <1>1 DEF Lesser
  <2>2. Lesser(pos, n) \in Int /\ p \in Int /\ p >= 0 /\ p \in 0 .. n - 1
    BY <1>1, <1>2 DEF Lesser
  <2>. QED  BY <1>4, <1>6, <2>1, <2>2
<1>13. EntryData(e, d) \subseteq EntryData(rd, d)
  BY <1>8
<1>14. BehindIn(rd, d, pos) \subseteq EntryData(rd, d) /\ a(n - 1) \in EntryData(rd, d)
  <2>1. \A q \in 0 .. Lesser(pos, n) - 1 : q \in 0 .. n - 1
    BY <1>1 DEF Lesser
  <2>2. n - 1 \in 0 .. n - 1
    BY <1>1, <1>2
  <2>. QED  BY <1>5, <1>6, <2>1, <2>2
<1>15. CASE ~ (p < Lesser(pos, n))
  <2>1. pos <= p /\ Lesser(pos, n) = pos /\ Lesser(pos, n - 1) = pos
        /\ \A q \in 0 .. pos - 1 : q \in 0 .. n - 2 /\ q # p
    BY <1>1, <1>2, <1>15 DEF Lesser
  <2>2. BehindIn(e, d, pos) = BehindIn(rd, d, pos)
    BY <1>3, <1>6, <2>1
  <2>3. a(p) \notin BehindIn(rd, d, pos)
    BY <1>12, <1>15
  <2>. QED  BY <1>8, <1>10, <1>11, <1>14, <2>2, <2>3 DEF Follows, StillSeen, StillLost
<1>16. CASE p < Lesser(pos, n)
  <2>1. BehindIn(e, d, pos) = (BehindIn(rd, d, pos) \cup {a(n - 1)}) \ {a(p)}
    <3>1. CASE pos < n
      <4>1. Lesser(pos, n) = pos /\ Lesser(pos, n - 1) = pos
            /\ p \in 0 .. pos - 1 /\ p # n - 1 /\ n - 1 \in 0 .. n - 1 /\ p \in 0 .. n - 1
            /\ \A q \in 0 .. pos - 1 : q \in 0 .. n - 2 /\ q \in 0 .. n - 1
        BY <1>1, <1>2, <1>16, <3>1 DEF Lesser
      <4>2. \A q \in 0 .. pos - 1 : b(q) \in (BehindIn(rd, d, pos) \cup {a(n - 1)}) \ {a(p)}
        BY <1>3, <1>4, <1>6, <4>1
      <4>3. a(n - 1) \in BehindIn(e, d, pos)
        BY <1>3, <1>6, <4>1
      <4>4. \A q \in 0 .. pos - 1 : q # p => a(q) \in BehindIn(e, d, pos)
        BY <1>3, <1>6, <4>1
      <4>. QED  BY <1>6, <4>1, <4>2, <4>3, <4>4
    <3>2. CASE ~ (pos < n)
      <4>1. Lesser(pos, n) = n /\ Lesser(pos, n - 1) = n - 1
        BY <1>1, <3>2 DEF Lesser
      <4>2. (n - 1) - 1 = n - 2
        BY <1>1
      <4>3. BehindIn(rd, d, pos) = EntryData(rd, d) /\ BehindIn(e, d, pos) = EntryData(e, d)
        BY <1>5, <1>6, <4>1, <4>2
      <4>. QED  BY <1>8, <1>14, <4>3
    <3>. QED  BY <3>1, <3>2
  <2>2. a(p) \in BehindIn(rd, d, pos)
    BY <1>12, <1>16
  <2>. QED  BY <1>8, <1>10, <1>11, <1>14, <2>1, <2>2 DEF Follows, StillSeen, StillLost
<1>. QED  BY <1>15, <1>16

(* Whatever becomes of the directory, the reader still follows it. *)
LEMMA ChangedFollows ==
  ASSUME NEW rd, DiskInv(rd), NEW e, NEW d, NEW pos \in Int, NEW seen, NEW lost,
         d \in Directories(rd), Follows(rd, d, pos, seen, lost), Changed(rd, e, d)
  PROVE  Follows(e, d, pos, StillSeen(e, d, seen), StillLost(rd, e, d, pos, seen, lost))
<1>1. rd.inodes[d].size \in Nat
  BY DiskInvTypes DEF Directories
<1>2. CASE e.inodes[d].size = 0
  <2>1. EntryData(e, d) = {}
    BY <1>2 DEF EntryData, Positions
  <2>2. BehindIn(e, d, pos) = {}
    BY <1>2 DEF BehindIn, Lesser
  <2>. QED  BY <2>1, <2>2 DEF Follows, StillSeen, StillLost
<1>3. CASE \E p : Shrank(rd, e, d, p)
  <2>1. \A q, r \in Positions(rd, d) : DirCell(rd, d, q).data = DirCell(rd, d, r).data => q = r
    BY DEF DiskInv, RootedTree, EntriesDiffer
  <2>. QED  BY <1>1, <1>3, <2>1, ShrankFollows
<1>. QED  BY <1>1, <1>2, <1>3, StaysFollows, GrewFollows DEF Changed

(***************************************************************************)
(* The readers of directories                                              *)
(***************************************************************************)
Reading(rd, r, seen, lost) ==
  IF r.inode \in Directories(rd) THEN Follows(rd, r.inode, r.offset, seen, lost)
  ELSE seen = {} /\ lost = {}

(* The inductive invariant of Listing *)
ListingInv ==
  /\ ReadersInv
  /\ \A pid \in Pids, fd \in Slots :
       Reading(RAMDISK, descriptors[pid][fd], shown[pid][fd], missed[pid][fd])

(* A descriptor, open or closed *)
LEMMA ReaderTypes ==
  ASSUME ReadersInv, NEW pid \in Pids, NEW fd \in Slots, NEW r, r = descriptors[pid][fd]
  PROVE  r.offset \in Int /\ (r = NoReader \/ r.inode \in Inums)
<1>. TablesInv(fdtablea) /\ descriptors = Descriptors(fdtablea)
  BY DEF ReadersInv
<1>1. CASE Files!D!IsOpen(pid, fd)
  <2>1. /\ InodeOf(pid, fd) \in Inums /\ PositionOf(pid, fd) \in Int
        /\ descriptors[pid][fd] = [inode |-> InodeOf(pid, fd), offset |-> PositionOf(pid, fd)]
    BY <1>1, DescriptorAt
  <2>. QED  BY <2>1
<1>2. CASE ~ Files!D!IsOpen(pid, fd)
  <2>1. descriptors[pid][fd] = NoReader
    BY <1>2, DescriptorAt DEF NoReader
  <2>. QED  BY <2>1 DEF NoReader
<1>. QED  BY <1>1, <1>2

(* A closed descriptor is in no directory. *)
LEMMA NowhereIs ==
  NoReader.inode \notin Directories(RAMDISK) /\ NoReader.inode \notin Directories(RAMDISK')
BY DEF NoReader, Directories, Inums

(* A step in which a reader passes an entry *)
LEMMA PassesKept ==
  ASSUME ReadersInv, tree' = Shows(RAMDISK'), NEW r, NEW s, r.offset \in Int, Passes(r, s),
         NEW seen, NEW lost, Reading(RAMDISK, r, seen, lost)
  PROVE  Reading(RAMDISK', s, ShownAfter(r, s, seen), MissedAfter(r, s, seen, lost))
<1> DEFINE d == r.inode
           o == r.offset
           n == RAMDISK.inodes[d].size
<1>1. /\ Goes(r, s) /\ s.inode = d /\ s.offset = o + 1 /\ RAMDISK' = RAMDISK
      /\ d \in Directories(RAMDISK) /\ o \in Int /\ o >= 0 /\ o # n /\ ret' = 1
  BY DEF Passes, Goes
<1>2. DiskInv(RAMDISK) /\ tree' = tree /\ tree = Shows(RAMDISK)
  BY <1>1 DEF ReadersInv, IInv
<1>3. n \in Nat
  BY <1>1, <1>2, DiskInvTypes DEF Directories
<1>4. EntriesIn(tree, d) = EntryData(RAMDISK, d) /\ EntriesIn(tree', d) = EntryData(RAMDISK, d)
  BY <1>1, <1>2, EntriesInIs
<1>5. ShownTo(r, s) = EntryIs(RAMDISK, d, o)
  BY <1>1, <1>2, BehindIs DEF ShownTo
<1>6. GoneFrom(r) = {} /\ NewIn(r) = {}
  BY <1>4 DEF GoneFrom, NewIn
<1>7. Follows(RAMDISK, d, o, seen, lost)
  BY <1>1 DEF Reading
<1>8. EntryIs(RAMDISK, d, o) \subseteq EntryData(RAMDISK, d)
  BY DEF EntryIs, EntryData
<1>9. BehindIn(RAMDISK, d, o + 1) = BehindIn(RAMDISK, d, o) \cup EntryIs(RAMDISK, d, o)
  <2> HIDE DEF d, o, n
  <2>1. CASE o < n
    <3>1. o \in Positions(RAMDISK, d) /\ Lesser(o, n) = o /\ Lesser(o + 1, n) = o + 1
          /\ 0 .. (o + 1) - 1 = (0 .. o - 1) \cup {o}
      BY <1>1, <1>3, <2>1 DEF Positions, Lesser, n
    <3>. QED  BY <3>1 DEF BehindIn, EntryIs, n
  <2>2. CASE ~ (o < n)
    <3>1. o \notin Positions(RAMDISK, d) /\ Lesser(o, n) = n /\ Lesser(o + 1, n) = n
      BY <1>1, <1>3, <2>2 DEF Positions, Lesser, n
    <3>. QED  BY <3>1 DEF BehindIn, EntryIs, n
  <2>. QED  BY <2>1, <2>2
<1>10. /\ ShownAfter(r, s, seen) = (seen \cup EntryIs(RAMDISK, d, o)) \cap EntryData(RAMDISK, d)
       /\ MissedAfter(r, s, seen, lost) = (lost \cap EntryData(RAMDISK, d)) \ seen
  BY <1>1, <1>4, <1>5, <1>6 DEF ShownAfter, MissedAfter
<1> HIDE DEF d, o
<1>11. Follows(RAMDISK, d, o + 1, ShownAfter(r, s, seen), MissedAfter(r, s, seen, lost))
  BY <1>7, <1>8, <1>9, <1>10 DEF Follows
<1>. QED  BY <1>1, <1>11 DEF Reading

(* A step in which a reader stays where it is *)
LEMMA StandsKept ==
  ASSUME ReadersInv, DiskInv(RAMDISK'), tree' = Shows(RAMDISK'), Next,
         NEW r, r.offset \in Int, r # NoReader, r.inode \in Directories(RAMDISK'),
         NEW seen, NEW lost, Reading(RAMDISK, r, seen, lost)
  PROVE  Reading(RAMDISK', r, ShownAfter(r, r, seen), MissedAfter(r, r, seen, lost))
<1> DEFINE d == r.inode
           o == r.offset
<1>1. Goes(r, r) /\ ShownTo(r, r) = {}
  BY DEF Goes, ShownTo
<1>2. DiskInv(RAMDISK) /\ tree = Shows(RAMDISK) /\ IInv
  BY DEF ReadersInv, IInv
<1>3. Changed(RAMDISK, RAMDISK', d)
  BY <1>2, CallsChanged
<1>4. EntriesIn(tree', d) = EntryData(RAMDISK', d)
  BY EntriesInIs
<1>5. CASE d \in Directories(RAMDISK)
  <2>1. EntriesIn(tree, d) = EntryData(RAMDISK, d)
    BY <1>2, <1>5, EntriesInIs
  <2>2. Follows(RAMDISK, d, o, seen, lost)
    BY <1>5 DEF Reading
  <2>3. LastOf(d) = EntryIs(RAMDISK, d, LastEntry(RAMDISK, d))
    BY <1>2, <1>5, BehindIs
  <2>4. ShownAfter(r, r, seen) = StillSeen(RAMDISK', d, seen)
    BY <1>1, <1>4 DEF ShownAfter, StillSeen
  <2>5. MissedAfter(r, r, seen, lost) = StillLost(RAMDISK, RAMDISK', d, o, seen, lost)
    BY <1>1, <1>4, <2>1, <2>3 DEF MissedAfter, StillLost, Passed, Arrived, GoneFrom, NewIn
  <2>. QED  BY <1>2, <1>3, <1>5, <2>2, <2>4, <2>5, ChangedFollows DEF Reading
<1>6. CASE d \notin Directories(RAMDISK)
  <2>1. RAMDISK'.inodes[d].size = 0
    BY <1>3, <1>6 DEF Changed
  <2>2. EntryData(RAMDISK', d) = {}
    BY <2>1 DEF EntryData, Positions
  <2>3. BehindIn(RAMDISK', d, o) = {}
    BY <2>1 DEF BehindIn, Lesser
  <2>4. ShownAfter(r, r, seen) = {} /\ MissedAfter(r, r, seen, lost) = {}
    BY <1>4, <2>2 DEF ShownAfter, MissedAfter
  <2>. QED  BY <2>2, <2>3, <2>4 DEF Reading, Follows
<1>. QED  BY <1>5, <1>6

(* Any step *)
LEMMA ReaderKept ==
  ASSUME ReadersInv, DiskInv(RAMDISK'), tree' = Shows(RAMDISK'), Next,
         NEW r, NEW s, r.offset \in Int, Handled(r, s),
         NEW seen, NEW lost, Reading(RAMDISK, r, seen, lost)
  PROVE  Reading(RAMDISK', s, ShownAfter(r, s, seen), MissedAfter(r, s, seen, lost))
<1>1. CASE ~ Goes(r, s)
  <2>1. ShownAfter(r, s, seen) = {} /\ MissedAfter(r, s, seen, lost) = {}
    BY <1>1 DEF ShownAfter, MissedAfter
  <2>2. s = NoReader \/ s.offset = 0
    BY <1>1 DEF Handled, Passes, Goes
  <2>3. CASE s = NoReader
    BY <2>1, <2>3, NowhereIs DEF Reading
  <2>4. CASE s.offset = 0 /\ s.inode \in Directories(RAMDISK')
    <3>1. RAMDISK'.inodes[s.inode].size \in Nat
      BY <2>4, DiskInvTypes DEF Directories
    <3>2. BehindIn(RAMDISK', s.inode, s.offset) = {}
      BY <2>4, <3>1 DEF BehindIn, Lesser
    <3>. QED  BY <2>1, <2>4, <3>2 DEF Reading, Follows
  <2>. QED  BY <2>1, <2>2, <2>3, <2>4 DEF Reading
<1>2. CASE Goes(r, s) /\ s.inode \notin Directories(RAMDISK')
  <2>1. EntriesIn(tree', r.inode) = {}
    BY <1>2, EntriesInIs DEF Goes
  <2>. QED  BY <1>2, <2>1 DEF Reading, ShownAfter, MissedAfter
<1>3. CASE Goes(r, s) /\ s.inode \in Directories(RAMDISK')
  <2>1. s = r \/ Passes(r, s)
    BY <1>3, NowhereIs DEF Handled, Goes
  <2>2. CASE s = r
    BY <1>3, <2>2, StandsKept DEF Goes
  <2>3. CASE Passes(r, s)
    BY <2>3, PassesKept
  <2>. QED  BY <2>1, <2>2, <2>3
<1>. QED  BY <1>1, <1>2, <1>3

-----------------------------------------------------------------------------
(* The readers at the start *)
LEMMA InitReaders ==
  ASSUME FilesInit
  PROVE  ReadersInv
<1>1. IInv /\ fdtablea = InitialTables
  BY InitIInv DEF FilesInit, Init
<1>. QED  BY <1>1, StartTables DEF ReadersInv, FilesInit

(* A listing starts with nothing shown. *)
LEMMA InitListing ==
  ASSUME ListingInit
  PROVE  ListingInv
<1>1. ReadersInv /\ descriptors = Descriptors(InitialTables)
  BY InitReaders DEF ListingInit, FilesInit, Init
<1>2. ASSUME NEW pid \in Pids, NEW fd \in Slots
      PROVE  Reading(RAMDISK, descriptors[pid][fd], shown[pid][fd], missed[pid][fd])
  <2>1. descriptors[pid][fd] = NoReader
    BY <1>1, StartTables DEF NoReader
  <2>. QED  BY <2>1, NowhereIs DEF Reading, ListingInit, Nothing
<1>. QED  BY <1>1, <1>2 DEF ListingInv

(* The auxiliary variables hold what is read out of the disk and the tables. *)
LEMMA MapKept ==
  ASSUME ReadersInv, FilesNext
  PROVE  tree' = Shows(RAMDISK') /\ descriptors' = Descriptors(fdtablea') /\ IInv'
<1>1. IInv'
  BY NextIInv DEF ReadersInv, FilesNext
<1>2. CASE UNCHANGED <<RAMDISK, fdtablea>>
  BY <1>1, <1>2 DEF FilesNext, ReadersInv
<1>3. CASE ~ UNCHANGED <<RAMDISK, fdtablea>>
  BY <1>1, <1>3 DEF FilesNext
<1>. QED  BY <1>2, <1>3

(* Every step keeps the invariant. *)
LEMMA NextListing ==
  ASSUME SeekOffsets = {}, ListingInv, [ListingNext]_listingVars
  PROVE  ListingInv'
<1>1. CASE UNCHANGED listingVars
  BY <1>1 DEF listingVars, ListingInv, ReadersInv, IInv
<1>2. CASE ListingNext
  <2>1. ReadersInv /\ FilesNext /\ Next
    BY <1>2 DEF ListingInv, ListingNext, FilesNext
  <2>2. tree' = Shows(RAMDISK') /\ descriptors' = Descriptors(fdtablea') /\ IInv'
    BY <2>1, MapKept
  <2>3. TablesInv(fdtablea') /\ AllHandled
    BY <2>1, <2>2, CallsWell DEF WellHandled, Seeks
  <2>4. ReadersInv'
    BY <2>2, <2>3 DEF ReadersInv
  <2>5. ASSUME NEW pid \in Pids, NEW fd \in Slots
        PROVE  Reading(RAMDISK', descriptors'[pid][fd], shown'[pid][fd], missed'[pid][fd])
    <3> DEFINE r == descriptors[pid][fd]
               s == descriptors'[pid][fd]
    <3>1. Reading(RAMDISK, r, shown[pid][fd], missed[pid][fd])
      BY DEF ListingInv
    <3>2. CASE UNCHANGED <<RAMDISK, fdtablea>>
      <4>1. RAMDISK' = RAMDISK /\ s = r /\ shown' = shown /\ missed' = missed
        BY <1>2, <3>2 DEF ListingNext, FilesNext
      <4>. QED  BY <3>1, <4>1
    <3>3. CASE ~ UNCHANGED <<RAMDISK, fdtablea>>
      <4>1. /\ shown'[pid][fd] = ShownAfter(r, s, shown[pid][fd])
            /\ missed'[pid][fd] = MissedAfter(r, s, shown[pid][fd], missed[pid][fd])
        BY <1>2, <3>3 DEF ListingNext, Watch
      <4>2. Handled(r, s) /\ r.offset \in Int /\ DiskInv(RAMDISK')
        BY <2>1, <2>2, <2>3, ReaderTypes DEF AllHandled, IInv
      <4> HIDE DEF r, s
      <4>. QED  BY <2>1, <2>2, <3>1, <4>1, <4>2, ReaderKept DEF r, s
    <3>. QED  BY <3>2, <3>3
  <2>. QED  BY <2>4, <2>5 DEF ListingInv
<1>. QED  BY <1>1, <1>2

(* The invariant says what the run checks. *)
LEMMA InListing ==
  ASSUME ListingInv
  PROVE  PassedEntriesShown
<1> SUFFICES ASSUME NEW pid \in Pids, NEW fd \in Slots,
                    EntriesIn(tree, descriptors[pid][fd].inode) # {}
             PROVE  Behind(descriptors[pid][fd].inode, descriptors[pid][fd].offset)
                      = shown[pid][fd] \cup missed[pid][fd]
  BY DEF PassedEntriesShown
<1> DEFINE r == descriptors[pid][fd]
<1>1. /\ ReadersInv /\ DiskInv(RAMDISK) /\ tree = Shows(RAMDISK)
      /\ Reading(RAMDISK, r, shown[pid][fd], missed[pid][fd])
  BY DEF ListingInv, ReadersInv, IInv
<1>2. r.offset \in Int
  BY <1>1, ReaderTypes
<1>3. r.inode \in Directories(RAMDISK)
  BY <1>1, EntriesInIs
<1> HIDE DEF r
<1>4. Behind(r.inode, r.offset) = shown[pid][fd] \cup missed[pid][fd]
  BY <1>1, <1>2, <1>3, BehindIs DEF Reading, Follows
<1>. QED  BY <1>4 DEF r

(***************************************************************************)
(* The inductive invariant of Listing: as long as nobody moves a           *)
(* descriptor at will, a reader has behind it what it saw and what it was  *)
(* made to miss, both taken from the directory as it is now.               *)
(***************************************************************************)
THEOREM ListingInductive ==
  ASSUME SeekOffsets = {}
  PROVE  ListingSpec => []ListingInv
<1>1. ListingInit => ListingInv
  BY InitListing
<1>2. ListingInv /\ [ListingNext]_listingVars => ListingInv'
  BY NextListing
<1>. QED  BY <1>1, <1>2, PTL DEF ListingSpec

(***************************************************************************)
(* A reader has been shown every entry that is behind it, but for the last *)
(* entries that rd_unlink moved behind it and those added while it stood   *)
(* beyond the end, whatever other processes make and remove between two    *)
(* calls of rd_readdir.  rd_seek, which starts another listing, is left    *)
(* out by the assumption.                                                  *)
(***************************************************************************)
THEOREM PassedEntriesAreShown ==
  ASSUME SeekOffsets = {}
  PROVE  ListingSpec => []PassedEntriesShown
BY ListingInductive, InListing, PTL

(***************************************************************************)
(* A position beyond the end of a directory that has a block is in the     *)
(* block that the end is in, and the cell there is cleared.                *)
(***************************************************************************)
LEMMA BeyondCleared ==
  ASSUME NEW rd, DiskInv(rd), Shapes(rd), NEW d \in Directories(rd), NEW o \in Nat,
         rd.inodes[d].size < o, GetBlock(rd, rd.inodes[d], o) # NULL
  PROVE  /\ o \div BLOCK_CELLS = rd.inodes[d].size \div BLOCK_CELLS
         /\ Cell(rd, d, o) = Zero
<1> DEFINE n == rd.inodes[d].size
           k == o \div BLOCK_CELLS
           q == o % BLOCK_CELLS
<1>1. /\ n \in Nat /\ d \in Inums /\ rd.inodes[d].type = DIR
      /\ BlocksInOrder(rd, d) /\ CellsInOrder(rd, d)
  BY DiskInvTypes DEF InOrder
<1>2. k \in Nat /\ q \in Offs /\ o = Slot(k, q)
  BY SlotOf
<1>3. Blk(rd, d, k) # NULL /\ GetBlock(rd, rd.inodes[d], o) = Blk(rd, d, k)
  BY GetBlockIsBlk
<1>4. rd.inodes[d].double = NULL
  BY <1>1 DEF Shapes
<1>5. Slot(k, 0) <= o /\ o < Slot(k, 0) + BLOCK_CELLS
  BY <1>2, SlotBlock
<1> HIDE DEF k
<1>6. k \in Near
  <2>1. DIRECT_POINTERS \in Nat /\ BLOCK_PTRS \in Nat
    BY InodeAssumption
  <2>2. ASSUME ~ (k < DIRECT_POINTERS + BLOCK_PTRS)
        PROVE  Position(k).kind \in {"double", "none"}
    BY <1>2, <2>1, <2>2 DEF Position
  <2>3. ASSUME Position(k).kind \in {"double", "none"}
        PROVE  Blk(rd, d, k) = NULL
    BY <1>4, <2>3 DEF Blk, BlockIn, BlockAt
  <2>. QED  BY <1>2, <1>3, <2>1, <2>2, <2>3 DEF Near
<1>7. Slot(k, 0) <= n /\ Slot(k, 0) \in Nat
  <2>1. BLOCK_CELLS \in Nat
    BY InodeAssumption
  <2>2. Slot(k, 0) \in Nat /\ (k = 0 => Slot(k, 0) = 0)
    BY <1>2, <2>1 DEF Slot
  <2>3. Slot(k, 0) < n \/ k = 0
    BY <1>1, <1>3, <1>6, <2>2 DEF BlocksInOrder
  <2>. QED  BY <1>1, <2>2, <2>3
<1>8. n \div BLOCK_CELLS = k
  <2>1. n < Slot(k, 0) + BLOCK_CELLS
    BY <1>1, <1>5, <1>7, InodeAssumption
  <2>. QED  BY <1>1, <1>2, <1>7, <2>1, SlotBlock
<1>9. rd.data[Blk(rd, d, k)][q] = Zero
  BY <1>1, <1>2, <1>3, <1>6 DEF CellsInOrder
<1>. QED  BY <1>3, <1>8, <1>9 DEF Cell, k

(* What ShowsNewEntries says of a step, and of a reader that goes on *)
SeesNew(r, s, seen) ==
  \/ \E e \in EntriesIn(tree, r.inode) \ seen : ShownTo(r, s) = {e} /\ e # Root
  \/ /\ r.offset > RAMDISK.inodes[r.inode].size
     /\ r.offset \div BLOCK_CELLS = RAMDISK.inodes[r.inode].size \div BLOCK_CELLS
     /\ Cell(RAMDISK, r.inode, r.offset) = Zero

ShowsNew ==
  \A pid \in Pids, fd \in Slots :
    LET r == descriptors[pid][fd]
        s == descriptors'[pid][fd]
    IN  Goes(r, s) /\ s.offset > r.offset /\ tree[r.inode].kind = "dir" =>
          SeesNew(r, s, shown[pid][fd])

(* An entry that a reader passes is new to it. *)
LEMMA PassesNew ==
  ASSUME ReadersInv, NEW r, NEW s, r.offset \in Int, Passes(r, s), NEW seen, NEW lost,
         Reading(RAMDISK, r, seen, lost), r.offset < RAMDISK.inodes[r.inode].size
  PROVE  \E e \in EntriesIn(tree, r.inode) \ seen : ShownTo(r, s) = {e} /\ e # Root
<1> DEFINE d == r.inode
           o == r.offset
           n == RAMDISK.inodes[d].size
           e == DirCell(RAMDISK, d, o).data
<1>1. /\ Goes(r, s) /\ s.offset = o + 1 /\ ret' = 1
      /\ d \in Directories(RAMDISK) /\ o \in Int /\ o >= 0
  BY DEF Passes
<1>2. DiskInv(RAMDISK) /\ tree = Shows(RAMDISK)
  BY DEF ReadersInv, IInv
<1>3. n \in Nat
  BY <1>1, <1>2, DiskInvTypes DEF Directories
<1>4. EntriesIn(tree, d) = EntryData(RAMDISK, d)
  BY <1>1, <1>2, EntriesInIs
<1>5. o \in Positions(RAMDISK, d)
  BY <1>1, <1>3 DEF Positions
<1>6. ShownTo(r, s) = {e} /\ e \in EntryData(RAMDISK, d) /\ e # Root
  BY <1>1, <1>2, <1>5, BehindIs DEF ShownTo, EntryIs, EntryData, DiskInv, RootedTree, EntriesLead
<1>7. e \notin seen
  <2>1. Follows(RAMDISK, d, o, seen, lost)
    BY <1>1 DEF Reading
  <2>2. \A q \in 0 .. Lesser(o, n) - 1 : q \in Positions(RAMDISK, d) /\ q # o
    BY <1>1, <1>3 DEF Lesser, Positions
  <2>3. \A q \in 0 .. Lesser(o, n) - 1 : DirCell(RAMDISK, d, q).data # e
    BY <1>1, <1>2, <1>5, <2>2 DEF DiskInv, RootedTree, EntriesDiffer
  <2>4. e \notin BehindIn(RAMDISK, d, o)
    BY <2>3 DEF BehindIn
  <2>. QED  BY <2>1, <2>4 DEF Follows
<1>. QED  BY <1>4, <1>6, <1>7

(* No step shows anything else. *)
LEMMA NextShowsNew ==
  ASSUME SeekOffsets = {}, ListingInv, Shapes(RAMDISK), ListingNext
  PROVE  ShowsNew
<1>1. ReadersInv /\ FilesNext /\ Next
  BY DEF ListingInv, ListingNext, FilesNext
<1>2. descriptors' = Descriptors(fdtablea')
  BY <1>1, MapKept
<1>3. AllHandled
  BY <1>1, <1>2, CallsWell DEF WellHandled, Seeks
<1>4. DiskInv(RAMDISK) /\ tree = Shows(RAMDISK)
  BY <1>1 DEF ReadersInv, IInv
<1> SUFFICES ASSUME NEW pid \in Pids, NEW fd \in Slots,
                    Goes(descriptors[pid][fd], descriptors'[pid][fd]),
                    descriptors'[pid][fd].offset > descriptors[pid][fd].offset,
                    tree[descriptors[pid][fd].inode].kind = "dir"
             PROVE  SeesNew(descriptors[pid][fd], descriptors'[pid][fd], shown[pid][fd])
  BY DEF ShowsNew
<1>5. ASSUME NEW r, r = descriptors[pid][fd], NEW s, s = descriptors'[pid][fd],
             Goes(r, s), s.offset > r.offset, tree[r.inode].kind = "dir"
      PROVE  SeesNew(r, s, shown[pid][fd])
  <2>1. Handled(r, s) /\ r.offset \in Int /\ r.inode \in Inums /\ r # NoReader
    BY <1>1, <1>3, <1>5, ReaderTypes DEF AllHandled, Goes
  <2>2. r.inode \in Directories(RAMDISK)
    <3>1. AbsentNode.kind # "dir" /\ FileOf(RAMDISK, r.inode).kind # "dir"
      BY DEF AbsentNode, FileOf
    <3>. QED  BY <1>4, <1>5, <2>1, <3>1, ShownNode
  <2>3. Passes(r, s)
    <3>1. s # r
      BY <1>5, <2>1
    <3>2. s = NoReader => r.inode = -1
      BY <1>5 DEF Goes, NoReader
    <3>. QED  BY <2>1, <2>2, <3>1, <3>2 DEF Handled, Inums
  <2>4. RAMDISK.inodes[r.inode].size \in Nat /\ r.offset \in Nat
    BY <1>4, <2>1, <2>3, DiskInvTypes DEF Passes
  <2>5. CASE r.offset < RAMDISK.inodes[r.inode].size
    <3>1. Reading(RAMDISK, r, shown[pid][fd], missed[pid][fd])
      BY <1>5 DEF ListingInv
    <3>. QED  BY <1>1, <2>1, <2>3, <2>5, <3>1, PassesNew DEF SeesNew
  <2>6. CASE r.offset > RAMDISK.inodes[r.inode].size
    BY <1>4, <2>2, <2>3, <2>4, <2>6, BeyondCleared DEF Passes, SeesNew
  <2>. QED  BY <2>3, <2>4, <2>5, <2>6 DEF Passes
<1>. QED  BY <1>5

(***************************************************************************)
(* No listing shows an entry twice, and none shows a free entry before the *)
(* end of the directory, wherever rd_unlink moved entries meanwhile.  Only *)
(* a reader that stands beyond the end is shown free entries, to the end   *)
(* of the block that the end is in: other blocks are gone, and what is     *)
(* left of this one is cleared.                                            *)
(***************************************************************************)
THEOREM NewEntriesAreShown ==
  ASSUME SeekOffsets = {}
  PROVE  ListingSpec => ShowsNewEntries
<1>1. ListingInv /\ Shapes(RAMDISK) /\ [ListingNext]_listingVars => [ShowsNew]_descriptors
  BY NextShowsNew DEF listingVars
<1>2. ListingInit => Init
  BY DEF ListingInit, FilesInit
<1>3. [ListingNext]_listingVars => [Next]_vars
  BY DEF ListingNext, FilesNext, listingVars, vars
<1>4. ListingSpec => []Shapes(RAMDISK)
  BY <1>2, <1>3, ShapesHold, PTL DEF ListingSpec, Spec
<1>5. [ShowsNew]_descriptors <=>
      [\A pid \in Pids, fd \in Slots :
       LET r   == descriptors[pid][fd]
           s   == descriptors'[pid][fd]
           end == RAMDISK.inodes[r.inode].size
       IN  Goes(r, s) /\ s.offset > r.offset /\ tree[r.inode].kind = "dir" =>
             \/ \E e \in EntriesIn(tree, r.inode) \ shown[pid][fd] :
                  ShownTo(r, s) = {e} /\ e # Root
             \/ /\ r.offset > end
                /\ r.offset \div BLOCK_CELLS = end \div BLOCK_CELLS
                /\ Cell(RAMDISK, r.inode, r.offset) = Zero]_descriptors
  BY DEF ShowsNew, SeesNew
<1>. QED  BY <1>1, <1>4, <1>5, ListingInductive, PTL DEF ListingSpec, ShowsNewEntries
-----------------------------------------------------------------------------
(* What can be reached is a file or a directory. *)
LEMMA ReachedType ==
  ASSUME NEW rd, DiskInv(rd), NEW i \in Inums, Reached(rd, i)
  PROVE  rd.inodes[i].type = FILE \/ i \in Directories(rd)
<1> DEFINE S == {j \in Inums : rd.inodes[j].type # UNALLOCATED}
<1>1. Closed(rd, S)
  <2>1. Root \in S
    BY DiskInvTypes DEF Directories, DIR, UNALLOCATED
  <2>2. \A d \in Directories(rd) : \A p \in Positions(rd, d) : DirCell(rd, d, p).data \in S
    BY DEF DiskInv, RootedTree, EntriesLead
  <2>. QED  BY <2>1, <2>2 DEF Closed
<1>2. i \in S
  BY <1>1 DEF Reached
<1>3. rd.inodes[i].type \in {UNALLOCATED, FILE, DIR}
  <2>1. rd \in Disks
    BY DiskInvTypes
  <2>. QED  BY <2>1, DiskTypes DEF Nodes
<1>. QED  BY <1>2, <1>3 DEF Directories

(* The kind of a node says what can be reached. *)
LEMMA KindIs ==
  ASSUME NEW rd, DiskInv(rd), NEW i \in Inums, NEW node, node = Shows(rd)[i]
  PROVE  /\ node.kind = "dir" <=> Reached(rd, i) /\ i \in Directories(rd)
         /\ node.kind = "file" <=> Reached(rd, i) /\ rd.inodes[i].type = FILE
         /\ node.kind = "absent" <=> ~ Reached(rd, i)
         /\ node.kind = "dir" => node = [kind |-> "dir", entries |-> EntriesOf(rd, i)]
         /\ node.kind = "file" => node = FileOf(rd, i)
         /\ node.kind = "absent" => node = Files!Absent
<1>1. CASE ~ Reached(rd, i)
  <2>1. node = AbsentNode
    BY <1>1, ShownNode
  <2>. QED  BY <1>1, <2>1 DEF AbsentNode, Files!Absent
<1>2. CASE Reached(rd, i) /\ i \in Directories(rd)
  <2>1. node = [kind |-> "dir", entries |-> EntriesOf(rd, i)]
    BY <1>2, ShownNode
  <2>2. rd.inodes[i].type # FILE
    BY <1>2 DEF Directories, FILE, DIR
  <2>. QED  BY <1>2, <2>1, <2>2
<1>3. CASE Reached(rd, i) /\ i \notin Directories(rd)
  <2>1. node = FileOf(rd, i) /\ rd.inodes[i].type = FILE
    BY <1>3, ShownNode, ReachedType
  <2>2. node.kind = "file"
    BY <2>1 DEF FileOf
  <2>. QED  BY <1>3, <2>1, <2>2
<1>. QED  BY <1>1, <1>2, <1>3

-----------------------------------------------------------------------------
(***************************************************************************)
(* Paths                                                                   *)
(***************************************************************************)
(* What the search for a name finds is what the directory maps it to. *)
LEMMA SearchIs ==
  ASSUME NEW rd, DiskInv(rd), NEW i \in Inums, Reached(rd, i), NEW name \in Names,
         NEW found, found = FindEntry(rd, rd.inodes[i], name),
         NEW node, node = Shows(rd)[i]
  PROVE  \/ /\ found.inum = -1
            /\ node.kind = "dir" => name \notin DOMAIN node.entries
         \/ /\ found.inum \in Inums /\ node.kind = "dir"
            /\ name \in DOMAIN node.entries /\ node.entries[name] = found.inum
<1>1. rd \in Disks
  BY DiskInvTypes
<1>2. rd.inodes[i].type = DIR => InOrder(rd, i)
  BY DEF DiskInv, AllInOrder
<1>3. \/ /\ found = NotFound
         /\ \/ rd.inodes[i].type # DIR
            \/ \A p \in 0 .. rd.inodes[i].size - 1 : DirCell(rd, i, p).name # name
      \/ rd.inodes[i].type = DIR /\ \E p : Finds(rd, i, name, found, p)
  BY <1>1, <1>2, FindEntryResult
<1>4. node.kind = "dir" <=> rd.inodes[i].type = DIR
  BY KindIs DEF Directories
<1>5. node.kind = "dir" => i \in Directories(rd) /\ node.entries = EntriesOf(rd, i)
  BY KindIs
<1>6. CASE found = NotFound
  <2>1. found.inum = -1
    BY <1>6 DEF NotFound
  <2>2. ASSUME node.kind = "dir" PROVE name \notin DOMAIN node.entries
    <3>1. DOMAIN node.entries = EntryNames(rd, i)
      BY <1>5, <2>2, EntriesOfIs
    <3>2. \/ \A p \in 0 .. rd.inodes[i].size - 1 : DirCell(rd, i, p).name # name
          \/ \E p : Finds(rd, i, name, found, p)
      BY <1>3, <1>4, <2>2
    <3>3. \A p : ~ Finds(rd, i, name, found, p)
      <4>1. ASSUME NEW p, Finds(rd, i, name, found, p) PROVE FALSE
        <5>1. DirCell(rd, i, p).data = -1 /\ p \in Positions(rd, i)
          BY <2>1, <4>1 DEF Finds, Positions
        <5>2. DirCell(rd, i, p).data \in Inums
          BY <1>5, <2>2, <5>1 DEF DiskInv, RootedTree, EntriesLead
        <5>. QED  BY <5>1, <5>2, InodeAssumption DEF Inums
      <4>. QED  BY <4>1
    <3>. QED  BY <3>1, <3>2, <3>3 DEF EntryNames, Positions
  <2>. QED  BY <2>1, <2>2
<1>7. CASE rd.inodes[i].type = DIR /\ \E p : Finds(rd, i, name, found, p)
  <2>1. PICK p : Finds(rd, i, name, found, p)
    BY <1>7
  <2>2. /\ p \in Positions(rd, i) /\ found.inum = DirCell(rd, i, p).data
        /\ DirCell(rd, i, p).name = name
    BY <2>1 DEF Finds, Positions
  <2>3. node.kind = "dir" /\ i \in Directories(rd) /\ node.entries = EntriesOf(rd, i)
    BY <1>4, <1>5, <1>7
  <2>4. found.inum \in Inums
    BY <2>2, <2>3 DEF DiskInv, RootedTree, EntriesLead
  <2>5. name \in DOMAIN node.entries
    <3>1. name \in EntryNames(rd, i)
      BY <2>2 DEF EntryNames
    <3>. QED  BY <2>3, <3>1, EntriesOfIs
  <2>6. node.entries[name] = found.inum
    BY <2>2, <2>3, EntriesOfIs
  <2>. QED  BY <2>3, <2>4, <2>5, <2>6
<1>. QED  BY <1>3, <1>6, <1>7

(* One step of the walk along a path *)
LEMMA StepIs ==
  ASSUME NEW rd, DiskInv(rd), NEW i, Leads(rd, i), NEW name \in Labels
  PROVE  NextInode(rd, i, name) \in Files!Step(Shows(rd), i, name)
<1> DEFINE found == FindEntry(rd, rd.inodes[i], name)
           node  == Shows(rd)[i]
<1>1. rd \in Disks /\ Root \in Inums
  BY DiskInvTypes
<1>2. CASE i = -1
  BY <1>2 DEF NextInode, Files!Step
<1>3. CASE i \in Inums /\ Reached(rd, i)
  <2>1. ~ (i < 0)
    BY <1>3, InodeAssumption DEF Inums
  <2>2. rd.inodes[i].type = DIR => InOrder(rd, i)
    BY <1>3 DEF DiskInv, AllInOrder
  <2>3. NextInode(rd, i, name) = found.inum
    BY <2>1 DEF NextInode
  <2>4. node.kind = "dir" <=> rd.inodes[i].type = DIR
    BY <1>3, KindIs DEF Directories
  <2>5. Files!Step(Shows(rd), i, name) =
          IF node.kind # "dir" THEN {-1}
          ELSE IF name = NoName THEN {Root, -1}
          ELSE IF name \in DOMAIN node.entries THEN {node.entries[name]}
          ELSE {-1}
    BY <2>1 DEF Files!Step
  <2>6. CASE name = NoName
    <3>1. found = NotFound \/ (rd.inodes[i].type = DIR /\ found.inum = Root)
      BY <1>1, <1>3, <2>2, <2>6, FindNoName
    <3>2. NotFound.inum = -1
      BY DEF NotFound
    <3> HIDE DEF found, node
    <3>. QED  BY <2>3, <2>4, <2>5, <2>6, <3>1, <3>2
  <2>7. CASE name \in Names
    <3>1. name # NoName
      BY <2>7, EntryTypes
    <3>2. \/ found.inum = -1 /\ (node.kind = "dir" => name \notin DOMAIN node.entries)
          \/ /\ found.inum \in Inums /\ node.kind = "dir"
             /\ name \in DOMAIN node.entries /\ node.entries[name] = found.inum
      BY <1>3, <2>7, SearchIs
    <3> HIDE DEF found, node
    <3>. QED  BY <2>3, <2>5, <3>1, <3>2
  <2>. QED  BY <2>6, <2>7 DEF Labels
<1>. QED  BY <1>2, <1>3 DEF Leads

(* The equation of the recursive function in Ways *)
Waying(tr, path, f, m) ==
  f = [n \in 0 .. m |->
         IF n = 0 THEN {Root} ELSE UNION {Files!Step(tr, i, path[n]) : i \in f[n - 1]}]

(* There is a function that satisfies the equation. *)
LEMMA WayingExists ==
  ASSUME NEW tr, NEW path, NEW m \in Nat
  PROVE  \E f : Waying(tr, path, f, m)
<1> DEFINE Bad == {n \in Nat : ~ \E f : Waying(tr, path, f, n)}
           Further(S, n) == UNION {Files!Step(tr, i, path[n]) : i \in S}
<1> SUFFICES ASSUME Bad # {} PROVE FALSE
  OBVIOUS
<1>0. \A f, n : Waying(tr, path, f, n) <=>
        f = [k \in 0 .. n |-> IF k = 0 THEN {Root} ELSE Further(f[k - 1], k)]
  BY DEF Waying
<1>1. PICK n \in Bad : \A k \in Bad : n <= k
  <2>1. Bad \in SUBSET Nat
    OBVIOUS
  <2> HIDE DEF Bad
  <2>. QED  BY <2>1, MinIsLeast
<1>2. n # 0
  <2> HIDE DEF Further
  <2> DEFINE f == [k \in 0 .. 0 |-> {Root}]
  <2>0. f = [k \in 0 .. 0 |-> IF k = 0 THEN {Root} ELSE Further(f[k - 1], k)]
    OBVIOUS
  <2> HIDE DEF f
  <2>1. Waying(tr, path, f, 0)
    BY <1>0, <2>0
  <2>. QED  BY <2>1
<1>3. n - 1 \in Nat /\ n - 1 \notin Bad
  BY <1>1, <1>2
<1>4. PICK f : Waying(tr, path, f, n - 1)
  BY <1>3
<1> HIDE DEF Further
<1> DEFINE g == [k \in 0 .. n |-> IF k = 0 THEN {Root} ELSE Further(f[k - 1], k)]
<1>5. \A k \in 0 .. n - 1 : g[k] = f[k]
  <2>1. \A k \in 0 .. n - 1 : f[k] = IF k = 0 THEN {Root} ELSE Further(f[k - 1], k)
    BY <1>0, <1>4
  <2>2. \A k \in 0 .. n - 1 : k \in 0 .. n
    BY <1>1
  <2>. QED  BY <2>1, <2>2
<1>6. \A k \in 0 .. n : k = 0 \/ k - 1 \in 0 .. n - 1
  BY <1>1
<1>7. g = [k \in 0 .. n |-> IF k = 0 THEN {Root} ELSE Further(g[k - 1], k)]
  BY <1>5, <1>6
<1>8. Waying(tr, path, g, n)
  BY <1>0, <1>7
<1>. QED  BY <1>1, <1>8

(* The recursive function in Ways satisfies its equation. *)
LEMMA WaysLead ==
  ASSUME NEW tr, NEW path \in Seq(Labels)
  PROVE  /\ Files!Ways(tr, path)[0] = {Root}
         /\ \A n \in 1 .. Len(path) :
              Files!Ways(tr, path)[n]
                = UNION {Files!Step(tr, i, path[n]) : i \in Files!Ways(tr, path)[n - 1]}
<1> DEFINE f == CHOOSE f : Waying(tr, path, f, Len(path))
<1>1. Len(path) \in Nat
  OBVIOUS
<1>2. Waying(tr, path, f, Len(path))
  BY <1>1, WayingExists
<1>3. Files!Ways(tr, path) = f
  BY DEF Files!Ways, Waying
<1> HIDE DEF f
<1>4. \A n \in 0 .. Len(path) :
        f[n] = IF n = 0 THEN {Root} ELSE UNION {Files!Step(tr, i, path[n]) : i \in f[n - 1]}
  BY <1>2 DEF Waying
<1>5. f[0] = {Root}
  <2>1. 0 \in 0 .. Len(path)
    BY <1>1
  <2>2. \A n \in 0 .. Len(path) : n = 0 => f[n] = {Root}
    <3>1. ASSUME NEW n \in 0 .. Len(path), n = 0 PROVE f[n] = {Root}
      <4>1. f[n] = IF n = 0 THEN {Root} ELSE UNION {Files!Step(tr, i, path[n]) : i \in f[n - 1]}
        BY <1>4
      <4>. QED  BY <3>1, <4>1
    <3>. QED  BY <3>1
  <2>. QED  BY <2>1, <2>2
<1>6. ASSUME NEW n \in 1 .. Len(path)
      PROVE  f[n] = UNION {Files!Step(tr, i, path[n]) : i \in f[n - 1]}
  <2>1. n \in 0 .. Len(path) /\ n # 0
    BY <1>1
  <2>2. f[n] = IF n = 0 THEN {Root} ELSE UNION {Files!Step(tr, i, path[n]) : i \in f[n - 1]}
    BY <1>4, <2>1
  <2>. QED  BY <2>1, <2>2
<1>. QED  BY <1>3, <1>5, <1>6

(* The walk goes one of the ways along the path. *)
LEMMA StepsAreWays ==
  ASSUME NEW rd, DiskInv(rd), NEW path \in Seq(Labels)
  PROVE  \A n \in 0 .. Len(path) : Steps(rd, path)[n] \in Files!Ways(Shows(rd), path)[n]
<1> DEFINE tr == Shows(rd)
           Bad == {n \in 0 .. Len(path) : Steps(rd, path)[n] \notin Files!Ways(tr, path)[n]}
<1> SUFFICES ASSUME Bad # {} PROVE FALSE
  OBVIOUS
<1>1. Len(path) \in Nat /\ Bad \in SUBSET Nat
  OBVIOUS
<1>2. PICK n \in Bad : \A k \in Bad : n <= k
  <2> HIDE DEF Bad
  <2>. QED  BY <1>1, MinIsLeast
<1>3. n # 0
  <2>1. Steps(rd, path)[0] \in Files!Ways(tr, path)[0]
    BY StepsLead, WaysLead
  <2>. QED  BY <2>1
<1>4. n - 1 \in 0 .. Len(path) /\ n - 1 \notin Bad /\ n \in 1 .. Len(path) /\ path[n] \in Labels
  BY <1>1, <1>2, <1>3
<1>5. Steps(rd, path)[n - 1] \in Files!Ways(tr, path)[n - 1] /\ Leads(rd, Steps(rd, path)[n - 1])
  BY <1>4, StepsReach
<1>6. NextInode(rd, Steps(rd, path)[n - 1], path[n])
        \in Files!Step(tr, Steps(rd, path)[n - 1], path[n])
  BY <1>4, <1>5, StepIs
<1>7. Steps(rd, path)[n] = NextInode(rd, Steps(rd, path)[n - 1], path[n])
  BY <1>4, StepsLead
<1>8. Files!Ways(tr, path)[n]
        = UNION {Files!Step(tr, i, path[n]) : i \in Files!Ways(tr, path)[n - 1]}
  BY <1>4, WaysLead
<1> HIDE DEF tr
<1>9. Steps(rd, path)[n] \in Files!Ways(tr, path)[n]
  BY <1>5, <1>6, <1>7, <1>8
<1>. QED  BY <1>2, <1>9

(* A path leads where FileSystem says it may. *)
LEMMA WalkIs ==
  ASSUME NEW rd, DiskInv(rd), NEW path \in Seq(Labels)
  PROVE  WalkPath(rd, path) \in Files!Leads(Shows(rd), path)
<1>1. Len(path) \in 0 .. Len(path)
  OBVIOUS
<1>2. Steps(rd, path)[Len(path)] \in Files!Ways(Shows(rd), path)[Len(path)]
  BY <1>1, StepsAreWays
<1>. QED  BY <1>2 DEF WalkPath, Files!Leads

(* And so does its parent. *)
LEMMA ParentIs ==
  ASSUME NEW rd, DiskInv(rd), NEW path \in Seq(Labels)
  PROVE  GetParent(rd, path) \in Files!Parents(Shows(rd), path)
<1>1. CASE path = <<>>
  BY <1>1 DEF GetParent, Files!Parents
<1>2. CASE path # <<>> /\ Len(path) = 1
  BY <1>2 DEF GetParent, Files!Parents
<1>3. CASE path # <<>> /\ Len(path) # 1
  <2>1. Front(path) \in Seq(Labels)
    <3>1. Len(path) # 0
      BY <1>3
    <3>. QED  BY <3>1, FrontIs
  <2>2. Files!Front(path) = Front(path)
    BY DEF Files!Front, Front
  <2>3. WalkPath(rd, Front(path)) \in Files!Leads(Shows(rd), Front(path))
    BY <2>1, WalkIs
  <2>. QED  BY <1>3, <2>2, <2>3 DEF GetParent, Files!Parents
<1>. QED  BY <1>1, <1>2, <1>3
-----------------------------------------------------------------------------
(***************************************************************************)
(* Descriptors and what they stand for                                     *)
(***************************************************************************)
(* The mapping after a step, and the processes that have opened something *)
MapsOn == tree' = Shows(RAMDISK') /\ descriptors' = Descriptors(fdtablea')

KnownSame ==
  {p \in Pids : HasTable(fdtablea', p)} = {p \in Pids : HasTable(fdtablea, p)}

(* A call that only answers *)
LEMMA AnswerSame ==
  ASSUME ReadersInv, MapsOn, NEW r, Answer(r)
  PROVE  ret' = r /\ tree' = tree /\ descriptors' = descriptors /\ KnownSame
BY DEF Answer, ReadersInv, MapsOn, KnownSame

LEMMA AnswerRefuses ==
  ASSUME ReadersInv, MapsOn, Answer(-1)
  PROVE  Files!Refuse
BY AnswerSame DEF Files!Refuse, KnownSame

(* The descriptors as a function *)
LEMMA DescriptorsFunction ==
  ASSUME ReadersInv
  PROVE  descriptors = [p \in Pids |-> [s \in Slots |-> descriptors[p][s]]]
BY DEF ReadersInv, Descriptors

(* What an open descriptor is *)
LEMMA OpenIs ==
  ASSUME ReadersInv, NEW pid \in Pids, NEW fd
  PROVE  /\ Files!D!IsOpen(pid, fd) <=> InodeOf(pid, fd) >= 0
         /\ Files!D!IsOpen(pid, fd) =>
              /\ fd \in Slots /\ InodeOf(pid, fd) \in Inums /\ PositionOf(pid, fd) \in Int
              /\ descriptors[pid][fd] = [inode |-> InodeOf(pid, fd), offset |-> PositionOf(pid, fd)]
              /\ descriptors[pid][fd].inode = InodeOf(pid, fd)
              /\ descriptors[pid][fd].offset = PositionOf(pid, fd)
BY DescriptorAt DEF ReadersInv

(* A descriptor that is usable for a kind of node stands for one, unless   *)
(* its inode can no longer be reached.                                     *)
LEMMA StandsIs ==
  ASSUME ReadersInv, NEW pid \in Pids, NEW fd
  PROVE  /\ Files!Stands(pid, fd, "dir") <=>
              Usable(pid, fd, DIR) /\ Reached(RAMDISK, InodeOf(pid, fd))
         /\ Files!Stands(pid, fd, "file") <=>
              Usable(pid, fd, FILE) /\ Reached(RAMDISK, InodeOf(pid, fd))
<1> DEFINE i == InodeOf(pid, fd)
<1>1. CASE ~ Files!D!IsOpen(pid, fd)
  BY <1>1, OpenIs DEF Files!Stands, Usable
<1>2. CASE Files!D!IsOpen(pid, fd)
  <2>1. i \in Inums /\ i >= 0 /\ descriptors[pid][fd].inode = i
        /\ descriptors[pid][fd].offset = PositionOf(pid, fd)
    BY <1>2, OpenIs
  <2>2. DiskInv(RAMDISK) /\ tree[i] = Shows(RAMDISK)[i]
    BY DEF ReadersInv, IInv
  <2>3. /\ tree[i].kind = "dir" <=> Reached(RAMDISK, i) /\ i \in Directories(RAMDISK)
        /\ tree[i].kind = "file" <=> Reached(RAMDISK, i) /\ RAMDISK.inodes[i].type = FILE
    BY <2>1, <2>2, KindIs
  <2>4. i \in Directories(RAMDISK) <=> RAMDISK.inodes[i].type = DIR
    BY <2>1 DEF Directories
  <2>5. /\ Files!Stands(pid, fd, "dir") <=> PositionOf(pid, fd) >= 0 /\ tree[i].kind = "dir"
        /\ Files!Stands(pid, fd, "file") <=> PositionOf(pid, fd) >= 0 /\ tree[i].kind = "file"
    BY <1>2, <2>1 DEF Files!Stands
  <2>6. \A type : Usable(pid, fd, type) <=>
                    PositionOf(pid, fd) >= 0 /\ RAMDISK.inodes[i].type = type
    BY <2>1 DEF Usable
  <2> HIDE DEF i
  <2>. QED  BY <2>3, <2>4, <2>5, <2>6 DEF i
<1>. QED  BY <1>1, <1>2

(* A call with a descriptor on an inode that can no longer be reached *)
LEMMA AstrayIs ==
  ASSUME ReadersInv, NEW pid \in Pids, NEW fd, Files!D!IsOpen(pid, fd),
         ~ Reached(RAMDISK, InodeOf(pid, fd)), KnownSame, tree' = tree,
         \/ descriptors' = descriptors
         \/ \E offset : descriptors' = [descriptors EXCEPT ![pid][fd].offset = offset]
  PROVE  Files!Astray(pid, fd)
<1> DEFINE i == InodeOf(pid, fd)
           r == descriptors[pid][fd]
<1>1. i \in Inums /\ r.inode = i /\ fd \in Slots
      /\ r = [inode |-> i, offset |-> PositionOf(pid, fd)]
  BY OpenIs
<1>2. DiskInv(RAMDISK) /\ tree[i] = Shows(RAMDISK)[i]
  BY DEF ReadersInv, IInv
<1>3. tree[i].kind = "absent"
  BY <1>1, <1>2, KindIs
<1>4. descriptors' = [descriptors EXCEPT ![pid][fd].offset = descriptors'[pid][fd].offset]
  <2>1. \A offset : [descriptors EXCEPT ![pid][fd].offset = offset][pid][fd].offset = offset
    <3>1. descriptors = [p \in Pids |-> [s \in Slots |-> descriptors[p][s]]]
      BY DescriptorsFunction
    <3> HIDE DEF i
    <3>. QED  BY <1>1, <3>1
  <2>2. CASE descriptors' = descriptors
    <3>1. descriptors = [p \in Pids |-> [s \in Slots |-> descriptors[p][s]]]
      BY DescriptorsFunction
    <3>2. [r EXCEPT !.offset = r.offset] = r
      BY <1>1
    <3>3. [descriptors EXCEPT ![pid][fd].offset = r.offset]
            = [p \in Pids |-> [s \in Slots |->
                 IF p = pid /\ s = fd THEN [r EXCEPT !.offset = r.offset] ELSE descriptors[p][s]]]
      BY <1>1, <3>1
    <3>4. \A p \in Pids, s \in Slots :
            (IF p = pid /\ s = fd THEN [r EXCEPT !.offset = r.offset] ELSE descriptors[p][s])
              = descriptors[p][s]
      BY <3>2
    <3>5. [p \in Pids |-> [s \in Slots |->
              IF p = pid /\ s = fd THEN [r EXCEPT !.offset = r.offset] ELSE descriptors[p][s]]]
            = [p \in Pids |-> [s \in Slots |-> descriptors[p][s]]]
      <4> HIDE DEF r
      <4>. QED  BY <3>4
    <3> HIDE DEF i
    <3>. QED  BY <2>2, <3>1, <3>3, <3>5
  <2>. QED  BY <2>1, <2>2
<1>. QED  BY <1>1, <1>3, <1>4 DEF Files!Astray, Files!MoveTo, KnownSame

(* A call that moves a descriptor, and may leave the disk alone *)
LEMMA MovesOn ==
  ASSUME ReadersInv, MapsOn, NEW pid \in Pids, NEW fd, NEW offset \in Int,
         MoveTo(pid, fd, offset), ret' \in Int
  PROVE  /\ (RAMDISK' = RAMDISK => tree' = tree) /\ KnownSame
         /\ ~ Files!D!IsOpen(pid, fd) => descriptors' = descriptors
         /\ Files!D!IsOpen(pid, fd) =>
              /\ descriptors' = [descriptors EXCEPT ![pid][fd].offset = offset]
              /\ Files!MoveTo(pid, fd, offset)
              /\ descriptors'[pid][fd].offset = offset
<1>1. RAMDISK' = RAMDISK => tree' = tree
  BY DEF ReadersInv, MapsOn
<1>2. /\ KnownSame
      /\ ~ Files!D!IsOpen(pid, fd) => descriptors' = descriptors
      /\ Files!D!IsOpen(pid, fd) =>
              descriptors' = [descriptors EXCEPT ![pid][fd].offset = offset]
  BY MoveStep DEF ReadersInv, IInv, MapsOn, KnownSame
<1>3. Files!D!IsOpen(pid, fd) => descriptors'[pid][fd].offset = offset
  <2>1. descriptors = [p \in Pids |-> [s \in Slots |-> descriptors[p][s]]]
    BY DescriptorsFunction
  <2>2. Files!D!IsOpen(pid, fd) =>
          fd \in Slots
          /\ descriptors[pid][fd] = [inode |-> InodeOf(pid, fd), offset |-> PositionOf(pid, fd)]
    BY OpenIs
  <2>. QED  BY <1>2, <2>1, <2>2
<1>. QED  BY <1>1, <1>2, <1>3 DEF Files!MoveTo, KnownSame

-----------------------------------------------------------------------------
(***************************************************************************)
(* The calls that do not change the disk                                   *)
(***************************************************************************)
LEMMA OpenImplements ==
  ASSUME ReadersInv, MapsOn, NEW pid \in Pids, NEW path \in Paths, rd_open(pid, path)
  PROVE  Files!OpenPath(pid, path)
<1> DEFINE i == WalkPath(RAMDISK, path)
<1>1. DiskInv(RAMDISK) /\ path \in Seq(Labels) /\ tree = Shows(RAMDISK)
  BY PathLabels DEF ReadersInv, IInv
<1>2. i \in Files!Leads(tree, path) /\ Leads(RAMDISK, i)
  BY <1>1, WalkIs, WalkLeads
<1>3. CASE i < 0
  <2>1. i = -1
    BY <1>2, <1>3, InodeAssumption DEF Leads, Inums
  <2>2. Answer(-1)
    BY <1>3 DEF rd_open
  <2>. QED  BY <1>2, <2>1, <2>2, AnswerRefuses DEF Files!OpenPath
<1>4. CASE ~ (i < 0)
  <2>1. i \in Inums /\ i # -1
    BY <1>2, <1>4 DEF Leads
  <2>2. /\ fdtablea' = CreateEntry(fdtablea, pid, i).tables
        /\ ret' = CreateEntry(fdtablea, pid, i).fd /\ RAMDISK' = RAMDISK
    BY <1>4 DEF rd_open
  <2>3. tree' = tree
    BY <2>2 DEF ReadersInv, MapsOn
  <2> HIDE DEF i
  <2>4. Files!D!Open(pid, i)
    BY <2>1, <2>2, OpenStep DEF ReadersInv, MapsOn, IInv
  <2>. QED  BY <1>2, <2>1, <2>3, <2>4 DEF Files!OpenPath
<1>. QED  BY <1>3, <1>4

LEMMA CloseImplements ==
  ASSUME ReadersInv, MapsOn, NEW pid \in Pids, NEW fd \in Fds, rd_close(pid, fd)
  PROVE  Files!Close(pid, fd)
<1>1. fd \in Int
  BY RamdiskAssumption
<1>2. Files!D!Close(pid, fd)
  BY <1>1, CloseStep DEF ReadersInv, IInv, MapsOn
<1>3. tree' = tree
  BY DEF rd_close, ReadersInv, MapsOn
<1>. QED  BY <1>2, <1>3 DEF Files!Close

(* A directory has as many names as its size says. *)
LEMMA NamesCounted ==
  ASSUME NEW rd, DiskInv(rd), NEW d \in Directories(rd)
  PROVE  Files!Cardinality(DOMAIN EntriesOf(rd, d)) = rd.inodes[d].size
<1> DEFINE f == [p \in Positions(rd, d) |-> DirCell(rd, d, p).name]
<1>1. rd.inodes[d].size \in Nat
  BY DiskInvTypes
<1>2. IsFiniteSet(Positions(rd, d)) /\ Cardinality(Positions(rd, d)) = rd.inodes[d].size
  <2> DEFINE n == rd.inodes[d].size
  <2>1. 0 \in Int /\ n - 1 \in Int /\ Positions(rd, d) = 0 .. n - 1
    BY <1>1 DEF Positions
  <2> HIDE DEF n
  <2>2. IsFiniteSet(0 .. n - 1) /\ Cardinality(0 .. n - 1) = IF 0 > n - 1 THEN 0 ELSE (n - 1) - 0 + 1
    BY <2>1, FS_Interval
  <2>3. n \in Nat
    BY <1>1 DEF n
  <2>. QED  BY <2>1, <2>2, <2>3 DEF n
<1>3. f \in Bijection(Positions(rd, d), EntryNames(rd, d))
  <2>1. f \in Surjection(Positions(rd, d), EntryNames(rd, d))
    BY DEF Surjection, EntryNames
  <2>2. \A p, q \in Positions(rd, d) : f[p] = f[q] => p = q
    BY DiskInvTypes DEF InOrder, NamesDiffer, Positions
  <2>3. f \in [Positions(rd, d) -> EntryNames(rd, d)]
    BY DEF EntryNames
  <2> HIDE DEF f
  <2>4. f \in Injection(Positions(rd, d), EntryNames(rd, d))
    BY <2>2, <2>3 DEF Injection, IsInjective
  <2>. QED  BY <2>1, <2>4 DEF Bijection
<1>4. ExistsBijection(Positions(rd, d), EntryNames(rd, d))
  BY <1>3 DEF ExistsBijection
<1>5. Cardinality(EntryNames(rd, d)) = rd.inodes[d].size
  BY <1>2, <1>4, FS_Bijection
<1>6. \A S : Files!Cardinality(S) = Cardinality(S)
  BY DEF Files!Cardinality, Cardinality
<1>. QED  BY <1>5, <1>6, EntriesOfIs

LEMMA ReaddirImplements ==
  ASSUME ReadersInv, MapsOn, NEW pid \in Pids, NEW fd, rd_readdir(pid, fd)
  PROVE  Files!ReadDir(pid, fd) \/ Files!Astray(pid, fd)
<1> DEFINE i    == InodeOf(pid, fd)
           pos  == PositionOf(pid, fd)
           size == RAMDISK.inodes[i].size
<1>1. CASE ~ Usable(pid, fd, DIR)
  BY <1>1, AnswerRefuses, StandsIs DEF rd_readdir, Files!ReadDir
<1>2. CASE Usable(pid, fd, DIR)
  <2>1. Files!D!IsOpen(pid, fd)
    BY <1>2, OpenIs DEF Usable
  <2>2. i \in Inums /\ pos \in Int /\ pos >= 0 /\ i \in Directories(RAMDISK)
    BY <1>2, <2>1, OpenIs DEF Usable, Directories
  <2>3. DiskInv(RAMDISK) /\ tree = Shows(RAMDISK) /\ size \in Nat
    BY <2>2, DiskInvTypes DEF ReadersInv, IInv
  <2>4. \/ Answer(-1) /\ pos > size
        \/ Answer(0) /\ pos = size
        \/ pos # size /\ MoveTo(pid, fd, pos + 1) /\ ret' = 1 /\ RAMDISK' = RAMDISK
    <3>1. GetBlock(RAMDISK, RAMDISK.inodes[i], pos) = NULL => ~ (pos < size)
      <4>1. ASSUME pos < size PROVE GetBlock(RAMDISK, RAMDISK.inodes[i], pos) # NULL
        <5>1. pos \in 0 .. size - 1 /\ pos \in Nat
          BY <2>2, <2>3, <4>1
        <5>2. Blk(RAMDISK, i, pos \div BLOCK_CELLS) \in Blocks
          BY <2>2, <2>3, <5>1, DiskInvTypes, DirCellIs DEF InOrder
        <5>. QED  BY <5>1, <5>2, GetBlockIsBlk, InodeAssumption DEF Blocks, NULL
      <4>. QED  BY <4>1
    <3>. QED  BY <1>2, <2>2, <2>3, <3>1 DEF rd_readdir
  <2>5. CASE Reached(RAMDISK, i)
    <3>1. Files!Stands(pid, fd, "dir")
      BY <1>2, <2>5, StandsIs
    <3>2. descriptors[pid][fd].offset = pos /\ descriptors[pid][fd].inode = i
      BY <2>1, OpenIs
    <3>3. Files!Cardinality(DOMAIN tree[i].entries) = size
      <4>1. tree[i].entries = EntriesOf(RAMDISK, i)
        <5>1. tree[i] = Shows(RAMDISK)[i]
          BY <2>3
        <5>. QED  BY <2>2, <2>3, <2>5, <5>1, KindIs
      <4>. QED  BY <2>2, <2>3, <4>1, NamesCounted
    <3>4. CASE Answer(-1) /\ pos > size
      <4>1. Files!Refuse
        BY <3>4, AnswerRefuses
      <4>. QED  BY <3>1, <3>2, <3>3, <3>4, <4>1 DEF Files!ReadDir
    <3>5. CASE Answer(0) /\ pos = size
      <4>1. ret' = 0 /\ tree' = tree /\ descriptors' = descriptors /\ KnownSame
        BY <3>5, AnswerSame
      <4>. QED  BY <3>1, <3>2, <3>3, <3>5, <4>1 DEF Files!ReadDir, KnownSame
    <3>6. CASE pos # size /\ MoveTo(pid, fd, pos + 1) /\ ret' = 1 /\ RAMDISK' = RAMDISK
      <4>1. tree' = tree /\ Files!MoveTo(pid, fd, pos + 1)
        BY <2>1, <2>2, <3>6, MovesOn
      <4>. QED  BY <3>1, <3>2, <3>3, <3>6, <4>1 DEF Files!ReadDir
    <3>. QED  BY <2>4, <3>4, <3>5, <3>6
  <2>6. CASE ~ Reached(RAMDISK, i)
    <3>1. CASE \E r \in {-1, 0} : Answer(r)
      BY <2>1, <2>6, <3>1, AnswerSame, AstrayIs
    <3>2. CASE pos # size /\ MoveTo(pid, fd, pos + 1) /\ ret' = 1 /\ RAMDISK' = RAMDISK
      <4>1. /\ tree' = tree /\ KnownSame
            /\ descriptors' = [descriptors EXCEPT ![pid][fd].offset = pos + 1]
        BY <2>1, <2>2, <3>2, MovesOn
      <4>. QED  BY <2>1, <2>6, <4>1, AstrayIs
    <3>. QED  BY <2>4, <3>1, <3>2
  <2>. QED  BY <2>5, <2>6
<1>. QED  BY <1>1, <1>2

LEMMA SeekImplements ==
  ASSUME ReadersInv, MapsOn, NEW pid \in Pids, NEW fd, NEW offset \in SeekOffsets,
         rd_seek(pid, fd, offset)
  PROVE  Files!Seek(pid, fd, offset)
<1> DEFINE i == InodeOf(pid, fd)
<1>1. offset \in Int /\ SeekOffsets \subseteq Int
  BY RamdiskAssumption
<1>2. PICK target \in Target(pid, fd, offset) : MoveTo(pid, fd, target)
  BY DEF rd_seek
<1>3. ret' = 0 /\ RAMDISK' = RAMDISK
  BY DEF rd_seek
<1>4. i \in Inums \cup {-1} /\ (i >= 0 => i \in Inums /\ RAMDISK.inodes[i].size \in Nat)
  BY UsableTypes DEF ReadersInv
<1>5. target \in Int
  BY <1>1, <1>2, <1>4 DEF Target
<1>6. /\ tree' = tree /\ KnownSame
      /\ ~ Files!D!IsOpen(pid, fd) => descriptors' = descriptors
      /\ Files!D!IsOpen(pid, fd) =>
              Files!MoveTo(pid, fd, target) /\ descriptors'[pid][fd].offset = target
  BY <1>2, <1>3, <1>5, MovesOn
<1>7. CASE ~ Files!D!IsOpen(pid, fd)
  BY <1>3, <1>6, <1>7 DEF Files!Seek, KnownSame
<1>8. CASE Files!D!IsOpen(pid, fd)
  <2>1. i \in Inums /\ i >= 0 /\ descriptors[pid][fd].inode = i
    BY <1>8, OpenIs
  <2>2. target = IF offset = -1 THEN RAMDISK.inodes[i].size ELSE offset
    BY <1>2, <2>1 DEF Target
  <2>3. RAMDISK.inodes[i].size \in Files!SizeOf(i)
    <3>1. DiskInv(RAMDISK) /\ tree[i] = Shows(RAMDISK)[i]
      BY DEF ReadersInv, IInv
    <3>2. CASE tree[i].kind = "dir"
      <4>1. i \in Directories(RAMDISK) /\ tree[i].entries = EntriesOf(RAMDISK, i)
        BY <2>1, <3>1, <3>2, KindIs
      <4>. QED  BY <3>1, <3>2, <4>1, NamesCounted DEF Files!SizeOf
    <3>3. CASE tree[i].kind = "file"
      <4>1. tree[i] = FileOf(RAMDISK, i)
        BY <2>1, <3>1, <3>3, KindIs
      <4>. QED  BY <3>3, <4>1 DEF Files!SizeOf, FileOf
    <3>4. CASE tree[i].kind # "dir" /\ tree[i].kind # "file"
      BY <1>4, <2>1, <3>4 DEF Files!SizeOf
    <3>. QED  BY <3>2, <3>3, <3>4
  <2> HIDE DEF i
  <2>. QED  BY <1>3, <1>6, <1>8, <2>1, <2>2, <2>3 DEF Files!Seek
<1>. QED  BY <1>7, <1>8

(* A file is whole if it has no hole. *)
LEMMA WholeIs ==
  ASSUME NEW rd, NEW i
  PROVE  FileOf(rd, i).whole <=> ~ HasHole(rd, i)
<1>1. FileOf(rd, i).whole = ~ HasHole(rd, i)
  BY Zenon DEF FileOf
<1>. QED  BY <1>1

LEMMA ReadImplements ==
  ASSUME ReadersInv, MapsOn, NEW pid \in Pids, NEW fd, NEW n \in ReadLens, rd_read(pid, fd, n)
  PROVE  Files!Read(pid, fd, n) \/ Files!Astray(pid, fd)
<1> DEFINE i     == InodeOf(pid, fd)
           pos   == PositionOf(pid, fd)
           node  == RAMDISK.inodes[i]
           total == Lesser(n, node.size - pos)
           holes == {p \in pos .. pos + total - 1 : GetBlock(RAMDISK, node, p) = NULL}
<1>1. CASE ~ Usable(pid, fd, FILE)
  BY <1>1, AnswerRefuses, StandsIs DEF rd_read, Files!Read
<1>2. CASE Usable(pid, fd, FILE)
  <2>1. Files!D!IsOpen(pid, fd)
    BY <1>2, OpenIs DEF Usable
  <2>2. i \in Inums /\ pos \in Int /\ pos >= 0 /\ node.type = FILE
    BY <1>2, <2>1, OpenIs DEF Usable
  <2>3. DiskInv(RAMDISK) /\ tree = Shows(RAMDISK) /\ node.size \in Nat
    BY <2>2, DiskInvTypes DEF ReadersInv, IInv
  <2>4. n \in Nat
    BY RamdiskAssumption
  <2>5. total \in Int /\ total <= node.size - pos /\ pos + total \in Int
    BY <2>2, <2>3, <2>4 DEF Lesser
  <2>6. \/ Answer(-1) /\ pos < node.size /\ holes # {}
        \/ Answer(0) /\ pos >= node.size
        \/ pos < node.size /\ MoveTo(pid, fd, pos + total) /\ ret' = total /\ RAMDISK' = RAMDISK
    BY <1>2, <2>2, <2>3 DEF rd_read
  <2>7. CASE Reached(RAMDISK, i)
    <3>1. Files!Stands(pid, fd, "file")
      BY <1>2, <2>7, StandsIs
    <3>2. descriptors[pid][fd].offset = pos /\ descriptors[pid][fd].inode = i
      BY <2>1, OpenIs
    <3>3. tree[i] = FileOf(RAMDISK, i)
      <4>1. tree[i] = Shows(RAMDISK)[i]
        BY <2>3
      <4>. QED  BY <2>2, <2>3, <2>7, <4>1, KindIs
    <3>4. tree[i].size = node.size /\ (tree[i].whole <=> ~ HasHole(RAMDISK, i))
      <4>1. FileOf(RAMDISK, i).size = node.size
        BY DEF FileOf
      <4>2. FileOf(RAMDISK, i).whole <=> ~ HasHole(RAMDISK, i)
        BY WholeIs
      <4> HIDE DEF node
      <4>. QED  BY <3>3, <4>1, <4>2
    <3>5. CASE Answer(-1) /\ pos < node.size /\ holes # {}
      <4>1. Files!Refuse
        BY <3>5, AnswerRefuses
      <4>2. PICK p \in pos .. pos + total - 1 : GetBlock(RAMDISK, node, p) = NULL
        BY <3>5
      <4>3. p \in 0 .. node.size - 1
        <5> HIDE DEF total
        <5>. QED  BY <2>2, <2>3, <2>5, <4>2
      <4>4. HasHole(RAMDISK, i)
        BY <4>2, <4>3 DEF HasHole
      <4>. QED  BY <3>1, <3>2, <3>4, <4>1, <4>4 DEF Files!Read
    <3>6. CASE Answer(0) /\ pos >= node.size
      <4>1. ret' = 0 /\ tree' = tree /\ descriptors' = descriptors /\ KnownSame
        BY <3>6, AnswerSame
      <4>. QED  BY <3>1, <3>2, <3>4, <3>6, <4>1 DEF Files!Read, KnownSame
    <3>7. CASE pos < node.size /\ MoveTo(pid, fd, pos + total) /\ ret' = total /\ RAMDISK' = RAMDISK
      <4>1. tree' = tree /\ Files!MoveTo(pid, fd, pos + total)
        BY <2>1, <2>5, <3>7, MovesOn
      <4>2. total = Files!Min({n, node.size - pos})
        <5>1. \A x, y \in Int : Files!Min({x, y}) = Lesser(x, y)
          <6>1. ASSUME NEW x \in Int, NEW y \in Int PROVE Files!Min({x, y}) = Lesser(x, y)
            <7>1. Lesser(x, y) \in {x, y} /\ \A z \in {x, y} : Lesser(x, y) <= z
              BY DEF Lesser
            <7>. QED  BY <7>1 DEF Files!Min
          <6>. QED  BY <6>1
        <5>. QED  BY <2>2, <2>3, <2>4, <5>1
      <4> HIDE DEF total
      <4>. QED  BY <3>1, <3>2, <3>4, <3>7, <4>1, <4>2 DEF Files!Read
    <3>. QED  BY <2>6, <3>5, <3>6, <3>7
  <2>8. CASE ~ Reached(RAMDISK, i)
    <3>1. CASE \E r \in {-1, 0} : Answer(r)
      BY <2>1, <2>8, <3>1, AnswerSame, AstrayIs
    <3>2. CASE MoveTo(pid, fd, pos + total) /\ ret' = total /\ RAMDISK' = RAMDISK
      <4>1. /\ tree' = tree /\ KnownSame
            /\ descriptors' = [descriptors EXCEPT ![pid][fd].offset = pos + total]
        BY <2>1, <2>5, <3>2, MovesOn
      <4>. QED  BY <2>1, <2>8, <4>1, AstrayIs
    <3>. QED  BY <2>6, <3>1, <3>2
  <2>. QED  BY <2>7, <2>8
<1>. QED  BY <1>1, <1>2
-----------------------------------------------------------------------------
(***************************************************************************)
(* What the mapping shows of an inode before and after a call              *)
(***************************************************************************)
(* A file whose tree is kept is the same. *)
LEMMA FileSame ==
  ASSUME NEW rd, DiskInv(rd), NEW e, NEW i \in Inums, Kept(rd, e, i)
  PROVE  FileOf(e, i) = FileOf(rd, i)
<1> DEFINE n == rd.inodes[i].size
<1>1. n \in Nat /\ rd \in Disks /\ OnePlace(rd) /\ e.inodes[i] = rd.inodes[i]
  BY DiskInvTypes DEF Kept, Sound
<1>2. ASSUME NEW p \in 0 .. n - 1
      PROVE  /\ GetBlock(e, e.inodes[i], p) = GetBlock(rd, rd.inodes[i], p)
             /\ Cell(e, i, p) = Cell(rd, i, p)
  <2>1. p \in Nat /\ p \div BLOCK_CELLS \in Nat
    BY <1>1, SlotOf
  <2> DEFINE k == p \div BLOCK_CELLS
  <2>2. Blk(e, i, k) = Blk(rd, i, k)
        /\ (Blk(rd, i, k) # NULL => e.data[Blk(rd, i, k)] = rd.data[Blk(rd, i, k)])
    BY <1>1, <2>1, KeptAny
  <2>. QED  BY <2>1, <2>2, GetBlockIsBlk, CellIs
<1>3. HasHole(e, i) <=> HasHole(rd, i)
  <2>1. \A p \in 0 .. n - 1 : GetBlock(e, e.inodes[i], p) = GetBlock(rd, rd.inodes[i], p)
    BY <1>2
  <2>. QED  BY <1>1, <2>1 DEF HasHole
<1>4. Contents(e, i) = Contents(rd, i)
  <2>1. \A p \in 0 .. n - 1 : Cell(e, i, p) = Cell(rd, i, p)
    BY <1>2
  <2>. QED  BY <1>1, <2>1 DEF Contents
<1>5. CASE HasHole(rd, i)
  <2>1. HasHole(e, i)
    BY <1>3, <1>5
  <2>2. HasHole(e, i) = HasHole(rd, i)
    BY <2>1, <1>5, <1>3, Zenon DEF HasHole
  <2>. QED  BY <1>1, <1>4, <2>2 DEF FileOf
<1>6. CASE ~ HasHole(rd, i)
  <2>1. ~ HasHole(e, i)
    BY <1>3, <1>6
  <2>2. HasHole(e, i) = HasHole(rd, i)
    BY <2>1, <1>6, <1>3, Zenon DEF HasHole
  <2>. QED  BY <1>1, <1>4, <2>2 DEF FileOf
<1>. QED  BY <1>5, <1>6

(* A directory whose entries are the same *)
LEMMA EntriesSame ==
  ASSUME NEW rd, DiskInv(rd), NEW e, DiskInv(e), NEW d \in Directories(rd), d \in Directories(e),
         Positions(e, d) = Positions(rd, d),
         \A p \in Positions(rd, d) : DirCell(e, d, p) = DirCell(rd, d, p)
  PROVE  EntriesOf(e, d) = EntriesOf(rd, d)
<1>1. EntryNames(e, d) = EntryNames(rd, d)
  BY DEF EntryNames
<1>2. \A name \in EntryNames(rd, d) : EntriesOf(e, d)[name] = EntriesOf(rd, d)[name]
  <2>1. ASSUME NEW name \in EntryNames(rd, d)
        PROVE  EntriesOf(e, d)[name] = EntriesOf(rd, d)[name]
    <3>1. PICK p \in Positions(rd, d) : name = DirCell(rd, d, p).name
      BY DEF EntryNames
    <3>. QED  BY <3>1, EntriesOfIs
  <2>. QED  BY <2>1
<1>3. /\ EntriesOf(e, d) = [name \in EntryNames(e, d) |-> EntriesOf(e, d)[name]]
      /\ EntriesOf(rd, d) = [name \in EntryNames(rd, d) |-> EntriesOf(rd, d)[name]]
  BY EntriesOfIs
<1>. QED  BY <1>1, <1>2, <1>3

(* One that got an entry *)
WithName(f, name, c) == [n \in DOMAIN f \cup {name} |-> IF n = name THEN c ELSE f[n]]

LEMMA EntriesGrew ==
  ASSUME NEW rd, DiskInv(rd), NEW e, DiskInv(e), NEW d \in Directories(rd), d \in Directories(e),
         NEW name \in Names, NEW c \in Inums, DirExtended(rd, e, d, name, c)
  PROVE  /\ name \notin DOMAIN EntriesOf(rd, d)
         /\ EntriesOf(e, d) = WithName(EntriesOf(rd, d), name, c)
<1> DEFINE size == rd.inodes[d].size
<1>1. size \in Nat /\ e.inodes[d].size = size + 1
      /\ (\A p \in Positions(rd, d) : DirCell(e, d, p) = DirCell(rd, d, p))
      /\ DirCell(e, d, size).name = name /\ DirCell(e, d, size).data = c
  BY DiskInvTypes DEF DirExtended, DirEntry, Positions
<1>2. Positions(e, d) = Positions(rd, d) \cup {size} /\ size \notin Positions(rd, d)
  BY <1>1 DEF Positions
<1>3. NamesDiffer(e, d)
  BY DiskInvTypes DEF InOrder
<1>4. DOMAIN EntriesOf(rd, d) = EntryNames(rd, d)
  BY EntriesOfIs
<1>5. name \notin EntryNames(rd, d)
  <2>1. \A p \in Positions(e, d) : DirCell(e, d, p).name = name => p = size
    BY <1>1, <1>2, <1>3 DEF NamesDiffer, Positions
  <2>. QED  BY <1>1, <1>2, <2>1 DEF EntryNames
<1>6. EntryNames(e, d) = EntryNames(rd, d) \cup {name}
  BY <1>1, <1>2 DEF EntryNames
<1>7. \A n \in EntryNames(rd, d) : EntriesOf(e, d)[n] = EntriesOf(rd, d)[n]
  <2>1. ASSUME NEW n \in EntryNames(rd, d)
        PROVE  EntriesOf(e, d)[n] = EntriesOf(rd, d)[n]
    <3>1. PICK p \in Positions(rd, d) : n = DirCell(rd, d, p).name
      BY DEF EntryNames
    <3>. QED  BY <1>1, <1>2, <3>1, EntriesOfIs
  <2>. QED  BY <2>1
<1>8. EntriesOf(e, d)[name] = c
  BY <1>1, <1>2, EntriesOfIs
<1>9. EntriesOf(e, d) = [n \in EntryNames(e, d) |-> EntriesOf(e, d)[n]]
  BY EntriesOfIs
<1>. QED  BY <1>4, <1>5, <1>6, <1>7, <1>8, <1>9 DEF WithName

(* And one that lost the entry at position p *)
WithoutName(f, name) == [n \in DOMAIN f \ {name} |-> f[n]]

LEMMA EntriesShrank ==
  ASSUME NEW rd, DiskInv(rd), NEW e, DiskInv(e), NEW d \in Directories(rd), d \in Directories(e),
         NEW p, Shrank(rd, e, d, p), NEW name, name = DirCell(rd, d, p).name
  PROVE  EntriesOf(e, d) = WithoutName(EntriesOf(rd, d), name)
<1> DEFINE l == LastEntry(rd, d)
           From(q) == IF q = p THEN l ELSE q
<1>1. rd.inodes[d].size \in Nat /\ p \in Positions(rd, d) /\ e.inodes[d].size = l
  BY DiskInvTypes DEF Shrank
<1>2. l \in Positions(rd, d) /\ l = rd.inodes[d].size - 1 /\ Positions(e, d) = Positions(rd, d) \ {l}
  BY <1>1 DEF Positions, LastEntry
<1>3. \A q \in Positions(e, d) :
        /\ From(q) \in Positions(rd, d) /\ From(q) # p
        /\ DirCell(e, d, q) = DirCell(rd, d, From(q))
  <2>1. \A q \in Positions(e, d) : DirCell(e, d, q) = DirCell(rd, d, From(q))
    BY DEF Shrank
  <2>2. \A q \in Positions(e, d) : From(q) \in Positions(rd, d) /\ From(q) # p
    BY <1>1, <1>2
  <2>. QED  BY <2>1, <2>2
<1>4. \A r \in Positions(rd, d) : r # p => \E q \in Positions(e, d) : r = From(q)
  <2>1. ASSUME NEW r \in Positions(rd, d), r # p
        PROVE  \E q \in Positions(e, d) : r = From(q)
    <3>1. CASE r = l
      BY <1>1, <1>2, <2>1, <3>1
    <3>2. CASE r # l
      BY <1>2, <2>1, <3>2
    <3>. QED  BY <3>1, <3>2
  <2>. QED  BY <2>1
<1>5. \A q, r \in Positions(rd, d) : DirCell(rd, d, q).name = DirCell(rd, d, r).name => q = r
  BY DiskInvTypes DEF InOrder, NamesDiffer, Positions
<1> HIDE DEF From
<1>6. EntryNames(e, d) = EntryNames(rd, d) \ {name}
  <2>1. \A n \in EntryNames(e, d) : n \in EntryNames(rd, d) /\ n # name
    BY <1>1, <1>3, <1>5 DEF EntryNames
  <2>2. \A n \in EntryNames(rd, d) : n # name => n \in EntryNames(e, d)
    <3>1. ASSUME NEW n \in EntryNames(rd, d), n # name PROVE n \in EntryNames(e, d)
      <4>1. PICK r \in Positions(rd, d) : n = DirCell(rd, d, r).name
        BY DEF EntryNames
      <4>2. PICK q \in Positions(e, d) : r = From(q)
        BY <1>4, <3>1, <4>1
      <4>. QED  BY <1>3, <4>1, <4>2 DEF EntryNames
    <3>. QED  BY <3>1
  <2>. QED  BY <2>1, <2>2
<1>7. \A n \in EntryNames(e, d) : EntriesOf(e, d)[n] = EntriesOf(rd, d)[n]
  <2>1. ASSUME NEW n \in EntryNames(e, d) PROVE EntriesOf(e, d)[n] = EntriesOf(rd, d)[n]
    <3>1. PICK q \in Positions(e, d) : n = DirCell(e, d, q).name
      BY DEF EntryNames
    <3>. QED  BY <1>3, <3>1, EntriesOfIs
  <2>. QED  BY <2>1
<1>8. /\ EntriesOf(e, d) = [n \in EntryNames(e, d) |-> EntriesOf(e, d)[n]]
      /\ DOMAIN EntriesOf(rd, d) = EntryNames(rd, d)
  BY EntriesOfIs
<1>. QED  BY <1>6, <1>7, <1>8 DEF WithoutName

(* One without entries *)
LEMMA NoEntries ==
  ASSUME NEW rd, DiskInv(rd), NEW d \in Directories(rd), rd.inodes[d].size = 0
  PROVE  EntriesOf(rd, d) = <<>>
<1>1. EntryNames(rd, d) = {}
  BY DEF EntryNames, Positions
<1>. QED  BY <1>1, EntriesOfIs

(* And a file without cells *)
LEMMA NoCells ==
  ASSUME NEW rd, NEW i, rd.inodes[i].size = 0
  PROVE  FileOf(rd, i) = Files!EmptyFile
<1>1. ~ HasHole(rd, i)
  BY DEF HasHole
<1>2. (~ HasHole(rd, i)) = TRUE
  BY <1>1
<1>3. Contents(rd, i) = <<>>
  BY DEF Contents
<1>. QED  BY <1>1, <1>2, <1>3 DEF FileOf, Files!EmptyFile

(* What is not touched is shown as it was. *)
LEMMA ShownSame ==
  ASSUME NEW rd, DiskInv(rd), NEW e, DiskInv(e), NEW i \in Inums,
         Reached(e, i) <=> Reached(rd, i), e.inodes[i].type = rd.inodes[i].type,
         rd.inodes[i].type = DIR => DirKept(rd, e, i),
         rd.inodes[i].type = FILE => Kept(rd, e, i)
  PROVE  Shows(e)[i] = Shows(rd)[i]
<1>1. CASE ~ Reached(rd, i)
  BY <1>1, ShownNode
<1>2. CASE Reached(rd, i) /\ i \in Directories(rd)
  <2>1. i \in Directories(e)
    BY <1>2 DEF Directories
  <2>2. EntriesOf(e, i) = EntriesOf(rd, i)
    <3>1. DirKept(rd, e, i)
      BY <1>2 DEF Directories
    <3>. QED  BY <1>2, <2>1, <3>1, KeptEntries, EntriesSame
  <2>. QED  BY <1>2, <2>1, <2>2, ShownNode
<1>3. CASE Reached(rd, i) /\ i \notin Directories(rd)
  <2>1. rd.inodes[i].type = FILE /\ i \notin Directories(e)
    BY <1>3, ReachedType DEF Directories
  <2>2. FileOf(e, i) = FileOf(rd, i)
    BY <2>1, FileSame
  <2>. QED  BY <1>3, <2>1, <2>2, ShownNode
<1>. QED  BY <1>1, <1>2, <1>3

(* The tree is a function on the inode numbers. *)
LEMMA ShowsIs ==
  ASSUME NEW rd
  PROVE  Shows(rd) = [i \in Inums |-> Shows(rd)[i]]
BY DEF Shows, Tree
-----------------------------------------------------------------------------
(***************************************************************************)
(* What can be reached before and after a call                             *)
(***************************************************************************)
(* Entries that were there before, with their directories, or lead to c *)
EntriesFrom(rd, e, c) ==
  \A d \in Directories(e) : \A p \in Positions(e, d) :
    /\ d \in Directories(rd)
    /\ \/ DirCell(e, d, p).data = c
       \/ \E q \in Positions(rd, d) : DirCell(e, d, p) = DirCell(rd, d, q)

(* If c had no entries, all that can be reached could be, but for c. *)
LEMMA ReachedBefore ==
  ASSUME NEW rd, NEW e, NEW c \in Inums, EntriesFrom(rd, e, c),
         c \in Directories(rd) => Positions(rd, c) = {},
         NEW i, Reached(e, i), i # c
  PROVE  Reached(rd, i)
<1>1. ASSUME NEW known \in SUBSET Inums, Closed(rd, known)
      PROVE  i \in known
  <2>1. known \cup {c} \in SUBSET Inums
    OBVIOUS
  <2>2. Closed(e, known \cup {c})
    <3>1. Root \in known
      BY <1>1 DEF Closed
    <3>2. ASSUME NEW d \in Directories(e), NEW p \in Positions(e, d), d \in known \cup {c}
          PROVE  DirCell(e, d, p).data \in known \cup {c}
      <4>1. CASE DirCell(e, d, p).data = c
        BY <4>1
      <4>2. CASE DirCell(e, d, p).data # c
        <5>1. d \in Directories(rd)
          BY DEF EntriesFrom
        <5>2. PICK q \in Positions(rd, d) : DirCell(e, d, p) = DirCell(rd, d, q)
          BY <4>2 DEF EntriesFrom
        <5>3. d \in known
          BY <3>2, <5>1, <5>2
        <5>. QED  BY <1>1, <5>1, <5>2, <5>3 DEF Closed
      <4>. QED  BY <4>1, <4>2
    <3>. QED  BY <3>1, <3>2 DEF Closed
  <2>. QED  BY <2>1, <2>2 DEF Reached
<1>. QED  BY <1>1 DEF Reached

(* An inode that is free cannot be reached. *)
LEMMA FreeIs ==
  ASSUME NEW rd, DiskInv(rd), NEW c \in Inums, rd.inodes[c].type = UNALLOCATED
  PROVE  ~ Reached(rd, c) /\ c \notin Directories(rd)
BY ReachedType DEF Directories, UNALLOCATED, FILE, DIR

(* The directories when an inode is taken *)
LEMMA CreatedEntries ==
  ASSUME NEW rd, DiskInv(rd), NEW e, NEW c, NEW type, Created(rd, e, c, type),
         NEW S, DirsKept(rd, e, S), NEW d \in Directories(e), d \notin S,
         NEW p \in Positions(e, d)
  PROVE  d \in Directories(rd) /\ p \in Positions(rd, d) /\ DirCell(e, d, p) = DirCell(rd, d, p)
<1>1. d # c
  <2>1. ASSUME d = c PROVE FALSE
    <3>1. e.inodes[c].size = 0
      BY DEF Created
    <3>. QED  BY <2>1, <3>1 DEF Positions
  <2>. QED  BY <2>1
<1>2. d \in Inums /\ rd.inodes[d].type = DIR
  BY <1>1 DEF Created, Directories
<1>3. DirKept(rd, e, d)
  BY <1>2 DEF DirsKept
<1>. QED  BY <1>2, <1>3 DEF DirKept, Positions, Directories

(* When no entry is made nothing changes. *)
LEMMA OrphanShown ==
  ASSUME NEW rd, DiskInv(rd), NEW e, DiskInv(e), NEW c, NEW type, Created(rd, e, c, type),
         DirsKept(rd, e, {})
  PROVE  Shows(e) = Shows(rd)
<1>1. c \in Inums /\ rd.inodes[c].type = UNALLOCATED /\ ~ Reached(rd, c) /\ c \notin Directories(rd)
  BY FreeIs DEF Created, Unallocated
<1>2. EntriesFrom(rd, e, c)
  BY CreatedEntries DEF EntriesFrom
<1>3. EntriesStay(rd, e)
  <2>1. ASSUME NEW d \in Directories(rd)
        PROVE  d \in Directories(e) /\ DirKept(rd, e, d)
    <3>1. d # c /\ d \in Inums
      BY <1>1 DEF Directories
    <3>. QED  BY <3>1 DEF Created, DirsKept, Directories
  <2>. QED  BY <2>1 DEF EntriesStay, DirKept, Positions
<1>4. ~ Reached(e, c)
  <2>1. Closed(e, Inums \ {c})
    <3>1. Root \in Inums \ {c}
      BY <1>1, DiskInvTypes
    <3>2. ASSUME NEW d \in Directories(e), NEW p \in Positions(e, d)
          PROVE  DirCell(e, d, p).data \in Inums \ {c}
      <4>1. d \in Directories(rd) /\ p \in Positions(rd, d) /\ DirCell(e, d, p) = DirCell(rd, d, p)
        BY CreatedEntries
      <4>. QED  BY <1>1, <4>1 DEF DiskInv, RootedTree, EntriesLead
    <3>. QED  BY <3>1, <3>2 DEF Closed
  <2>. QED  BY <2>1 DEF Reached
<1>5. ASSUME NEW i \in Inums PROVE Shows(e)[i] = Shows(rd)[i]
  <2>1. Reached(e, i) <=> Reached(rd, i)
    BY <1>1, <1>2, <1>3, <1>4, ReachedBefore, ReachedStays
  <2>2. CASE i = c
    BY <1>1, <1>4, <2>2, ShownNode
  <2>3. CASE i # c
    <3>1. e.inodes[i].type = rd.inodes[i].type
      BY <2>3 DEF Created
    <3>2. rd.inodes[i].type = FILE => Kept(rd, e, i)
      BY <2>3 DEF Created, FilesKept
    <3>3. rd.inodes[i].type = DIR => DirKept(rd, e, i)
      BY DEF DirsKept
    <3>. QED  BY <2>1, <3>1, <3>2, <3>3, ShownSame
  <2>. QED  BY <2>2, <2>3
<1>. QED  BY <1>5, ShowsIs

(* What a new inode is to a user *)
NewNode(type) == IF type = DIR THEN Files!EmptyDir ELSE Files!EmptyFile

(* An inode that is taken and gets an entry can be reached, and nothing else. *)
LEMMA EnteredShown ==
  ASSUME NEW rd, DiskInv(rd), NEW made, NEW d \in Inums, NEW name \in Names,
         NEW type \in {FILE, DIR}, Entered(rd, made, d, name, type), Reached(rd, d),
         NEW c, c = made.inum, NEW e, e = made.rd
  PROVE  /\ c \in Inums \ {d} /\ ~ Reached(rd, c) /\ d \in Directories(rd)
         /\ name \notin DOMAIN EntriesOf(rd, d)
         /\ Shows(e) = [Shows(rd) EXCEPT
                          ![d] = Files!WithEntry([kind |-> "dir", entries |-> EntriesOf(rd, d)],
                                                 name, c),
                          ![c] = NewNode(type)]
<1>1. /\ c \in Inums /\ rd.inodes[d].type = DIR /\ Created(rd, e, c, type)
      /\ DirExtended(rd, e, d, name, c) /\ DirsKept(rd, e, {d})
  BY DEF Entered
<1>2. c \in Inums /\ rd.inodes[c].type = UNALLOCATED /\ ~ Reached(rd, c) /\ c \notin Directories(rd)
  BY <1>1, FreeIs DEF Created, Unallocated
<1>3. d \in Directories(rd) /\ c # d
  BY <1>1, <1>2 DEF Directories
<1>4. DiskInv(e) /\ EntriesStay(rd, e)
  BY TreeEntered
<1>5. d \in Directories(e)
  BY <1>3, <1>4 DEF EntriesStay
<1>6. /\ name \notin DOMAIN EntriesOf(rd, d)
      /\ EntriesOf(e, d) = WithName(EntriesOf(rd, d), name, c)
  BY <1>1, <1>3, <1>4, <1>5, EntriesGrew
<1>7. EntriesFrom(rd, e, c)
  <2>1. ASSUME NEW x \in Directories(e), NEW p \in Positions(e, x)
        PROVE  /\ x \in Directories(rd)
               /\ \/ DirCell(e, x, p).data = c
                  \/ \E q \in Positions(rd, x) : DirCell(e, x, p) = DirCell(rd, x, q)
    <3>1. CASE x # d
      BY <1>1, <3>1, CreatedEntries
    <3>2. CASE x = d
      <4>1. rd.inodes[d].size \in Nat
        BY DiskInvTypes
      <4>2. p \in Positions(rd, d) \/ p = rd.inodes[d].size
        BY <1>1, <3>2, <4>1 DEF DirExtended, Positions
      <4>. QED  BY <1>1, <1>3, <3>2, <4>2 DEF DirExtended, DirEntry, Positions
    <3>. QED  BY <3>1, <3>2
  <2>. QED  BY <2>1 DEF EntriesFrom
<1>8. Reached(e, d) /\ Reached(e, c)
  <2>1. Reached(e, d)
    BY <1>4, ReachedStays
  <2>2. rd.inodes[d].size \in Positions(e, d) /\ DirCell(e, d, rd.inodes[d].size).data = c
    <3>1. rd.inodes[d].size \in Nat
      BY DiskInvTypes
    <3>. QED  BY <1>1, <3>1 DEF DirExtended, DirEntry, Positions
  <2>. QED  BY <1>4, <1>5, <2>1, <2>2, ReachedEntry
<1>9. Shows(e)[d] = Files!WithEntry([kind |-> "dir", entries |-> EntriesOf(rd, d)], name, c)
  <2>1. Shows(e)[d] = [kind |-> "dir", entries |-> EntriesOf(e, d)]
    BY <1>4, <1>5, <1>8, ShownNode
  <2>. QED  BY <1>6, <2>1 DEF Files!WithEntry, WithName
<1>10. Shows(e)[c] = NewNode(type)
  <2>1. e.inodes[c].type = type /\ e.inodes[c].size = 0
    BY <1>1 DEF Created
  <2>2. CASE type = DIR
    <3>1. c \in Directories(e)
      BY <1>1, <2>1, <2>2 DEF Directories
    <3>2. EntriesOf(e, c) = <<>>
      BY <1>4, <2>1, <3>1, NoEntries
    <3>3. Shows(e)[c] = [kind |-> "dir", entries |-> EntriesOf(e, c)]
      BY <1>1, <1>4, <1>8, <3>1, ShownNode
    <3>. QED  BY <2>2, <3>2, <3>3 DEF NewNode, Files!EmptyDir
  <2>3. CASE type # DIR
    <3>1. c \notin Directories(e)
      BY <2>1, <2>3 DEF Directories
    <3>2. FileOf(e, c) = Files!EmptyFile
      BY <2>1, NoCells
    <3>3. Shows(e)[c] = FileOf(e, c)
      BY <1>1, <1>4, <1>8, <3>1, ShownNode
    <3>. QED  BY <2>3, <3>2, <3>3 DEF NewNode
  <2>. QED  BY <2>2, <2>3
<1>11. ASSUME NEW i \in Inums, i # c, i # d PROVE Shows(e)[i] = Shows(rd)[i]
  <2>1. Reached(e, i) <=> Reached(rd, i)
    BY <1>2, <1>4, <1>7, <1>11, ReachedBefore, ReachedStays
  <2>2. e.inodes[i].type = rd.inodes[i].type /\ (rd.inodes[i].type = FILE => Kept(rd, e, i))
    BY <1>1, <1>11 DEF Created, FilesKept
  <2>3. rd.inodes[i].type = DIR => DirKept(rd, e, i)
    BY <1>1, <1>11 DEF DirsKept
  <2>. QED  BY <1>4, <2>1, <2>2, <2>3, ShownSame
<1>12. Shows(e) = [Shows(rd) EXCEPT
                     ![d] = Files!WithEntry([kind |-> "dir", entries |-> EntriesOf(rd, d)], name, c),
                     ![c] = NewNode(type)]
  <2> DEFINE x == Files!WithEntry([kind |-> "dir", entries |-> EntriesOf(rd, d)], name, c)
             y == NewNode(type)
  <2>1. Shows(e)[d] = x /\ Shows(e)[c] = y
    BY <1>9, <1>10
  <2> HIDE DEF x, y
  <2>2. Shows(e) = [Shows(rd) EXCEPT ![d] = x, ![c] = y]
    <3>1. /\ Shows(e) = [i \in Inums |-> Shows(e)[i]]
          /\ Shows(rd) = [i \in Inums |-> Shows(rd)[i]]
      BY ShowsIs
    <3>. QED  BY <1>1, <1>3, <1>11, <2>1, <3>1
  <2>. QED  BY <2>2 DEF x, y
<1>. QED  BY <1>1, <1>2, <1>3, <1>6, <1>12
(* An inode that is freed with its entry can no longer be reached; all else can. *)
LEMMA UnlinkedShown ==
  ASSUME NEW rd, DiskInv(rd), NEW d, NEW found, NEW p, Removable(rd, d, found, p),
         ~ (rd.inodes[found.inum].type = DIR /\ rd.inodes[found.inum].size > 0),
         NEW e, e = RemoveEntry(DeallocateInode(Release(rd, found.inum), found.inum), d, found),
         Reached(rd, d), NEW c, c = found.inum, NEW name, name = DirCell(rd, d, p).name
  PROVE  Shows(e) = [Shows(rd) EXCEPT
                       ![c] = Files!Absent,
                       ![d] = Files!WithoutEntry([kind |-> "dir", entries |-> EntriesOf(rd, d)],
                                                 name)]
<1>1. /\ d \in Directories(rd) /\ p \in Positions(rd, d) /\ c = DirCell(rd, d, p).data
      /\ c \in Inums \ {d} /\ rd.inodes[c].type # UNALLOCATED
  BY DEF Removable
<1>2. DiskInv(e) /\ EntriesElse(rd, e, d, p, c) /\ Unlinked(rd, e, d, p, c)
      /\ (rd.inodes[c].type = DIR => rd.inodes[c].size = 0)
  BY UnlinkTree DEF Vacated
<1>3. EntryGone(rd, e, d, p)
  BY <1>1, <1>2, UnlinkedEntries
<1>4. d \in Inums /\ e.inodes[d].type = DIR /\ d \in Directories(e)
  BY <1>1, <1>2 DEF Unlinked, Directories
<1>5. c \notin Directories(e) /\ ~ Reached(e, c)
  BY <1>1, <1>2, FreeIs DEF Unlinked
<1>6. c \in Directories(rd) => Positions(rd, c) = {}
  BY <1>2 DEF Directories, Positions
<1>7. \A i : Reached(e, i) => Reached(rd, i)
  <2>1. EntriesFrom(rd, e, c)
    BY <1>3 DEF EntryGone, EntriesFrom
  <2>. QED  BY <1>1, <1>5, <1>6, <2>1, ReachedBefore
<1>8. ASSUME NEW i \in Inums, i # c, Reached(rd, i) PROVE Reached(e, i)
  <2>1. ASSUME NEW known \in SUBSET Inums, Closed(e, known) PROVE i \in known
    <3>1. known \cup {c} \in SUBSET Inums
      BY <1>1
    <3>2. Closed(rd, known \cup {c})
      <4>1. Root \in known
        BY <2>1 DEF Closed
      <4>2. ASSUME NEW x \in Directories(rd), NEW r \in Positions(rd, x), x \in known \cup {c}
            PROVE  DirCell(rd, x, r).data \in known \cup {c}
        <5>1. x # c
          BY <1>6, <4>2
        <5>2. \/ x = d /\ r = p
              \/ x \in Directories(e) /\ \E q \in Positions(e, x) : DirCell(e, x, q) = DirCell(rd, x, r)
          BY <1>2, <5>1 DEF EntriesElse
        <5>3. CASE x = d /\ r = p
          BY <1>1, <5>3
        <5>4. CASE x \in Directories(e) /\ \E q \in Positions(e, x) : DirCell(e, x, q) = DirCell(rd, x, r)
          BY <2>1, <4>2, <5>1, <5>4 DEF Closed
        <5>. QED  BY <5>2, <5>3, <5>4
      <4>. QED  BY <4>1, <4>2 DEF Closed
    <3>. QED  BY <1>8, <3>1, <3>2 DEF Reached
  <2>. QED  BY <2>1 DEF Reached
<1>9. Shows(e)[c] = Files!Absent
  BY <1>1, <1>2, <1>5, KindIs
<1>10. Shows(e)[d] = Files!WithoutEntry([kind |-> "dir", entries |-> EntriesOf(rd, d)], name)
  <2>1. Shrank(rd, e, d, p)
    BY <1>1, <1>2 DEF Unlinked, Shrank, Positions, LastEntry
  <2>2. EntriesOf(e, d) = WithoutName(EntriesOf(rd, d), name)
    BY <1>1, <1>2, <1>4, <2>1, EntriesShrank
  <2>3. Reached(e, d)
    BY <1>1, <1>4, <1>8
  <2>4. Shows(e)[d] = [kind |-> "dir", entries |-> EntriesOf(e, d)]
    BY <1>2, <1>4, <2>3, ShownNode
  <2>. QED  BY <2>2, <2>4 DEF Files!WithoutEntry, WithoutName
<1>11. ASSUME NEW i \in Inums, i # c, i # d PROVE Shows(e)[i] = Shows(rd)[i]
  <2>1. Reached(e, i) <=> Reached(rd, i)
    BY <1>7, <1>8, <1>11
  <2>2. e.inodes[i].type = rd.inodes[i].type /\ (rd.inodes[i].type = FILE => Kept(rd, e, i))
    BY <1>2, <1>11 DEF Unlinked, FilesKept
  <2>3. rd.inodes[i].type = DIR => DirKept(rd, e, i)
    BY <1>2, <1>11 DEF Unlinked, DirsKept
  <2>. QED  BY <1>2, <2>1, <2>2, <2>3, ShownSame
<1> DEFINE x == Files!Absent
           y == Files!WithoutEntry([kind |-> "dir", entries |-> EntriesOf(rd, d)], name)
<1>12. Shows(e)[c] = x /\ Shows(e)[d] = y
  BY <1>9, <1>10
<1> HIDE DEF x, y
<1>13. Shows(e) = [Shows(rd) EXCEPT ![c] = x, ![d] = y]
  <2>1. Shows(e) = [i \in Inums |-> Shows(e)[i]] /\ Shows(rd) = [i \in Inums |-> Shows(rd)[i]]
    BY ShowsIs
  <2>. QED  BY <1>1, <1>4, <1>11, <1>12, <2>1
<1>. QED  BY <1>13 DEF x, y

-----------------------------------------------------------------------------
(***************************************************************************)
(* The calls that make and remove files and directories                    *)
(***************************************************************************)
LEMMA MakeImplements ==
  ASSUME ReadersInv, MapsOn, NEW path \in Paths, NEW type \in {FILE, DIR}, Make(path, type)
  PROVE  Files!Make(path, NewNode(type))
<1> DEFINE d    == GetParent(RAMDISK, path)
           made == AddEntry(RAMDISK, d, Last(path), type)
<1>1. DiskInv(RAMDISK) /\ path \in Seq(Labels) /\ tree = Shows(RAMDISK)
  BY PathLabels DEF ReadersInv, IInv
<1>2. CASE d < 0
  <2>1. Answer(-1)
    BY <1>2 DEF Make
  <2>. QED  BY <2>1, AnswerRefuses DEF Files!Make
<1>3. CASE ~ (d < 0)
  <2>1. /\ RAMDISK' = made.rd
        /\ ret' = IF made.inum >= 0 THEN 0 ELSE -1
        /\ fdtablea' = fdtablea
    BY <1>3 DEF Make
  <2>2. d \in Inums /\ Reached(RAMDISK, d) /\ d # -1
    BY <1>1, <1>3, ParentLeads DEF Leads
  <2>3. path # <<>>
    BY <1>3 DEF GetParent
  <2>4. Last(path) \in Names \cup {NoName} /\ Files!Last(path) = Last(path)
    BY <1>1, <2>3, FrontIs DEF Labels, Files!Last, Last
  <2>5. Counted(RAMDISK) /\ AllInOrder(RAMDISK) /\ RoomLeft(RAMDISK)
    BY <1>1, TreeRoom DEF DiskInv
  <2>6. d \in Files!Parents(tree, path) \ {-1}
    BY <1>1, <2>2, ParentIs
  <2>7. descriptors' = descriptors /\ KnownSame
    BY <2>1 DEF MapsOn, ReadersInv, KnownSame
  <2> HIDE DEF d
  <2>8. \/ Refused(RAMDISK, made)
        \/ Orphaned(RAMDISK, made, type)
        \/ Entered(RAMDISK, made, d, Last(path), type) /\ Last(path) \in Names
    BY <2>2, <2>4, <2>5, AddEntryResult
  <2> HIDE DEF made
  <2>9. CASE Refused(RAMDISK, made)
    <3>1. ret' = -1 /\ tree' = tree
      BY <1>1, <2>1, <2>9 DEF Refused, MapsOn
    <3>. QED  BY <2>7, <3>1 DEF Files!Make, Files!Refuse, KnownSame
  <2>10. CASE Orphaned(RAMDISK, made, type)
    <3>1. ret' = -1
      BY <2>1, <2>10 DEF Orphaned
    <3>2. PICK c : Created(RAMDISK, made.rd, c, type) /\ DirsKept(RAMDISK, made.rd, {})
      BY <2>10 DEF Orphaned
    <3>3. DiskInv(made.rd)
      <4>1. \A j \in Inums : made.rd.inodes[j].type # RAMDISK.inodes[j].type => j = c
        BY <3>2 DEF Created
      <4>2. /\ Counted(made.rd) /\ RAMDISK.inodes[c].type = UNALLOCATED
            /\ made.rd.inodes[c].type = DIR => made.rd.inodes[c].size = 0 /\ InOrder(made.rd, c)
        BY <3>2 DEF Created, Unallocated
      <4>. QED  BY <1>1, <3>2, <4>1, <4>2, TreeSame
    <3> DEFINE e == made.rd
    <3>4. Created(RAMDISK, e, c, type) /\ DirsKept(RAMDISK, e, {}) /\ DiskInv(e)
      BY <3>2, <3>3
    <3> HIDE DEF e
    <3>5. Shows(e) = Shows(RAMDISK)
      BY <1>1, <3>4, OrphanShown
    <3>6. tree' = tree
      BY <1>1, <2>1, <3>5 DEF MapsOn, e
    <3>. QED  BY <2>7, <3>1, <3>6 DEF Files!Make, Files!Refuse, KnownSame
  <2>11. CASE Entered(RAMDISK, made, d, Last(path), type) /\ Last(path) \in Names
    <3> DEFINE c    == made.inum
               e    == made.rd
               name == Last(path)
               node == [kind |-> "dir", entries |-> EntriesOf(RAMDISK, d)]
    <3>1. /\ c \in Inums \ {d} /\ ~ Reached(RAMDISK, c) /\ d \in Directories(RAMDISK)
          /\ name \notin DOMAIN EntriesOf(RAMDISK, d)
          /\ Shows(e) = [Shows(RAMDISK) EXCEPT ![d] = Files!WithEntry(node, name, c),
                                               ![c] = NewNode(type)]
      BY <1>1, <2>2, <2>11, EnteredShown
    <3>2. tree[d] = node
      <4>1. Shows(RAMDISK)[d] = node
        BY <1>1, <2>2, <3>1, ShownNode
      <4>. QED  BY <1>1, <4>1
    <3>3. tree[c] = Files!Absent
      <4>1. Shows(RAMDISK)[c] = Files!Absent
        BY <1>1, <3>1, KindIs
      <4>. QED  BY <1>1, <4>1
    <3>4. tree' = [tree EXCEPT ![d] = Files!WithEntry(node, name, c), ![c] = NewNode(type)]
      BY <1>1, <2>1, <3>1 DEF MapsOn
    <3>5. name # NoName
      BY <2>11, EntryTypes
    <3>6. ret' = 0
      BY <2>1, <3>1 DEF Inums
    <3>7. node.kind = "dir" /\ node.entries = EntriesOf(RAMDISK, d)
      OBVIOUS
    <3>8. Files!Absent.kind = "absent"
      BY DEF Files!Absent
    <3> HIDE DEF c, e, name, node
    <3>9. tree' = [tree EXCEPT ![d] = Files!WithEntry(tree[d], name, c), ![c] = NewNode(type)]
      BY <3>2, <3>4
    <3>10. /\ tree[d].kind = "dir" /\ tree[c].kind = "absent"
           /\ name \notin DOMAIN tree[d].entries \cup {NoName}
      BY <3>1, <3>2, <3>3, <3>5, <3>7, <3>8
    <3>11. Files!Last(path) = name
      BY <2>4 DEF name
    <3>12. c \in Inums
      BY <3>1
    <3>. QED  BY <2>6, <2>7, <3>6, <3>9, <3>10, <3>11, <3>12 DEF Files!Make, KnownSame
  <2>. QED  BY <2>8, <2>9, <2>10, <2>11
<1>. QED  BY <1>2, <1>3
(* What a path leads to is open, as far as rd_unlink can tell. *)
LEMMA HeldIs ==
  ASSUME ReadersInv, NEW path \in Seq(Labels), NEW idx, idx = WalkPath(RAMDISK, path)
  PROVE  CheckForInode(fdtablea, idx) = 1 <=> Files!Held(idx)
<1>1. DiskInv(RAMDISK) /\ TablesInv(fdtablea) /\ ret \in Int /\ descriptors = Descriptors(fdtablea)
  BY DEF ReadersInv, IInv
<1>2. idx = -1 \/ idx \in Inums
  BY <1>1, WalkLeads DEF Leads
<1>3. CASE idx \in Inums
  BY <1>1, <1>3, InodeIsHeld
<1>4. CASE idx = -1
  <2>1. CheckForInode(fdtablea, -1) = 1 <=> ~ Files!AllOpen
    BY <1>1, NoInodeIsHeld
  <2>2. Files!Held(-1) <=> ~ Files!AllOpen
    BY DEF Files!Held
  <2>. QED  BY <1>4, <2>1, <2>2
<1>. QED  BY <1>2, <1>3, <1>4

(* When rd_unlink answers that it cannot *)
LEMMA UnlinkRefuses ==
  ASSUME ReadersInv, NEW path \in Seq(Labels),
         NEW idx, idx = WalkPath(RAMDISK, path), NEW d, d = GetParent(RAMDISK, path),
         NEW found, found = FindEntry(RAMDISK, RAMDISK.inodes[d], Last(path)),
         \/ CheckForInode(fdtablea, idx) = 1
         \/ d < 0
         \/ found.inum < 0
         \/ RAMDISK.inodes[found.inum].type = DIR /\ RAMDISK.inodes[found.inum].size > 0
  PROVE  \/ \E i \in Files!Leads(tree, path) : Files!Held(i)
         \/ \E parent \in Files!Parents(tree, path) :
              \/ parent = -1
              \/ tree[parent].kind # "dir"
              \/ Files!Last(path) = NoName
              \/ ~ Files!Removable(Files!NodeNamed(tree, parent, Files!Last(path)))
<1>1. DiskInv(RAMDISK) /\ tree = Shows(RAMDISK)
  BY DEF ReadersInv, IInv
<1>2. idx \in Files!Leads(tree, path) /\ d \in Files!Parents(tree, path)
  BY <1>1, WalkIs, ParentIs
<1>3. CASE CheckForInode(fdtablea, idx) = 1
  BY <1>2, <1>3, HeldIs
<1>4. CASE d < 0
  <2>1. d = -1
    BY <1>1, <1>4, ParentLeads, InodeAssumption DEF Leads, Inums
  <2>. QED  BY <1>2, <2>1
<1>5. CASE /\ ~ (d < 0)
           /\ \/ found.inum < 0
              \/ RAMDISK.inodes[found.inum].type = DIR /\ RAMDISK.inodes[found.inum].size > 0
  <2> DEFINE name == Last(path)
  <2>1. d \in Inums /\ Reached(RAMDISK, d)
    BY <1>1, <1>5, ParentLeads DEF Leads
  <2>2. path # <<>>
    BY <1>5 DEF GetParent
  <2>3. name \in Labels /\ Files!Last(path) = name
    BY <2>2, FrontIs DEF Files!Last, Last
  <2>4. CASE name = NoName
    BY <1>2, <2>3, <2>4
  <2>5. CASE tree[d].kind # "dir"
    BY <1>2, <2>5
  <2>6. CASE name # NoName /\ tree[d].kind = "dir"
    <3>1. name \in Names
      BY <2>3, <2>6 DEF Labels
    <3> DEFINE node == tree[d]
    <3>2. node = Shows(RAMDISK)[d]
      BY <1>1
    <3>3. \/ found.inum = -1 /\ name \notin DOMAIN node.entries
          \/ /\ found.inum \in Inums
             /\ name \in DOMAIN node.entries /\ node.entries[name] = found.inum
      <4> HIDE DEF node, name
      <4>1. found = FindEntry(RAMDISK, RAMDISK.inodes[d], name)
        BY DEF name
      <4>2. node.kind = "dir"
        BY <2>6 DEF node
      <4>. QED  BY <1>1, <2>1, <3>1, <3>2, <4>1, <4>2, SearchIs
    <3>4. Files!NodeNamed(tree, d, name) = found.inum
      BY <3>3 DEF Files!NodeNamed
    <3>5. CASE found.inum = -1
      <4>1. ~ Files!Removable(found.inum)
        BY <3>5 DEF Files!Removable
      <4>. QED  BY <1>2, <2>3, <3>4, <4>1
    <3>6. CASE found.inum \in Inums
      <4> DEFINE c == found.inum
      <4>1. c \in Directories(RAMDISK) /\ RAMDISK.inodes[c].size > 0
        BY <1>5, <3>6 DEF Inums, Directories
      <4>2. CASE Reached(RAMDISK, c)
        <5>1. tree[c].kind = "dir" /\ tree[c].entries = EntriesOf(RAMDISK, c)
          <6>1. /\ Shows(RAMDISK)[c].kind = "dir"
                /\ Shows(RAMDISK)[c].entries = EntriesOf(RAMDISK, c)
            <7> HIDE DEF c
            <7>1. c \in Inums
              BY <4>1 DEF Directories
            <7>2. Shows(RAMDISK)[c] = [kind |-> "dir", entries |-> EntriesOf(RAMDISK, c)]
              BY <1>1, <4>1, <4>2, <7>1, ShownNode
            <7>. QED  BY <7>2
          <6>. QED  BY <1>1, <6>1
        <5>2. DOMAIN EntriesOf(RAMDISK, c) # {}
          <6>1. RAMDISK.inodes[c].size \in Nat
            BY <1>1, <3>6, DiskInvTypes
          <6>2. 0 \in Positions(RAMDISK, c)
            BY <4>1, <6>1 DEF Positions
          <6> HIDE DEF c
          <6>3. DOMAIN EntriesOf(RAMDISK, c) = EntryNames(RAMDISK, c)
            BY <1>1, <4>1, EntriesOfIs
          <6>. QED  BY <6>2, <6>3 DEF EntryNames
        <5>3. ~ Files!Removable(c)
          BY <5>1, <5>2 DEF Files!Removable
        <5>. QED  BY <1>2, <2>3, <3>4, <5>3
      <4>3. CASE ~ Reached(RAMDISK, c)
        BY <1>1, <4>1, <4>3 DEF DiskInv, RootedTree
      <4>. QED  BY <4>2, <4>3
    <3>. QED  BY <3>3, <3>5, <3>6
  <2>. QED  BY <2>4, <2>5, <2>6
<1>. QED  BY <1>3, <1>4, <1>5

LEMMA UnlinkImplements ==
  ASSUME ReadersInv, MapsOn, NEW path \in Paths, rd_unlink(path)
  PROVE  Files!Unlink(path)
<1> DEFINE idx   == WalkPath(RAMDISK, path)
           d     == GetParent(RAMDISK, path)
           found == FindEntry(RAMDISK, RAMDISK.inodes[d], Last(path))
           c     == found.inum
           stops == \/ CheckForInode(fdtablea, idx) = 1
                    \/ d < 0
                    \/ c < 0
                    \/ RAMDISK.inodes[c].type = DIR /\ RAMDISK.inodes[c].size > 0
<1>1. DiskInv(RAMDISK) /\ path \in Seq(Labels) /\ tree = Shows(RAMDISK)
  BY PathLabels DEF ReadersInv, IInv
<1>2. CASE stops
  <2>1. Answer(-1)
    BY <1>2 DEF rd_unlink
  <2>2. \/ \E i \in Files!Leads(tree, path) : Files!Held(i)
        \/ \E parent \in Files!Parents(tree, path) :
             \/ parent = -1
             \/ tree[parent].kind # "dir"
             \/ Files!Last(path) = NoName
             \/ ~ Files!Removable(Files!NodeNamed(tree, parent, Files!Last(path)))
    <3>1. idx = WalkPath(RAMDISK, path)
      BY DEF idx
    <3>2. d = GetParent(RAMDISK, path)
      BY DEF d
    <3> HIDE DEF idx, d
    <3>3. found = FindEntry(RAMDISK, RAMDISK.inodes[d], Last(path))
      BY DEF found
    <3>4. \/ CheckForInode(fdtablea, idx) = 1
          \/ d < 0
          \/ found.inum < 0
          \/ RAMDISK.inodes[found.inum].type = DIR /\ RAMDISK.inodes[found.inum].size > 0
      BY <1>2
    <3> HIDE DEF found
    <3>. QED  BY <1>1, <3>1, <3>2, <3>3, <3>4, UnlinkRefuses
  <2>. QED  BY <2>1, <2>2, AnswerRefuses DEF Files!Unlink
<1>3. CASE ~ stops
  <2>1. /\ RAMDISK' = RemoveEntry(DeallocateInode(Release(RAMDISK, c), c), d, found)
        /\ ret' = 0 /\ fdtablea' = fdtablea
    BY <1>3 DEF rd_unlink
  <2>2. /\ CheckForInode(fdtablea, idx) # 1 /\ ~ (d < 0) /\ ~ (c < 0)
        /\ ~ (RAMDISK.inodes[c].type = DIR /\ RAMDISK.inodes[c].size > 0)
    BY <1>3
  <2>3. idx \in Files!Leads(tree, path) /\ ~ Files!Held(idx)
    BY <1>1, <2>2, WalkIs, HeldIs
  <2>4. d \in Files!Parents(tree, path) /\ d \in Inums /\ Reached(RAMDISK, d) /\ d # -1
    BY <1>1, <2>2, ParentIs, ParentLeads DEF Leads
  <2>5. Last(path) \in Names /\ \E p : Removable(RAMDISK, d, found, p)
    <3>1. d = GetParent(RAMDISK, path)
      BY DEF d
    <3> HIDE DEF d
    <3>2. found = FindEntry(RAMDISK, RAMDISK.inodes[d], Last(path))
      BY DEF found
    <3> HIDE DEF found
    <3>. QED  BY <1>1, <2>2, <3>1, <3>2, UnlinkFinds
  <2> DEFINE name == Last(path)
  <2>6. PICK p : Removable(RAMDISK, d, found, p)
    BY <2>5
  <2>7. /\ d \in Directories(RAMDISK) /\ p \in Positions(RAMDISK, d)
        /\ c = DirCell(RAMDISK, d, p).data /\ c \in Inums \ {d}
    BY <2>6 DEF Removable
  <2>8. path # <<>>
    <3>1. ~ (d < 0)
      BY <2>2
    <3>. QED  BY <3>1 DEF GetParent
  <2>9. Files!Last(path) = name
    BY DEF Files!Last, Last
  <2> DEFINE node == [kind |-> "dir", entries |-> EntriesOf(RAMDISK, d)]
  <2>10. tree[d] = node
    <3>1. Shows(RAMDISK)[d] = node
      BY <1>1, <2>4, <2>7, ShownNode
    <3>. QED  BY <1>1, <3>1
  <2>11. c \in Inums /\ name \in DOMAIN node.entries /\ node.entries[name] = c
    <3>1. found = FindEntry(RAMDISK, RAMDISK.inodes[d], name)
      BY DEF found
    <3>2. node = Shows(RAMDISK)[d]
      BY <1>1, <2>10
    <3>3. node.kind = "dir"
      OBVIOUS
    <3>4. c \in Inums
      BY <2>7
    <3>5. name \in Names
      BY <2>5
    <3> HIDE DEF node, d, name, found
    <3>6. \/ /\ found.inum = -1
             /\ node.kind = "dir" => name \notin DOMAIN node.entries
          \/ /\ found.inum \in Inums /\ node.kind = "dir"
             /\ name \in DOMAIN node.entries /\ node.entries[name] = found.inum
      BY <1>1, <2>4, <3>1, <3>2, <3>5, SearchIs
    <3>7. c = found.inum /\ found.inum # -1
      BY <3>4, InodeAssumption DEF Inums, c
    <3>. QED  BY <3>3, <3>4, <3>6, <3>7
  <2>12. name = DirCell(RAMDISK, d, p).name
    <3>1. PICK nm : Finds(RAMDISK, d, nm, found, p)
      BY <2>6 DEF Removable
    <3>2. EntriesOf(RAMDISK, d)[DirCell(RAMDISK, d, p).name] = c
      BY <1>1, <2>7, EntriesOfIs
    <3>3. PICK q \in Positions(RAMDISK, d) : name = DirCell(RAMDISK, d, q).name
      <4>1. name \in DOMAIN EntriesOf(RAMDISK, d)
        BY <2>11
      <4> HIDE DEF name, d, c, node
      <4>2. DOMAIN EntriesOf(RAMDISK, d) = EntryNames(RAMDISK, d)
        BY <1>1, <2>7, EntriesOfIs
      <4>. QED  BY <4>1, <4>2 DEF EntryNames
    <3>4. DirCell(RAMDISK, d, q).data = c
      <4>1. EntriesOf(RAMDISK, d)[name] = DirCell(RAMDISK, d, q).data
        BY <1>1, <2>7, <3>3, EntriesOfIs
      <4>. QED  BY <2>11, <4>1
    <3>5. p = q
      BY <1>1, <2>7, <3>4 DEF DiskInv, RootedTree, EntriesDiffer
    <3>. QED  BY <3>3, <3>5
  <2>13. Shows(RAMDISK') = [Shows(RAMDISK) EXCEPT ![c] = Files!Absent,
                                                  ![d] = Files!WithoutEntry(node, name)]
    <3> DEFINE e == RemoveEntry(DeallocateInode(Release(RAMDISK, found.inum), found.inum), d, found)
    <3>1. e = RemoveEntry(DeallocateInode(Release(RAMDISK, found.inum), found.inum), d, found)
      BY DEF e
    <3>2. c = found.inum /\ RAMDISK' = e
      BY <2>1
    <3>3. ~ (RAMDISK.inodes[found.inum].type = DIR /\ RAMDISK.inodes[found.inum].size > 0)
      BY <2>2
    <3> HIDE DEF e, c, d, found, name
    <3>4. Shows(e) = [Shows(RAMDISK) EXCEPT
                        ![c] = Files!Absent,
                        ![d] = Files!WithoutEntry(
                                 [kind |-> "dir", entries |-> EntriesOf(RAMDISK, d)], name)]
      BY <1>1, <2>4, <2>6, <2>12, <3>1, <3>2, <3>3, UnlinkedShown
    <3>. QED  BY <3>2, <3>4
  <2>14. descriptors' = descriptors /\ KnownSame
    BY <2>1 DEF MapsOn, ReadersInv, KnownSame
  <2>15. Files!Removable(c)
    <3>1. c # Root
      BY <1>1, <2>7 DEF DiskInv, RootedTree, EntriesLead
    <3>2. c # -1
      BY <2>11, InodeAssumption DEF Inums
    <3>3. ASSUME tree[c].kind = "dir" PROVE DOMAIN tree[c].entries = {}
      <4>1. Shows(RAMDISK)[c].kind = "dir"
        BY <1>1, <3>3
      <4>2. c \in Directories(RAMDISK) /\ Shows(RAMDISK)[c].entries = EntriesOf(RAMDISK, c)
        <5> DEFINE n == Shows(RAMDISK)[c]
        <5>1. n = Shows(RAMDISK)[c] /\ n.kind = "dir"
          BY <4>1
        <5> HIDE DEF n
        <5>2. c \in Directories(RAMDISK) /\ n = [kind |-> "dir", entries |-> EntriesOf(RAMDISK, c)]
          BY <1>1, <2>11, <5>1, KindIs
        <5>. QED  BY <5>1, <5>2
      <4>3. RAMDISK.inodes[c].size = 0
        <5>1. RAMDISK.inodes[c].size \in Nat /\ RAMDISK.inodes[c].type = DIR
          BY <1>1, <2>11, <4>2, DiskInvTypes
        <5>. QED  BY <2>2, <5>1
      <4>4. EntryNames(RAMDISK, c) = {}
        BY <4>3 DEF EntryNames, Positions
      <4>. QED  BY <1>1, <4>2, <4>4, EntriesOfIs
    <3>. QED  BY <3>1, <3>2, <3>3 DEF Files!Removable
  <2>16. /\ Files!NodeNamed(tree, d, Files!Last(path)) = c
         /\ tree[d].kind = "dir"
    <3>1. Files!NodeNamed(tree, d, name) = c
      BY <2>10, <2>11 DEF Files!NodeNamed
    <3>2. node.kind = "dir"
      OBVIOUS
    <3>. QED  BY <2>9, <2>10, <3>1, <3>2
  <2>17. tree' = [tree EXCEPT ![c] = Files!Absent,
                              ![d] = Files!WithoutEntry(tree[d], Files!Last(path))]
    BY <1>1, <2>9, <2>10, <2>13 DEF MapsOn
  <2>18. ret' = 0 /\ d \in Files!Parents(tree, path) \ {-1} /\ d # c
    BY <2>1, <2>4, <2>7
  <2> HIDE DEF idx, c, d, found, name, node
  <2>19. tree' = [tree EXCEPT
                    ![Files!NodeNamed(tree, d, Files!Last(path))] = Files!Absent,
                    ![d] = Files!WithoutEntry(@, Files!Last(path))]
    BY <2>16, <2>17, <2>18
  <2>. QED  BY <2>3, <2>14, <2>15, <2>16, <2>18, <2>19 DEF Files!Unlink, KnownSame
<1>. QED  BY <1>2, <1>3
-----------------------------------------------------------------------------
(***************************************************************************)
(* The start, and the calls that start again or do nothing                 *)
(***************************************************************************)
LEMMA EmptyShown == Shows(EmptyDisk) = Files!EmptyTree
<1> DEFINE rd == EmptyDisk
<1>1. DiskInv(rd) /\ \A i \in Inums \ {Root} : rd.inodes[i].type = UNALLOCATED
  BY EmptyDiskInv
<1> HIDE DEF rd
<1>2. Root \in Inums /\ Root \in Directories(rd) /\ rd.inodes[Root].size \in Nat
  BY <1>1, DiskInvTypes
<1>3. rd.inodes[Root].size = 0
  <2>1. ASSUME rd.inodes[Root].size # 0 PROVE FALSE
    <3>1. 0 \in Positions(rd, Root)
      BY <1>2, <2>1 DEF Positions
    <3>. QED  BY <1>1, <1>2, <3>1 DEF DiskInv, RootedTree, EntriesLead
  <2>. QED  BY <2>1
<1>4. Shows(rd)[Root] = Files!EmptyDir
  <2>1. EntriesOf(rd, Root) = <<>>
    BY <1>1, <1>2, <1>3, NoEntries
  <2>2. Shows(rd)[Root] = [kind |-> "dir", entries |-> EntriesOf(rd, Root)]
    BY <1>1, <1>2, RootReached, ShownNode
  <2>. QED  BY <2>1, <2>2 DEF Files!EmptyDir
<1>5. \A i \in Inums \ {Root} : Shows(rd)[i] = Files!Absent
  BY <1>1, FreeIs, KindIs
<1>6. Shows(rd) = [i \in Inums |-> Shows(rd)[i]]
  BY ShowsIs
<1>. QED  BY <1>4, <1>5, <1>6 DEF rd, Files!EmptyTree

LEMMA AllClosedIs == Descriptors(InitialTables) = Files!D!AllClosed
BY StartTables DEF Files!D!AllClosed, Files!D!Closed

LEMMA InitImplements ==
  ASSUME FilesInit
  PROVE  Files!Init
BY EmptyShown, AllClosedIs, StartTables DEF FilesInit, Init, Files!Init

LEMMA ResetImplements ==
  ASSUME MapsOn, rd_init
  PROVE  Files!Reset
BY EmptyShown, AllClosedIs, StartTables DEF MapsOn, rd_init, Files!Reset

LEMMA TestImplements ==
  ASSUME ReadersInv, MapsOn, rd_test
  PROVE  Files!Test
BY AnswerSame DEF rd_test, Files!Test, KnownSame

LEMMA CreatImplements ==
  ASSUME ReadersInv, MapsOn, NEW path \in Paths
  PROVE  /\ rd_creat(path) => Files!Make(path, Files!EmptyFile)
         /\ rd_mkdir(path) => Files!Make(path, Files!EmptyDir)
<1>1. NewNode(FILE) = Files!EmptyFile /\ NewNode(DIR) = Files!EmptyDir
  BY DEF NewNode, FILE, DIR
<1>2. FILE \in {FILE, DIR} /\ DIR \in {FILE, DIR}
  OBVIOUS
<1>3. rd_creat(path) => Files!Make(path, NewNode(FILE))
  BY <1>2, MakeImplements DEF rd_creat
<1>4. rd_mkdir(path) => Files!Make(path, NewNode(DIR))
  BY <1>2, MakeImplements DEF rd_mkdir
<1>. QED  BY <1>1, <1>3, <1>4
-----------------------------------------------------------------------------
(***************************************************************************)
(* What rd_write does to a file, in the words of FileSystem                *)
(***************************************************************************)
(* A file has a hole unless it is whole. *)
LEMMA WholeNoHole ==
  ASSUME NEW rd, NEW i, rd.inodes[i].size \in Nat
  PROVE  FileOf(rd, i).whole <=> Whole(rd, i)
<1>1. ~ HasHole(rd, i) <=> Whole(rd, i)
  BY GetBlockIsBlk DEF HasHole, Whole
<1>. QED  BY <1>1, WholeIs

(* What the mapping shows of a file that is whole *)
LEMMA WholeCells ==
  ASSUME NEW rd, NEW i, rd.inodes[i].size \in Nat
  PROVE  /\ FileOf(rd, i).kind = "file" /\ FileOf(rd, i).size = rd.inodes[i].size
         /\ Whole(rd, i) =>
              /\ DOMAIN FileOf(rd, i).cells = 0 .. rd.inodes[i].size - 1
              /\ \A p \in 0 .. rd.inodes[i].size - 1 : FileOf(rd, i).cells[p] = Cell(rd, i, p)
<1>1. FileOf(rd, i).kind = "file" /\ FileOf(rd, i).size = rd.inodes[i].size
  BY DEF FileOf
<1>2. ASSUME Whole(rd, i)
      PROVE  FileOf(rd, i).cells = [p \in 0 .. rd.inodes[i].size - 1 |-> Cell(rd, i, p)]
  <2>1. ~ HasHole(rd, i)
    BY <1>2, GetBlockIsBlk DEF HasHole, Whole
  <2>2. FileOf(rd, i).cells = Contents(rd, i)
    BY <2>1 DEF FileOf
  <2>. QED  BY <2>2 DEF Contents
<1>. QED  BY <1>1, <1>2

(* The write, as FileSystem sees it *)
LEMMA WroteIs ==
  ASSUME NEW rd, NEW e, NEW i, NEW pos \in Nat, NEW k \in Nat, NEW v,
         rd.inodes[i].size \in Nat, e.inodes[i].size = SizeAfter(rd, i, pos, k),
         Whole(rd, i) /\ Whole(e, i) /\ (pos <= rd.inodes[i].size \/ ret' # -1)
           => Lined(rd, e, i, pos, k, v)
  PROVE  Files!Wrote(FileOf(rd, i), FileOf(e, i), pos, k, Bytes(v))
<1> DEFINE s   == rd.inodes[i].size
           t   == e.inodes[i].size
           old == FileOf(rd, i)
           new == FileOf(e, i)
<1>1. s \in Nat /\ t \in Nat /\ t = SizeAfter(rd, i, pos, k)
  BY DEF SizeAfter, Greater
<1>2. new.kind = "file" /\ new.size = t /\ old.size = s
  BY <1>1, WholeCells
<1>3. Files!Grown(old, pos, k) = t
  <2>1. Files!Max({s, pos + k}) = Greater(s, pos + k)
    <3>1. Greater(s, pos + k) \in {s, pos + k} /\ \A z \in {s, pos + k} : Greater(s, pos + k) >= z
      BY <1>1 DEF Greater
    <3>. QED  BY <1>1, <3>1 DEF Files!Max
  <2>. QED  BY <1>1, <1>2, <2>1 DEF Files!Grown, SizeAfter
<1>4. ASSUME old.whole /\ new.whole /\ (pos <= s \/ ret' # -1)
      PROVE  /\ DOMAIN new.cells = 0 .. t - 1
             /\ \A c \in 0 .. t - 1 :
                  CASE c \in pos .. pos + k - 1 -> new.cells[c] = Bytes(v)
                    [] c < s /\ c \notin pos .. pos + k - 1 -> new.cells[c] = old.cells[c]
                    [] OTHER -> new.cells[c] \in {Fill, Zero}
  <2>1. Whole(rd, i) /\ Whole(e, i)
    BY <1>1, <1>4, WholeNoHole
  <2>2. Lined(rd, e, i, pos, k, v)
    BY <1>4, <2>1
  <2>3. /\ DOMAIN new.cells = 0 .. t - 1
        /\ \A c \in 0 .. t - 1 : new.cells[c] = Cell(e, i, c)
        /\ \A c \in 0 .. s - 1 : old.cells[c] = Cell(rd, i, c)
    BY <1>1, <2>1, WholeCells
  <2>4. ASSUME NEW c \in 0 .. t - 1
        PROVE  CASE c \in pos .. pos + k - 1 -> new.cells[c] = Bytes(v)
                 [] c < s /\ c \notin pos .. pos + k - 1 -> new.cells[c] = old.cells[c]
                 [] OTHER -> new.cells[c] \in {Fill, Zero}
    <3>1. new.cells[c] = Cell(e, i, c)
      BY <2>3
    <3>2. c < s => old.cells[c] = Cell(rd, i, c)
      BY <1>1, <2>3
    <3>3. /\ c \in pos .. pos + k - 1 => Cell(e, i, c) = Bytes(v)
          /\ c \notin pos .. pos + k - 1 =>
               IF c < s THEN Cell(e, i, c) = Cell(rd, i, c) ELSE Cell(e, i, c) \in {Fill, Zero}
      BY <2>2 DEF Lined
    <3> HIDE DEF old, new, s, t
    <3>. QED  BY <3>1, <3>2, <3>3
  <2>. QED  BY <2>3, <2>4
<1> HIDE DEF old, new, s, t
<1>. QED  BY <1>2, <1>3, <1>4 DEF Files!Wrote, old, new

(* Writing a file changes nothing else that a user can see. *)
LEMMA WroteShown ==
  ASSUME NEW rd, DiskInv(rd), NEW i \in Inums, rd.inodes[i].type = FILE, NEW e, Wrote(rd, e, i)
  PROVE  /\ ~ Reached(rd, i) => Shows(e) = Shows(rd)
         /\ Reached(rd, i) =>
              /\ Shows(rd)[i] = FileOf(rd, i) /\ Shows(e)[i] = FileOf(e, i)
              /\ Shows(e) = [Shows(rd) EXCEPT ![i] = Shows(e)[i]]
<1>1. DiskInv(e) /\ DirsKept(rd, e, {})
  BY TreeWrote
<1>2. \A j \in Inums : e.inodes[j].type = rd.inodes[j].type
  BY DEF Wrote, OthersKept, Kept
<1>3. Directories(e) = Directories(rd)
  BY <1>2 DEF Directories
<1>4. \A d \in Directories(rd) :
        Positions(e, d) = Positions(rd, d)
        /\ \A p \in Positions(rd, d) : DirCell(e, d, p) = DirCell(rd, d, p)
  BY <1>1, KeptEntries DEF DirsKept, Directories
<1>5. EntriesStay(rd, e) /\ EntriesStay(e, rd)
  BY <1>3, <1>4 DEF EntriesStay
<1>6. \A j \in Inums : Reached(e, j) <=> Reached(rd, j)
  BY <1>5, ReachedStays
<1>7. FILE # DIR
  BY DEF FILE, DIR
<1>8. ASSUME NEW j \in Inums, j # i  PROVE Shows(e)[j] = Shows(rd)[j]
  <2>1. Kept(rd, e, j)
    BY <1>8 DEF Wrote, OthersKept
  <2>2. rd.inodes[j].type = DIR => DirKept(rd, e, j)
    BY <1>1 DEF DirsKept
  <2>. QED  BY <1>1, <1>2, <1>6, <2>1, <2>2, ShownSame
<1>9. i \notin Directories(rd) /\ i \notin Directories(e)
  BY <1>3, <1>7 DEF Directories
<1>10. ASSUME ~ Reached(rd, i)  PROVE Shows(e) = Shows(rd)
  <2>1. Shows(e)[i] = Shows(rd)[i]
    BY <1>1, <1>6, <1>10, ShownNode
  <2>2. \A j \in Inums : Shows(e)[j] = Shows(rd)[j]
    BY <1>8, <2>1
  <2>. QED  BY <2>2, ShowsIs
<1>11. ASSUME Reached(rd, i)
       PROVE  /\ Shows(rd)[i] = FileOf(rd, i) /\ Shows(e)[i] = FileOf(e, i)
              /\ Shows(e) = [Shows(rd) EXCEPT ![i] = Shows(e)[i]]
  <2>1. Shows(rd)[i] = FileOf(rd, i) /\ Shows(e)[i] = FileOf(e, i)
    BY <1>1, <1>6, <1>9, <1>11, ShownNode
  <2>2. Shows(e) = [j \in Inums |-> Shows(e)[j]] /\ Shows(rd) = [j \in Inums |-> Shows(rd)[j]]
    BY ShowsIs
  <2> DEFINE new == Shows(e)
             old == Shows(rd)
  <2> HIDE DEF new, old
  <2>3. new = [j \in Inums |-> new[j]] /\ old = [j \in Inums |-> old[j]]
        /\ \A j \in Inums : j # i => new[j] = old[j]
    BY <1>8, <2>2 DEF new, old
  <2>4. new = [old EXCEPT ![i] = new[i]]
    BY ONLY <2>3, i \in Inums
  <2>. QED  BY <2>1, <2>4 DEF new, old
<1>. QED  BY <1>10, <1>11

LEMMA WriteImplements ==
  ASSUME ReadersInv, MapsOn, EndsHold(RAMDISK), NEW pid \in Pids, NEW fd, NEW n \in WriteLens,
         NEW v \in Data, rd_write(pid, fd, n, v)
  PROVE  Files!Write(pid, fd, n, Bytes(v)) \/ Files!Astray(pid, fd)
<1> DEFINE i   == InodeOf(pid, fd)
           pos == PositionOf(pid, fd)
           w   == Write(RAMDISK, i, pos, n, v)
           e   == w.rd
           s   == RAMDISK.inodes[i].size
<1>1. CASE ~ Usable(pid, fd, FILE)
  BY <1>1, AnswerRefuses, StandsIs DEF rd_write, Files!Write
<1>2. CASE Usable(pid, fd, FILE)
  <2>1. Files!D!IsOpen(pid, fd)
    BY <1>2, OpenIs DEF Usable
  <2>2. i \in Inums /\ pos \in Nat /\ RAMDISK.inodes[i].type = FILE
    <3>1. i \in Inums /\ pos \in Int /\ pos >= 0 /\ RAMDISK.inodes[i].type = FILE
      BY <1>2, <2>1, OpenIs DEF Usable
    <3> HIDE DEF i, pos
    <3>. QED  BY <3>1
  <2>3. /\ DiskInv(RAMDISK) /\ tree = Shows(RAMDISK) /\ s \in Nat /\ Sound(RAMDISK)
        /\ Ended(RAMDISK, i)
    BY <2>2, DiskInvTypes DEF ReadersInv, IInv, EndsHold
  <2>4. n \in Nat
    BY RamdiskAssumption
  <2>5. /\ RAMDISK' = e
        /\ w.failed => ret' = -1 /\ fdtablea' = fdtablea
        /\ ~ w.failed => ret' = n /\ MoveTo(pid, fd, w.pos)
    BY <1>2 DEF rd_write
  <2>6. descriptors[pid][fd].offset = pos /\ descriptors[pid][fd].inode = i
    BY <2>1, OpenIs
  <2> HIDE DEF i, pos
  <2>7. /\ ~ w.failed => w.pos = pos + n
        /\ w.failed \in BOOLEAN /\ Wrote(RAMDISK, e, i)
        /\ \E k \in 0 .. n :
             /\ k = n <=> ~ w.failed
             /\ e.inodes[i].size = SizeAfter(RAMDISK, i, pos, k)
             /\ Whole(RAMDISK, i) /\ pos <= s => Whole(e, i)
             /\ Whole(RAMDISK, i) /\ Whole(e, i) /\ (pos <= s \/ ~ w.failed)
                  => Lined(RAMDISK, e, i, pos, k, v)
    BY <2>2, <2>3, <2>4, FileWrites
  <2> HIDE DEF w
  <2>8. tree' = Shows(e)
    BY <2>5 DEF MapsOn
  <2> HIDE DEF e
  <2>9. w.failed => KnownSame /\ descriptors' = descriptors
    BY <2>5 DEF MapsOn, ReadersInv, KnownSame
  <2>10. ~ w.failed =>
           /\ KnownSame /\ Files!MoveTo(pid, fd, pos + n)
           /\ descriptors' = [descriptors EXCEPT ![pid][fd].offset = pos + n]
    <3>1. pos + n \in Int
      BY <2>2, <2>4
    <3>2. ~ w.failed => MoveTo(pid, fd, pos + n) /\ ret' \in Int
      BY <2>4, <2>5, <2>7
    <3>. QED  BY <2>1, <3>1, <3>2, MovesOn
  <2>11. CASE ~ Reached(RAMDISK, i)
    <3>1. tree' = tree
      BY <2>2, <2>3, <2>7, <2>8, <2>11, WroteShown
    <3>2. ~ Reached(RAMDISK, InodeOf(pid, fd)) /\ KnownSame
      BY <2>7, <2>9, <2>10, <2>11 DEF i
    <3>3. \/ descriptors' = descriptors
          \/ \E offset : descriptors' = [descriptors EXCEPT ![pid][fd].offset = offset]
      BY <2>7, <2>9, <2>10
    <3>. QED  BY <2>1, <3>1, <3>2, <3>3, AstrayIs
  <2>12. CASE Reached(RAMDISK, i)
    <3>1. Files!Stands(pid, fd, "file")
      BY <1>2, <2>12, StandsIs DEF i
    <3>2. /\ tree[i] = FileOf(RAMDISK, i) /\ tree'[i] = FileOf(e, i)
          /\ tree' = [tree EXCEPT ![i] = tree'[i]]
      BY <2>2, <2>3, <2>7, <2>8, <2>12, WroteShown
    <3>3. PICK k \in 0 .. n :
             /\ k = n <=> ~ w.failed
             /\ e.inodes[i].size = SizeAfter(RAMDISK, i, pos, k)
             /\ Whole(RAMDISK, i) /\ pos <= s => Whole(e, i)
             /\ Whole(RAMDISK, i) /\ Whole(e, i) /\ (pos <= s \/ ~ w.failed)
                  => Lined(RAMDISK, e, i, pos, k, v)
      BY <2>7
    <3>4. (ret' # -1 <=> ~ w.failed) /\ (ret' = n <=> ~ w.failed)
      BY <2>4, <2>5, <2>7
    <3>5. Files!Wrote(FileOf(RAMDISK, i), FileOf(e, i), pos, k, Bytes(v))
      <4> DEFINE rd == RAMDISK
      <4>1. /\ rd.inodes[i].size \in Nat /\ e.inodes[i].size = SizeAfter(rd, i, pos, k) /\ k \in Nat
            /\ Whole(rd, i) /\ Whole(e, i) /\ (pos <= rd.inodes[i].size \/ ret' # -1)
                 => Lined(rd, e, i, pos, k, v)
        BY <2>3, <3>3, <3>4
      <4> HIDE DEF rd
      <4>2. Files!Wrote(FileOf(rd, i), FileOf(e, i), pos, k, Bytes(v))
        BY <2>2, <4>1, WroteIs
      <4>. QED  BY <4>2 DEF rd
    <3>6. FileOf(RAMDISK, i).whole /\ pos <= FileOf(RAMDISK, i).size => FileOf(e, i).whole
      <4>1. e.inodes[i].size \in Nat
        BY <2>2, <2>3, <3>3 DEF SizeAfter, Greater
      <4>. QED  BY <2>3, <3>3, <4>1, WholeNoHole, WholeCells
    <3>7. (ret' = n <=> k = n) /\ Files!Wrote(tree[i], tree'[i], pos, k, Bytes(v))
          /\ (tree[i].whole /\ pos <= tree[i].size => tree'[i].whole)
      BY <3>2, <3>3, <3>4, <3>5, <3>6
    <3>8. \/ ret' = n /\ Files!MoveTo(pid, fd, pos + n)
          \/ ret' = -1 /\ KnownSame /\ descriptors' = descriptors
      BY <2>5, <2>7, <2>9, <2>10
    <3> HIDE DEF s
    <3>. QED  BY <2>6, <3>1, <3>2, <3>7, <3>8 DEF Files!Write, KnownSame
  <2>. QED  BY <2>11, <2>12
<1>. QED  BY <1>1, <1>2
-----------------------------------------------------------------------------
(***************************************************************************)
(* The inductive invariant of the refinement                               *)
(***************************************************************************)
FilesInv == ReadersInv /\ EndsHold(RAMDISK)

LEMMA InitFiles ==
  ASSUME FilesInit
  PROVE  FilesInv
<1>1. ReadersInv /\ RAMDISK = EmptyDisk
  BY InitReaders DEF FilesInit, Init
<1>. QED  BY <1>1, EndsAtStart DEF FilesInv

LEMMA NextFiles ==
  ASSUME FilesInv, [FilesNext]_filesVars
  PROVE  FilesInv'
<1>1. CASE UNCHANGED filesVars
  BY <1>1 DEF filesVars, FilesInv, ReadersInv, IInv
<1>2. CASE FilesNext
  <2>1. ReadersInv /\ EndsHold(RAMDISK) /\ Next /\ IInv
    BY <1>2 DEF FilesInv, FilesNext, ReadersInv
  <2>2. tree' = Shows(RAMDISK') /\ descriptors' = Descriptors(fdtablea') /\ IInv'
    BY <1>2, <2>1, MapKept
  <2>3. TablesInv(fdtablea')
    BY <2>1, <2>2, CallsWell, SeekWell DEF WellHandled
  <2>4. EndsHold(RAMDISK')
    BY <2>1, EndsStep
  <2>. QED  BY <2>2, <2>3, <2>4 DEF FilesInv, ReadersInv
<1>. QED  BY <1>1, <1>2

(* Each call is a call of FileSystem. *)
LEMMA CallsImplement ==
  ASSUME FilesInv, FilesNext
  PROVE  Files!Next
<1>1. ReadersInv /\ EndsHold(RAMDISK) /\ Next
  BY DEF FilesInv, FilesNext
<1>2. MapsOn
  BY <1>1, MapKept DEF MapsOn
<1>3. CASE rd_init
  BY <1>2, <1>3, ResetImplements DEF Files!Next
<1>4. CASE rd_test
  BY <1>1, <1>2, <1>4, TestImplements DEF Files!Next
<1>5. CASE \E path \in Paths : rd_creat(path)
  <2>1. \E path \in Paths : Files!Make(path, Files!EmptyFile)
    BY <1>1, <1>2, <1>5, CreatImplements
  <2>. QED  BY <2>1 DEF Files!Next
<1>6. CASE \E path \in MkdirPaths : rd_mkdir(path)
  <2>1. MkdirPaths \subseteq Paths
    BY RamdiskAssumption
  <2>2. \E path \in MkdirPaths : Files!Make(path, Files!EmptyDir)
    BY <1>1, <1>2, <1>6, <2>1, CreatImplements
  <2>. QED  BY <2>2 DEF Files!Next
<1>7. CASE \E path \in Paths : rd_unlink(path)
  <2>1. \E path \in Paths : Files!Unlink(path)
    BY <1>1, <1>2, <1>7, UnlinkImplements
  <2>. QED  BY <2>1 DEF Files!Next
<1>8. CASE \E pid \in Pids, path \in Paths : rd_open(pid, path)
  <2>1. \E pid \in Pids, path \in Paths : Files!OpenPath(pid, path)
    BY <1>1, <1>2, <1>8, OpenImplements
  <2>. QED  BY <2>1 DEF Files!Next
<1>9. CASE \E pid \in Pids, fd \in Fds : rd_close(pid, fd)
  <2>1. \E pid \in Pids, fd \in Fds : Files!Close(pid, fd)
    BY <1>1, <1>2, <1>9, CloseImplements
  <2>. QED  BY <2>1 DEF Files!Next
<1>10. CASE \E pid \in Pids, fd \in Fds : rd_readdir(pid, fd)
  <2>1. \E pid \in Pids, fd \in Fds : Files!ReadDir(pid, fd) \/ Files!Astray(pid, fd)
    BY <1>1, <1>2, <1>10, ReaddirImplements
  <2>. QED  BY <2>1 DEF Files!Next
<1>11. CASE \E pid \in Pids, fd \in Fds, offset \in SeekOffsets : rd_seek(pid, fd, offset)
  <2>1. \E pid \in Pids, fd \in Fds, offset \in SeekOffsets : Files!Seek(pid, fd, offset)
    BY <1>1, <1>2, <1>11, SeekImplements
  <2>. QED  BY <2>1 DEF Files!Next
<1>12. CASE \E pid \in Pids, fd \in Fds, n \in ReadLens : rd_read(pid, fd, n)
  <2>1. \E pid \in Pids, fd \in Fds, n \in ReadLens :
          Files!Read(pid, fd, n) \/ Files!Astray(pid, fd)
    BY <1>1, <1>2, <1>12, ReadImplements
  <2>. QED  BY <2>1 DEF Files!Next
<1>13. CASE \E pid \in Pids, fd \in Fds, n \in WriteLens, v \in Data : rd_write(pid, fd, n, v)
  <2>1. PICK pid \in Pids, fd \in Fds, n \in WriteLens, v \in Data : rd_write(pid, fd, n, v)
    BY <1>13
  <2>2. Files!Write(pid, fd, n, Bytes(v)) \/ Files!Astray(pid, fd)
    BY <1>1, <1>2, <2>1, WriteImplements
  <2>3. Bytes(v) \in {Bytes(u) : u \in Data}
    OBVIOUS
  <2>. QED  BY <2>2, <2>3 DEF Files!Next
<1>. QED
  BY <1>1, <1>3, <1>4, <1>5, <1>6, <1>7, <1>8, <1>9, <1>10, <1>11, <1>12, <1>13 DEF Next

LEMMA StepsImplement ==
  ASSUME FilesInv, [FilesNext]_filesVars
  PROVE  [Files!Next]_(Files!vars)
<1>1. CASE UNCHANGED filesVars
  BY <1>1 DEF filesVars, Files!vars
<1>2. CASE FilesNext
  BY <1>2, CallsImplement
<1>. QED  BY <1>1, <1>2

(***************************************************************************)
(* What the refinement rests on: the disk and the tables are in order, the *)
(* auxiliary variables hold what is read out of them, and behind the end   *)
(* of a file is nothing that was written, unless a hole cuts it off.       *)
(***************************************************************************)
THEOREM FilesInductive == FilesSpec => []FilesInv
<1>1. FilesInit => FilesInv
  BY InitFiles
<1>2. FilesInv /\ [FilesNext]_filesVars => FilesInv'
  BY NextFiles
<1>. QED  BY <1>1, <1>2, PTL DEF FilesSpec

(***************************************************************************)
(* The RAM disk implements FileSystem, for any number of processes, paths, *)
(* blocks, inodes, lengths and offsets: every call does to the tree, the   *)
(* files and the descriptors what FileSystem says, and where it fails it   *)
(* leaves what FileSystem allows.                                          *)
(***************************************************************************)
THEOREM RamdiskImplementsFileSystem == FilesSpec => ImplementsFileSystem
<1>1. FilesInit => Files!Init
  BY InitImplements
<1>2. FilesInv /\ [FilesNext]_filesVars => [Files!Next]_(Files!vars)
  BY StepsImplement
<1>. QED
  BY <1>1, <1>2, FilesInductive, PTL DEF FilesSpec, ImplementsFileSystem, Files!Spec

=============================================================================

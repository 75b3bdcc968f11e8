----------------------- MODULE DescriptorTablesProofs -----------------------
(***************************************************************************)
(* The descriptor tables are consistent, and implement OpenFiles, for any  *)
(* number of processes, tables and entries.                                *)
(***************************************************************************)
EXTENDS DescriptorTables, WellFoundedInduction, FiniteSetTheorems, TLAPS

(***************************************************************************)
(* A non-empty set of naturals has a least element, and Min is it.         *)
(***************************************************************************)
LEMMA MinIsLeast ==
  ASSUME NEW S \in SUBSET Nat, S # {}
  PROVE  Min(S) \in S /\ \A j \in S : Min(S) <= j
<1> DEFINE R == OpToRel(<, Nat)
<1>1. IsWellFoundedOn(R, Nat)
  BY NatLessThanWellFounded
<1> HIDE DEF R
<1>2. PICK i \in S : \A j \in S : ~ (<<j, i>> \in R)
  BY <1>1, WFMin
<1>3. \A j \in S : ~ (j < i)
  BY <1>2 DEF R, OpToRel
<1>4. \A j \in S : i <= j
  BY <1>3
<1>. QED  BY <1>4 DEF Min

(* The types of what the operations change; call is set by Next alone. *)
TablesTyped ==
  /\ fdtablea \in FdTableArray
  /\ result \in Int

(***************************************************************************)
(* The three invariants need one another: a process may be given a table   *)
(* nobody owns because that table is empty, and the table it is given is   *)
(* its only one because it had none.                                       *)
(***************************************************************************)
IInv ==
  /\ TablesTyped
  /\ EntriesConsistent
  /\ OneTablePerPid
  /\ UnownedTablesEmpty

(* The entries of one table: flag and inode number agree. *)
Consistent(table) ==
  /\ table \in [Slots -> Entry]
  /\ \A s \in Slots : IF table[s].being_used = 1
                      THEN table[s].inode_num \in Inodes
                      ELSE table[s].inode_num = NoInode

(***************************************************************************)
(* What every operation that changes the array does: it stores consistent  *)
(* entries in one table, either the caller's own or one nobody owns, and   *)
(* then only for a caller that has none.                                   *)
(***************************************************************************)
Stores(t, pid, table) ==
  /\ t \in Tables
  /\ pid \in Pids
  /\ Consistent(table)
  /\ \/ fdtablea[t].pid = pid
     \/ fdtablea[t].pid = NoPid /\ ~HasTable(fdtablea, pid)
  /\ fdtablea' = Store(fdtablea, t, pid, table)

LEMMA StoresIInv ==
  ASSUME IInv, NEW t, NEW pid, NEW table, Stores(t, pid, table), result' \in Int
  PROVE  IInv'
<1>1. /\ t \in Tables /\ pid \in Pids /\ pid # NoPid
      /\ Consistent(table)
      /\ fdtablea' = [fdtablea EXCEPT ![t] = [pid |-> pid, table |-> table]]
  BY FdAssumption DEF Stores, Store
<1>2. TablesTyped'
  BY <1>1 DEF IInv, TablesTyped, FdTableArray, Consistent
<1>3. EntriesConsistent'
  BY <1>1 DEF IInv, TablesTyped, FdTableArray, EntriesConsistent, Consistent
<1>4. OneTablePerPid'
  BY <1>1 DEF IInv, TablesTyped, FdTableArray, OneTablePerPid, Stores, HasTable, OwnedBy
<1>5. UnownedTablesEmpty'
  BY <1>1 DEF IInv, TablesTyped, FdTableArray, UnownedTablesEmpty
<1>. QED  BY <1>2, <1>3, <1>4, <1>5 DEF IInv

(* A process that has a table has exactly one, and TableOf finds it. *)
LEMMA OwnTable ==
  ASSUME IInv, NEW pid \in Pids, HasTable(fdtablea, pid)
  PROVE  LET t == Min(OwnedBy(fdtablea, pid)) IN
         /\ t \in Tables
         /\ fdtablea[t].pid = pid
         /\ OwnedBy(fdtablea, pid) = {t}
         /\ TableOf(fdtablea, pid) = fdtablea[t].table
         /\ Consistent(fdtablea[t].table)
<1> DEFINE t == Min(OwnedBy(fdtablea, pid))
<1>1. OwnedBy(fdtablea, pid) \in SUBSET Nat
  BY FdAssumption DEF OwnedBy, Tables
<1>2. t \in OwnedBy(fdtablea, pid)
  BY <1>1, MinIsLeast DEF HasTable
<1>3. t \in Tables /\ fdtablea[t].pid = pid
  BY <1>2 DEF OwnedBy
<1> HIDE DEF t
<1>4. OwnedBy(fdtablea, pid) = {t}
  BY <1>3, FdAssumption DEF IInv, OneTablePerPid, OwnedBy
<1>5. TableOf(fdtablea, pid) = fdtablea[t].table
  BY DEF TableOf, t
<1>6. Consistent(fdtablea[t].table)
  BY <1>3 DEF IInv, TablesTyped, FdTableArray, EntriesConsistent, Consistent
<1>. QED  BY <1>3, <1>4, <1>5, <1>6 DEF t

(***************************************************************************)
(* How the abstract descriptors change when an operation stores entries.   *)
(***************************************************************************)
DescriptorIn(table, fd) ==
  IF table[fd].being_used = 1
  THEN [inode |-> table[fd].inode_num, offset |-> table[fd].offset]
  ELSE [inode |-> -1, offset |-> -1]

Known == {pid \in Pids : HasTable(fdtablea, pid)}

LEMMA StoresDescriptors ==
  ASSUME IInv, NEW t, NEW pid, NEW table, Stores(t, pid, table)
  PROVE  /\ Known' = Known \cup {pid}
         /\ \A fd \in Slots : Descriptor(pid, fd)' = DescriptorIn(table, fd)
         /\ \A q \in Pids \ {pid}, fd \in Slots :
              Descriptor(q, fd)' = Descriptor(q, fd)
<1>1. /\ t \in Tables /\ pid \in Pids /\ pid # NoPid
      /\ fdtablea' = [fdtablea EXCEPT ![t] = [pid |-> pid, table |-> table]]
      /\ fdtablea \in FdTableArray
  BY FdAssumption DEF Stores, Store, IInv, TablesTyped
<1>2. \A q \in Pids \ {pid} : OwnedBy(fdtablea', q) = OwnedBy(fdtablea, q)
  BY <1>1, FdAssumption DEF FdTableArray, OwnedBy, Stores
<1>3. OwnedBy(fdtablea', pid) = {t}
  <2>1. CASE fdtablea[t].pid = pid
    BY <1>1, <2>1 DEF FdTableArray, OwnedBy, IInv, OneTablePerPid
  <2>2. CASE ~HasTable(fdtablea, pid)
    BY <1>1, <2>2 DEF FdTableArray, OwnedBy, HasTable
  <2>. QED  BY <2>1, <2>2 DEF Stores
<1>4. Known' = Known \cup {pid}
  BY <1>1, <1>2, <1>3 DEF Known, HasTable
<1>5. \A fd \in Slots : Descriptor(pid, fd)' = DescriptorIn(table, fd)
  <2>1. Min({t}) = t
    <3>1. {t} \in SUBSET Nat /\ {t} # {}
      BY <1>1, FdAssumption DEF Tables
    <3>. QED  BY <3>1, MinIsLeast
  <2>2. HasTable(fdtablea', pid) /\ TableOf(fdtablea', pid) = table
    BY <1>1, <1>3, <2>1 DEF HasTable, TableOf, FdTableArray
  <2>. QED  BY <2>2 DEF Descriptor, DescriptorIn
<1>6. ASSUME NEW q \in Pids \ {pid}, NEW fd \in Slots
      PROVE  Descriptor(q, fd)' = Descriptor(q, fd)
  <2>1. HasTable(fdtablea', q) <=> HasTable(fdtablea, q)
    BY <1>2 DEF HasTable
  <2>2. CASE ~HasTable(fdtablea, q)
    BY <2>1, <2>2 DEF Descriptor
  <2>3. CASE HasTable(fdtablea, q)
    <3>1. TableOf(fdtablea', q) = TableOf(fdtablea, q)
      <4> DEFINE u == Min(OwnedBy(fdtablea, q))
      <4>1. u \in Tables /\ fdtablea[u].pid = q /\ u # t
        <5>1. u \in Tables /\ fdtablea[u].pid = q
          BY <2>3, OwnTable
        <5>. QED  BY <1>1, <5>1, <2>3, FdAssumption DEF Stores
      <4> HIDE DEF u
      <4>2. fdtablea'[u] = fdtablea[u]
        BY <1>1, <4>1 DEF FdTableArray
      <4>. QED  BY <1>2, <4>2 DEF TableOf, u
    <3>. QED  BY <2>1, <3>1 DEF Descriptor
  <2>. QED  BY <2>2, <2>3
<1>. QED  BY <1>4, <1>5, <1>6

(* The same in the words of the refinement mapping. *)
AbstractOpen == [p \in Pids |-> [fd \in Slots |-> Descriptor(p, fd)]]

LEMMA StoresAbstract ==
  ASSUME IInv, NEW t, NEW pid, NEW table, Stores(t, pid, table)
  PROVE  /\ Known' = Known \cup {pid}
         /\ AbstractOpen' = [AbstractOpen EXCEPT ![pid] =
                               [fd \in Slots |-> DescriptorIn(table, fd)]]
<1>1. pid \in Pids
  BY DEF Stores
<1>2. /\ Known' = Known \cup {pid}
      /\ \A fd \in Slots : Descriptor(pid, fd)' = DescriptorIn(table, fd)
      /\ \A q \in Pids \ {pid}, fd \in Slots :
           Descriptor(q, fd)' = Descriptor(q, fd)
  BY StoresDescriptors
<1>3. \A q \in Pids \ {pid} :
        [fd \in Slots |-> Descriptor(q, fd)'] = [fd \in Slots |-> Descriptor(q, fd)]
  BY <1>2
<1>4. [fd \in Slots |-> Descriptor(pid, fd)'] = [fd \in Slots |-> DescriptorIn(table, fd)]
  BY <1>2
<1>. QED  BY <1>1, <1>2, <1>3, <1>4 DEF AbstractOpen

(***************************************************************************)
(* The answer of fdtable_a_createentry: a refusal that changes nothing     *)
(* abstractly, or the first unused entry, filled in.                       *)
(***************************************************************************)
FilledEntry(inodenum) ==
  [being_used |-> 1, inode_num |-> inodenum, offset |-> 0]

LEMMA CreateEntryCases ==
  ASSUME IInv, NEW pid \in Pids, NEW inodenum \in Inodes,
         a_createentry(pid, inodenum)
  PROVE  \/ /\ ~HasTable(fdtablea, pid) /\ ~HasTable(fdtablea, NoPid)
            /\ fdtablea' = fdtablea
            /\ result' = -1
         \/ /\ HasTable(fdtablea, pid)
            /\ \A fd \in Slots : Descriptor(pid, fd) # [inode |-> -1, offset |-> -1]
            /\ fdtablea' = fdtablea
            /\ result' = -1
         \/ \E t \in Tables, fd \in Slots :
              LET table == fdtablea[t].table IN
              /\ HasTable(fdtablea, pid) \/ HasTable(fdtablea, NoPid)
              /\ \A s \in Slots : Descriptor(pid, s) = DescriptorIn(table, s)
              /\ Unused(table) # {} /\ fd = Min(Unused(table)) /\ fd \in Unused(table)
              /\ Stores(t, pid, [table EXCEPT ![fd] = FilledEntry(inodenum)])
              /\ result' = fd
<1> DEFINE key   == IF HasTable(fdtablea, pid) THEN pid ELSE NoPid
           t     == Min(OwnedBy(fdtablea, key))
           table == fdtablea[t].table
           fd    == Min(Unused(table))
<1>1. CASE ~HasTable(fdtablea, pid) /\ ~HasTable(fdtablea, NoPid)
  BY <1>1 DEF a_createentry, CreateEntry
<1>2. CASE HasTable(fdtablea, pid) \/ HasTable(fdtablea, NoPid)
  <2>1. t \in Tables /\ fdtablea[t].pid = key
    <3>1. OwnedBy(fdtablea, key) # {}
      BY <1>2 DEF HasTable
    <3>2. OwnedBy(fdtablea, key) \in SUBSET Nat
      BY FdAssumption DEF OwnedBy, Tables
    <3>. QED  BY <3>1, <3>2, MinIsLeast DEF OwnedBy
  <2>2. /\ Consistent(table)
        /\ table \in [Slots -> Entry]
    BY <2>1 DEF IInv, TablesTyped, FdTableArray, EntriesConsistent, Consistent
  <2>3. \A s \in Slots : Descriptor(pid, s) = DescriptorIn(table, s)
    <3>1. CASE HasTable(fdtablea, pid)
      BY <3>1 DEF Descriptor, DescriptorIn, TableOf
    <3>2. CASE ~HasTable(fdtablea, pid)
      <4>1. Unused(table) = Slots
        BY <2>1, <3>2 DEF IInv, UnownedTablesEmpty
      <4>. QED  BY <3>2, <4>1 DEF Descriptor, DescriptorIn, Unused
    <3>. QED  BY <3>1, <3>2
  <2>4. CASE Unused(table) = {}
    <3>1. HasTable(fdtablea, pid)
      <4>1. Slots # {}
        BY FdAssumption DEF Slots
      <4>. QED  BY <2>1, <2>4, <4>1 DEF IInv, UnownedTablesEmpty
    <3>2. fdtablea' = Store(fdtablea, t, pid, table) /\ result' = -1
      BY <1>2, <2>4 DEF a_createentry, CreateEntry
    <3>3. fdtablea[t] = [pid |-> pid, table |-> table]
      BY <2>1, <3>1 DEF IInv, TablesTyped, FdTableArray
    <3>4. fdtablea' = fdtablea
      BY <2>1, <3>2, <3>3 DEF Store, IInv, TablesTyped, FdTableArray
    <3>5. \A s \in Slots : DescriptorIn(table, s) # [inode |-> -1, offset |-> -1]
      <4> TAKE s \in Slots
      <4>1. table[s].being_used = 1 /\ table[s].inode_num \in Inodes
        BY <2>2, <2>4 DEF Unused, Entry, Consistent
      <4>2. table[s].inode_num # -1
        BY <4>1, DescriptorAssumption
      <4>. QED  BY <4>1, <4>2 DEF DescriptorIn
    <3>. QED  BY <2>3, <3>1, <3>2, <3>4, <3>5
  <2>5. CASE Unused(table) # {}
    <3>1. fd \in Unused(table)
      <4>1. Unused(table) \in SUBSET Nat
        BY FdAssumption DEF Unused, Slots
      <4>. QED  BY <2>5, <4>1, MinIsLeast
    <3> DEFINE new == [table EXCEPT ![fd] = FilledEntry(inodenum)]
    <3>2. fdtablea' = Store(fdtablea, t, pid, new) /\ result' = fd
      BY <1>2, <2>5 DEF a_createentry, CreateEntry, FilledEntry
    <3>3. Consistent(new)
      <4>1. FilledEntry(inodenum) \in Entry
        BY DescriptorAssumption DEF FilledEntry, Entry
      <4> HIDE DEF table, fd
      <4>2. fd \in Slots
        BY <3>1 DEF Unused
      <4>. QED  BY <2>2, <4>1, <4>2 DEF Consistent, FilledEntry
    <3>4. Stores(t, pid, new)
      <4>1. \/ fdtablea[t].pid = pid
            \/ fdtablea[t].pid = NoPid /\ ~HasTable(fdtablea, pid)
        BY <2>1
      <4> HIDE DEF t, new
      <4>. QED  BY <2>1, <3>2, <3>3, <4>1 DEF Stores
    <3>5. fd \in Slots
      BY <3>1 DEF Unused
    <3> HIDE DEF t, fd
    <3>. QED  BY <1>2, <2>1, <2>3, <2>5, <3>1, <3>2, <3>4, <3>5 DEF fd
  <2>. QED  BY <2>4, <2>5
<1>. QED  BY <1>1, <1>2

(***************************************************************************)
(* Replacing one entry of the caller's own table, as a seek or a removal   *)
(* does.                                                                   *)
(***************************************************************************)
EntryDescriptor(e) ==
  IF e.being_used = 1
  THEN [inode |-> e.inode_num, offset |-> e.offset]
  ELSE [inode |-> -1, offset |-> -1]

LEMMA ReplaceEntry ==
  ASSUME IInv, NEW pid \in Pids, HasTable(fdtablea, pid),
         NEW fd \in Slots, NEW e \in Entry,
         IF e.being_used = 1 THEN e.inode_num \in Inodes ELSE e.inode_num = NoInode,
         fdtablea' = Update(fdtablea, pid, [TableOf(fdtablea, pid) EXCEPT ![fd] = e]),
         result' \in Int
  PROVE  /\ IInv'
         /\ Known' = Known
         /\ AbstractOpen' = [AbstractOpen EXCEPT ![pid][fd] = EntryDescriptor(e)]
<1> DEFINE t     == Min(OwnedBy(fdtablea, pid))
           table == fdtablea[t].table
           new   == [table EXCEPT ![fd] = e]
<1>1. /\ t \in Tables
      /\ fdtablea[t].pid = pid
      /\ TableOf(fdtablea, pid) = table
      /\ Consistent(table)
  BY OwnTable
<1>2. fdtablea' = Store(fdtablea, t, pid, new)
  BY <1>1 DEF Update
<1> HIDE DEF t
<1>3. Consistent(new)
  <2> HIDE DEF table
  <2>. QED  BY <1>1 DEF Consistent
<1>4. Stores(t, pid, new)
  <2> HIDE DEF new
  <2>. QED  BY <1>1, <1>2, <1>3 DEF Stores
<1>5. IInv'
  BY <1>4, StoresIInv
<1>6. /\ Known' = Known \cup {pid}
      /\ AbstractOpen' = [AbstractOpen EXCEPT ![pid] =
                            [s \in Slots |-> DescriptorIn(new, s)]]
  <2> HIDE DEF new
  <2>. QED  BY <1>4, StoresAbstract
<1>7. pid \in Known
  BY DEF Known
<1>8. AbstractOpen[pid] = [s \in Slots |-> DescriptorIn(table, s)]
  BY <1>1 DEF AbstractOpen, Descriptor, DescriptorIn
<1>9. [s \in Slots |-> DescriptorIn(new, s)]
        = [AbstractOpen[pid] EXCEPT ![fd] = EntryDescriptor(e)]
  <2> HIDE DEF table
  <2>1. table \in [Slots -> Entry]
    BY <1>1 DEF Consistent
  <2>2. \A s \in Slots : DescriptorIn(new, s)
          = IF s = fd THEN EntryDescriptor(e) ELSE DescriptorIn(table, s)
    BY <2>1 DEF DescriptorIn, EntryDescriptor
  <2>. QED  BY <1>8, <2>2
<1>. QED  BY <1>5, <1>6, <1>7, <1>9 DEF AbstractOpen

(***************************************************************************)
(* fdtable_a_seekwithfd on an entry in use moves the abstract descriptor,  *)
(* on one not in use it moves nothing that can be seen.                    *)
(***************************************************************************)
LEMMA SeekResult ==
  ASSUME IInv, NEW pid \in Pids, NEW fd \in Fds, NEW offset \in Offsets,
         Returns(SeekWithFd(fdtablea, pid, fd, offset))
  PROVE  /\ IInv'
         /\ Known' = Known
         /\ AbstractOpen' = IF Abstract!IsOpen(pid, fd)
                            THEN [AbstractOpen EXCEPT ![pid][fd] =
                                    [inode |-> AbstractOpen[pid][fd].inode,
                                     offset |-> offset]]
                            ELSE AbstractOpen
         /\ result' = IF pid \in Known /\ fd \in Slots THEN 0 ELSE -1
<1>1. CASE ~CanSeek(fdtablea, pid, fd)
  <2>1. fdtablea' = fdtablea /\ result' = -1
    BY <1>1 DEF Returns, SeekWithFd
  <2>2. ~ (pid \in Known /\ fd \in Slots)
    BY <1>1 DEF CanSeek, Known
  <2>3. ~Abstract!IsOpen(pid, fd)
    BY <2>2 DEF Abstract!IsOpen, Abstract!Closed, Known, Descriptor
  <2>4. Known' = Known /\ AbstractOpen' = AbstractOpen
    BY <2>1 DEF Known, AbstractOpen, Descriptor, HasTable, OwnedBy, TableOf
  <2>5. IInv'
    BY <2>1 DEF IInv, TablesTyped, EntriesConsistent, OneTablePerPid, UnownedTablesEmpty
  <2>. QED  BY <2>1, <2>2, <2>3, <2>4, <2>5
<1>2. CASE CanSeek(fdtablea, pid, fd)
  <2> DEFINE table == TableOf(fdtablea, pid)
             e     == SeekEntry(table[fd], offset)
  <2>1. HasTable(fdtablea, pid) /\ fd \in Slots /\ pid \in Known
    BY <1>2 DEF CanSeek, Known
  <2>2. Consistent(table)
    BY <2>1, OwnTable
  <2>3. /\ table[fd] \in Entry
        /\ IF table[fd].being_used = 1 THEN table[fd].inode_num \in Inodes
                                       ELSE table[fd].inode_num = NoInode
    BY <2>1, <2>2 DEF Consistent
  <2>4. /\ e \in Entry
        /\ e.being_used = table[fd].being_used
        /\ e.inode_num = table[fd].inode_num
        /\ e.offset = offset
    BY <2>3, DescriptorAssumption DEF SeekEntry, Entry
  <2>5. /\ fdtablea' = Update(fdtablea, pid, [table EXCEPT ![fd] = e])
        /\ result' = 0
    BY <1>2 DEF Returns, SeekWithFd
  <2>6. AbstractOpen[pid][fd] = EntryDescriptor(table[fd])
    BY <2>1 DEF AbstractOpen, Descriptor, EntryDescriptor
  <2> HIDE DEF table, e
  <2>7. /\ IInv'
        /\ Known' = Known
        /\ AbstractOpen' = [AbstractOpen EXCEPT ![pid][fd] = EntryDescriptor(e)]
    BY <2>1, <2>3, <2>4, <2>5, ReplaceEntry DEF table
  <2>8. Abstract!IsOpen(pid, fd) <=> table[fd].being_used = 1
    <3>1. Abstract!IsOpen(pid, fd)
            <=> AbstractOpen[pid][fd] # [inode |-> -1, offset |-> -1]
      BY <2>1 DEF Abstract!IsOpen, Abstract!Closed, AbstractOpen
    <3>2. table[fd].being_used = 1 => table[fd].inode_num # -1
      BY <2>3, DescriptorAssumption
    <3>. QED  BY <2>6, <3>1, <3>2 DEF EntryDescriptor
  <2>9. CASE table[fd].being_used = 1
    BY <2>1, <2>4, <2>5, <2>6, <2>7, <2>8, <2>9 DEF EntryDescriptor
  <2>10. CASE table[fd].being_used # 1
    <3>1. EntryDescriptor(e) = AbstractOpen[pid][fd]
      BY <2>4, <2>6, <2>10 DEF EntryDescriptor
    <3>2. AbstractOpen' = AbstractOpen
      <4>1. AbstractOpen \in [Pids -> [Slots -> {Descriptor(p, s) : p \in Pids, s \in Slots}]]
        BY DEF AbstractOpen
      <4>2. [AbstractOpen EXCEPT ![pid][fd] = AbstractOpen[pid][fd]] = AbstractOpen
        BY <2>1, <4>1
      <4>. QED  BY <2>7, <3>1, <4>2
    <3>. QED  BY <2>1, <2>5, <2>7, <2>8, <2>10, <3>2
  <2>. QED  BY <2>9, <2>10
<1>. QED  BY <1>1, <1>2

(* A step that leaves the array alone. *)
LEMMA UnchangedTables ==
  ASSUME IInv, fdtablea' = fdtablea, result' \in Int
  PROVE  IInv' /\ Known' = Known /\ AbstractOpen' = AbstractOpen
BY DEF IInv, TablesTyped, EntriesConsistent, OneTablePerPid, UnownedTablesEmpty,
       Known, AbstractOpen, Descriptor, HasTable, OwnedBy, TableOf

(* A descriptor is open exactly when its entry is in use. *)
LEMMA OpenEntry ==
  ASSUME IInv, NEW pid \in Pids, NEW fd
  PROVE  /\ Abstract!IsOpen(pid, fd)
              <=> /\ CanSeek(fdtablea, pid, fd)
                  /\ TableOf(fdtablea, pid)[fd].being_used = 1
         /\ Abstract!IsOpen(pid, fd) =>
              /\ AbstractOpen[pid][fd].inode = TableOf(fdtablea, pid)[fd].inode_num
              /\ AbstractOpen[pid][fd].offset = TableOf(fdtablea, pid)[fd].offset
<1>1. CASE ~CanSeek(fdtablea, pid, fd)
  BY <1>1 DEF CanSeek, Abstract!IsOpen, Abstract!Closed, Descriptor
<1>2. CASE CanSeek(fdtablea, pid, fd)
  <2> DEFINE e == TableOf(fdtablea, pid)[fd]
  <2>1. HasTable(fdtablea, pid) /\ fd \in Slots
    BY <1>2 DEF CanSeek
  <2>2. e \in Entry /\ (e.being_used = 1 => e.inode_num \in Inodes)
    BY <2>1, OwnTable DEF Consistent
  <2>3. e.being_used = 1 => e.inode_num # -1
    BY <2>2, DescriptorAssumption
  <2>4. AbstractOpen[pid][fd] = EntryDescriptor(e)
    BY <2>1 DEF AbstractOpen, Descriptor, EntryDescriptor
  <2>5. Abstract!IsOpen(pid, fd)
          <=> AbstractOpen[pid][fd] # [inode |-> -1, offset |-> -1]
    BY <2>1 DEF Abstract!IsOpen, Abstract!Closed, AbstractOpen
  <2> HIDE DEF e
  <2>6. Abstract!IsOpen(pid, fd) <=> e.being_used = 1
    BY <2>3, <2>4, <2>5 DEF EntryDescriptor
  <2>. QED  BY <1>2, <2>4, <2>6 DEF EntryDescriptor, e
<1>. QED  BY <1>1, <1>2

(***************************************************************************)
(* fdtable_a_removeatfd closes the abstract descriptor if it is open.      *)
(***************************************************************************)
LEMMA RemoveResult ==
  ASSUME IInv, NEW pid \in Pids, NEW fd \in Fds,
         Returns(RemoveAtFd(fdtablea, pid, fd))
  PROVE  /\ IInv'
         /\ Known' = Known
         /\ AbstractOpen' = IF Abstract!IsOpen(pid, fd)
                            THEN [AbstractOpen EXCEPT ![pid][fd] =
                                    [inode |-> -1, offset |-> -1]]
                            ELSE AbstractOpen
         /\ result' = IF Abstract!IsOpen(pid, fd) THEN 0 ELSE -1
<1>1. CASE ~Abstract!IsOpen(pid, fd)
  <2>1. fdtablea' = fdtablea /\ result' = -1
    BY <1>1, OpenEntry DEF Returns, RemoveAtFd, CanSeek
  <2>. QED  BY <1>1, <2>1, UnchangedTables
<1>2. CASE Abstract!IsOpen(pid, fd)
  <2>1. /\ HasTable(fdtablea, pid)
        /\ fd \in Slots
        /\ TableOf(fdtablea, pid)[fd].being_used = 1
    BY <1>2, OpenEntry DEF CanSeek
  <2>2. /\ fdtablea' = Update(fdtablea, pid,
                         [TableOf(fdtablea, pid) EXCEPT ![fd] = UnusedEntry])
        /\ result' = 0
    BY <2>1 DEF Returns, RemoveAtFd
  <2>3. /\ UnusedEntry \in Entry
        /\ UnusedEntry.being_used = 0
        /\ UnusedEntry.inode_num = NoInode
    BY DEF UnusedEntry, Entry, NoInode
  <2>4. EntryDescriptor(UnusedEntry) = [inode |-> -1, offset |-> -1]
    BY <2>3 DEF EntryDescriptor
  <2>. QED  BY <1>2, <2>1, <2>2, <2>3, <2>4, ReplaceEntry
<1>. QED  BY <1>1, <1>2

(***************************************************************************)
(* The entries holding a real inode are the open descriptors with that     *)
(* inode, although the search looks at entries not in use as well.         *)
(***************************************************************************)
LEMMA HoldingIsWithInode ==
  ASSUME IInv, NEW pid \in Pids, NEW inodenum \in Inodes
  PROVE  Abstract!WithInode(pid, inodenum)
           = IF HasTable(fdtablea, pid)
             THEN Holding(TableOf(fdtablea, pid), inodenum) ELSE {}
<1>1. inodenum # -1
  BY DescriptorAssumption
<1>2. CASE ~HasTable(fdtablea, pid)
  BY <1>1, <1>2 DEF Abstract!WithInode, Descriptor
<1>3. CASE HasTable(fdtablea, pid)
  <2> DEFINE table == TableOf(fdtablea, pid)
  <2>1. Consistent(table)
    BY <1>3, OwnTable
  <2>2. \A s \in Slots : Descriptor(pid, s) = DescriptorIn(table, s)
    BY <1>3 DEF Descriptor, DescriptorIn
  <2> HIDE DEF table
  <2>3. \A s \in Slots : DescriptorIn(table, s).inode = table[s].inode_num
    BY <2>1 DEF Consistent, DescriptorIn, Entry, NoInode
  <2>. QED  BY <1>3, <2>2, <2>3 DEF Abstract!WithInode, Holding, table
<1>. QED  BY <1>2, <1>3

(* Asking every table, owned or not, asks every process. *)
LEMMA CheckResult ==
  ASSUME IInv, NEW inodenum \in Inodes
  PROVE  CheckForInode(fdtablea, inodenum)
           = IF \E p \in Pids : Abstract!WithInode(p, inodenum) # {} THEN 1 ELSE -1
<1>1. ASSUME NEW t \in Tables, Holding(fdtablea[t].table, inodenum) # {}
      PROVE  \E p \in Pids : Abstract!WithInode(p, inodenum) # {}
  <2>1. fdtablea[t].pid # NoPid
    <3>1. PICK s \in Slots : fdtablea[t].table[s].inode_num = inodenum
      BY <1>1 DEF Holding
    <3>2. fdtablea[t].table[s].being_used = 1
      BY <3>1, DescriptorAssumption DEF IInv, EntriesConsistent, NoInode
    <3>. QED  BY <3>2 DEF IInv, UnownedTablesEmpty, Unused
  <2>2. PICK p \in Pids : fdtablea[t].pid = p
    BY <2>1 DEF IInv, TablesTyped, FdTableArray
  <2>3. HasTable(fdtablea, p) /\ t \in OwnedBy(fdtablea, p)
    BY <2>2 DEF HasTable, OwnedBy
  <2>4. TableOf(fdtablea, p) = fdtablea[t].table
    BY <2>3, OwnTable
  <2>. QED  BY <1>1, <2>3, <2>4, HoldingIsWithInode
<1>2. ASSUME NEW p \in Pids, Abstract!WithInode(p, inodenum) # {}
      PROVE  \E t \in Tables : Holding(fdtablea[t].table, inodenum) # {}
  BY <1>2, HoldingIsWithInode, OwnTable
<1>. QED  BY <1>1, <1>2 DEF CheckForInode

(***************************************************************************)
(* The tables that have an owner and the known processes correspond one to *)
(* one, so a table is left exactly when fewer than NUM_TABLES processes    *)
(* are known.                                                              *)
(***************************************************************************)
LEMMA KnownCounted ==
  ASSUME IInv
  PROVE  /\ Cardinality(Known) < NUM_TABLES <=> HasTable(fdtablea, NoPid)
         /\ Cardinality(Known) = NUM_TABLES <=> ~HasTable(fdtablea, NoPid)
<1> DEFINE T == [p \in Known |-> Min(OwnedBy(fdtablea, p))]
<1>1. /\ IsFiniteSet(Tables)
      /\ Cardinality(Tables) = NUM_TABLES
  <2>1. /\ IsFiniteSet(0 .. NUM_TABLES - 1)
        /\ Cardinality(0 .. NUM_TABLES - 1)
             = IF 0 > NUM_TABLES - 1 THEN 0 ELSE (NUM_TABLES - 1) - 0 + 1
    BY FdAssumption, FS_Interval
  <2>. QED  BY <2>1, FdAssumption DEF Tables
<1>2. \A p \in Known : T[p] \in Tables /\ fdtablea[T[p]].pid = p
  BY OwnTable DEF Known
<1>3. CASE HasTable(fdtablea, NoPid)
  <2>1. PICK t0 \in Tables : fdtablea[t0].pid = NoPid
    BY <1>3 DEF HasTable, OwnedBy
  <2>2. T \in Injection(Known, Tables \ {t0})
    <3>1. \A p \in Known : p # NoPid
      BY FdAssumption DEF Known
    <3> HIDE DEF T
    <3>2. DOMAIN T = Known /\ T \in [Known -> Tables \ {t0}]
      BY <1>2, <2>1, <3>1 DEF T
    <3>. QED  BY <1>2, <3>2 DEF Injection, IsInjective
  <2>3. /\ IsFiniteSet(Tables \ {t0})
        /\ Cardinality(Tables \ {t0}) = NUM_TABLES - 1
    BY <1>1, <2>1, FS_RemoveElement
  <2>4. Cardinality(Known) <= NUM_TABLES - 1 /\ IsFiniteSet(Known)
    <3> HIDE DEF T
    <3>. QED  BY <2>2, <2>3, FS_Injection
  <2>5. Cardinality(Known) \in Nat
    BY <2>4, FS_CardinalityType
  <2>6. Cardinality(Known) < NUM_TABLES
    BY <2>4, <2>5, FdAssumption
  <2>. QED  BY <1>3, <2>5, <2>6, FdAssumption
<1>4. CASE ~HasTable(fdtablea, NoPid)
  <2>1. T \in Bijection(Known, Tables)
    <3>1. \A t \in Tables : fdtablea[t].pid \in Known /\ T[fdtablea[t].pid] = t
      <4> TAKE t \in Tables
      <4>1. fdtablea[t].pid \in Pids
        BY <1>4 DEF IInv, TablesTyped, FdTableArray, HasTable, OwnedBy
      <4>2. t \in OwnedBy(fdtablea, fdtablea[t].pid)
        BY DEF OwnedBy
      <4>3. HasTable(fdtablea, fdtablea[t].pid)
        BY <4>2 DEF HasTable
      <4>. QED  BY <4>1, <4>2, <4>3, OwnTable DEF Known
    <3> HIDE DEF T
    <3>2. T \in [Known -> Tables]
      BY <1>2 DEF T
    <3>. QED  BY <1>2, <3>1, <3>2
              DEF Bijection, Injection, Surjection, IsInjective
  <2>2. Cardinality(Known) = NUM_TABLES
    <3>1. T \in Injection(Known, Tables) /\ T \in Surjection(Known, Tables)
      BY <2>1 DEF Bijection
    <3> HIDE DEF T
    <3>. QED  BY <1>1, <3>1, FS_Injection
  <2>. QED  BY <1>4, <2>2, FdAssumption
<1>. QED  BY <1>3, <1>4

(* A process that has no table finds one exactly when it is admitted. *)
LEMMA Admission ==
  ASSUME IInv, NEW pid \in Pids
  PROVE  Abstract!Admitted(pid)
           <=> HasTable(fdtablea, pid) \/ HasTable(fdtablea, NoPid)
BY KnownCounted DEF Abstract!Admitted, Abstract!Cardinality, Cardinality, Known

(***************************************************************************)
(* Each call keeps the invariant and is the abstract call of its name.     *)
(***************************************************************************)
LEMMA InitIInv == Init => IInv /\ Abstract!Init
<1> SUFFICES ASSUME Init PROVE IInv /\ Abstract!Init
  OBVIOUS
<1>1. \A t \in Tables :
        /\ fdtablea[t].pid = NoPid
        /\ fdtablea[t].table = [s \in Slots |-> UnusedEntry]
  BY DEF Init, InitialTables
<1>2. /\ UnusedEntry \in Entry
      /\ UnusedEntry.being_used = 0
      /\ UnusedEntry.inode_num = NoInode
  BY DEF UnusedEntry, Entry, NoInode
<1>3. TablesTyped
  BY <1>2 DEF Init, InitialTables, TablesTyped, FdTableArray
<1>4. EntriesConsistent /\ OneTablePerPid /\ UnownedTablesEmpty
  BY <1>1, <1>2
  DEF EntriesConsistent, OneTablePerPid, UnownedTablesEmpty, Unused
<1>5. \A p \in Pids : ~HasTable(fdtablea, p)
  BY <1>1, FdAssumption DEF HasTable, OwnedBy
<1>6. Abstract!Init
  BY <1>5 DEF Init, Abstract!Init, Abstract!AllClosed, Abstract!Closed, Descriptor
<1>. QED  BY <1>3, <1>4, <1>6 DEF IInv

LEMMA CreateStep ==
  ASSUME IInv, NEW pid \in Pids, NEW inodenum \in Inodes,
         a_createentry(pid, inodenum)
  PROVE  IInv' /\ Abstract!Open(pid, inodenum)
<1>1. CASE fdtablea' = fdtablea /\ result' = -1
           /\ (~Abstract!Admitted(pid) \/ Abstract!Vacant(pid) = {})
  <2>1. IInv' /\ Known' = Known /\ AbstractOpen' = AbstractOpen
    BY <1>1, UnchangedTables
  <2>. QED  BY <1>1, <2>1 DEF Abstract!Open, Known, AbstractOpen
<1>2. ASSUME NEW t \in Tables, NEW fd \in Slots,
             LET table == fdtablea[t].table IN
              /\ HasTable(fdtablea, pid) \/ HasTable(fdtablea, NoPid)
              /\ \A s \in Slots : Descriptor(pid, s) = DescriptorIn(table, s)
              /\ Unused(table) # {} /\ fd = Min(Unused(table)) /\ fd \in Unused(table)
              /\ Stores(t, pid, [table EXCEPT ![fd] = FilledEntry(inodenum)])
              /\ result' = fd
      PROVE  IInv' /\ Abstract!Open(pid, inodenum)
  <2> DEFINE table == fdtablea[t].table
             new   == [table EXCEPT ![fd] = FilledEntry(inodenum)]
  <2>1. table \in [Slots -> Entry]
        /\ \A s \in Slots : table[s].being_used = 1 => table[s].inode_num # -1
    BY DescriptorAssumption DEF IInv, TablesTyped, FdTableArray, EntriesConsistent
  <2>2. Stores(t, pid, new) /\ result' \in Int
    BY <1>2, FdAssumption DEF Slots
  <2>3. IInv'
    <3> HIDE DEF new
    <3>. QED  BY <2>2, StoresIInv
  <2>4. /\ Known' = Known \cup {pid}
        /\ AbstractOpen' = [AbstractOpen EXCEPT ![pid] =
                              [s \in Slots |-> DescriptorIn(new, s)]]
    <3> HIDE DEF new
    <3>. QED  BY <2>2, StoresAbstract
  <2>5. AbstractOpen[pid] = [s \in Slots |-> DescriptorIn(table, s)]
    BY <1>2 DEF AbstractOpen
  <2>6. [s \in Slots |-> DescriptorIn(new, s)]
          = [AbstractOpen[pid] EXCEPT ![fd] = [inode |-> inodenum, offset |-> 0]]
    <3> HIDE DEF table
    <3>1. \A s \in Slots : DescriptorIn(new, s)
            = IF s = fd THEN [inode |-> inodenum, offset |-> 0]
              ELSE DescriptorIn(table, s)
      BY <2>1 DEF DescriptorIn, FilledEntry
    <3>. QED  BY <2>5, <3>1
  <2>7. Abstract!Vacant(pid) = Unused(table)
    <3>1. \A s \in Slots : AbstractOpen[pid][s] = [inode |-> -1, offset |-> -1]
            <=> table[s].being_used = 0
      <4> HIDE DEF table
      <4>. QED  BY <2>1, <2>5 DEF DescriptorIn, Entry
    <3>2. Abstract!Vacant(pid)
            = {s \in Slots : AbstractOpen[pid][s] = [inode |-> -1, offset |-> -1]}
      BY DEF Abstract!Vacant, Abstract!Closed, AbstractOpen
    <3>. QED  BY <3>1, <3>2 DEF Unused
  <2>8. Abstract!Min(Abstract!Vacant(pid)) = fd
    BY <1>2, <2>7 DEF Abstract!Min, Min
  <2>9. Abstract!Admitted(pid) /\ Abstract!Vacant(pid) # {}
    BY <1>2, <2>7, Admission
  <2>10. AbstractOpen' = [AbstractOpen EXCEPT ![pid][fd] = [inode |-> inodenum, offset |-> 0]]
    BY <2>4, <2>6 DEF AbstractOpen
  <2>. QED  BY <1>2, <2>3, <2>4, <2>8, <2>9, <2>10
            DEF Abstract!Open, Abstract!Opened, Known, AbstractOpen
<1>3. CASE ~HasTable(fdtablea, pid) /\ ~HasTable(fdtablea, NoPid)
           /\ fdtablea' = fdtablea /\ result' = -1
  BY <1>1, <1>3, Admission
<1>4. CASE /\ HasTable(fdtablea, pid)
           /\ \A fd \in Slots : Descriptor(pid, fd) # [inode |-> -1, offset |-> -1]
           /\ fdtablea' = fdtablea
           /\ result' = -1
  <2>1. Abstract!Vacant(pid) = {}
    BY <1>4 DEF Abstract!Vacant, Abstract!Closed
  <2>. QED  BY <1>1, <1>4, <2>1
<1>. QED  BY <1>2, <1>3, <1>4, CreateEntryCases

LEMMA SeekStep ==
  ASSUME IInv, NEW pid \in Pids, NEW fd \in Fds, NEW offset \in Offsets,
         Returns(SeekWithFd(fdtablea, pid, fd, offset))
  PROVE  IInv' /\ Abstract!Seek(pid, fd, offset)
BY SeekResult DEF Abstract!Seek, Abstract!Opened, Known, AbstractOpen

LEMMA RemoveStep ==
  ASSUME IInv, NEW pid \in Pids, NEW fd \in Fds,
         Returns(RemoveAtFd(fdtablea, pid, fd))
  PROVE  IInv' /\ Abstract!Close(pid, fd)
BY RemoveResult DEF Abstract!Close, Abstract!Closed, Known, AbstractOpen

(***************************************************************************)
(* The searches by inode find the lowest open descriptor of the process.   *)
(***************************************************************************)
LEMMA FoundByInode ==
  ASSUME IInv, NEW pid \in Pids, NEW inodenum \in Inodes,
         HasTable(fdtablea, pid),
         Holding(TableOf(fdtablea, pid), inodenum) # {}
  PROVE  LET fd == Min(Holding(TableOf(fdtablea, pid), inodenum)) IN
         /\ fd \in Fds
         /\ Abstract!WithInode(pid, inodenum) # {}
         /\ Abstract!Min(Abstract!WithInode(pid, inodenum)) = fd
         /\ fd \in Slots
         /\ TableOf(fdtablea, pid)[fd].being_used = 1
<1> DEFINE table == TableOf(fdtablea, pid)
           fd    == Min(Holding(table, inodenum))
<1>1. Consistent(table)
  BY OwnTable
<1>2. fd \in Holding(table, inodenum)
  <2>1. Holding(table, inodenum) \in SUBSET Nat
    BY FdAssumption DEF Holding, Slots
  <2>. QED  BY <2>1, MinIsLeast
<1>3. Abstract!WithInode(pid, inodenum) = Holding(table, inodenum)
  BY HoldingIsWithInode
<1>4. Abstract!Min(Abstract!WithInode(pid, inodenum)) = fd
  BY <1>3 DEF Abstract!Min, Min
<1> HIDE DEF table, fd
<1>5. fd \in Slots /\ table[fd].inode_num = inodenum
  BY <1>2 DEF Holding
<1>6. table[fd].being_used = 1
  BY <1>1, <1>5, DescriptorAssumption DEF Consistent, NoInode
<1>7. fd \in Fds
  BY <1>5, DescriptorAssumption
<1>. QED  BY <1>2, <1>3, <1>4, <1>5, <1>6, <1>7 DEF table, fd

LEMMA SeekInodeStep ==
  ASSUME IInv, NEW pid \in Pids, NEW inodenum \in Inodes, NEW offset \in Offsets,
         a_seekwithinodenum(pid, inodenum, offset)
  PROVE  IInv' /\ Abstract!SeekInode(pid, inodenum, offset)
<1> DEFINE found == /\ HasTable(fdtablea, pid)
                    /\ Holding(TableOf(fdtablea, pid), inodenum) # {}
<1>1. CASE ~found
  <2>1. fdtablea' = fdtablea /\ result' = -1
    BY <1>1 DEF a_seekwithinodenum, SeekWithInodeNum, Returns
  <2>2. Abstract!WithInode(pid, inodenum) = {}
    BY <1>1, HoldingIsWithInode
  <2>3. IInv' /\ Known' = Known /\ AbstractOpen' = AbstractOpen
    BY <2>1, UnchangedTables
  <2>. QED  BY <2>1, <2>2, <2>3 DEF Abstract!SeekInode, Known, AbstractOpen
<1>2. CASE found
  <2> DEFINE fd == Min(Holding(TableOf(fdtablea, pid), inodenum))
  <2>1. Returns(SeekWithFd(fdtablea, pid, fd, offset))
    BY <1>2 DEF a_seekwithinodenum, SeekWithInodeNum
  <2>2. /\ fd \in Fds
        /\ Abstract!WithInode(pid, inodenum) # {}
        /\ Abstract!Min(Abstract!WithInode(pid, inodenum)) = fd
    BY <1>2, FoundByInode
  <2>3. IInv' /\ Abstract!Seek(pid, fd, offset)
    <3> HIDE DEF fd
    <3>. QED  BY <2>1, <2>2, SeekStep
  <2>. QED  BY <2>2, <2>3 DEF Abstract!SeekInode
<1>. QED  BY <1>1, <1>2

LEMMA RemoveInodeStep ==
  ASSUME IInv, NEW pid \in Pids, NEW inodenum \in Inodes,
         a_removeatinodenum(pid, inodenum)
  PROVE  IInv' /\ Abstract!CloseInode(pid, inodenum)
<1> DEFINE found == /\ HasTable(fdtablea, pid)
                    /\ Holding(TableOf(fdtablea, pid), inodenum) # {}
<1>1. CASE ~found
  <2>1. fdtablea' = fdtablea /\ result' = -1
    BY <1>1 DEF a_removeatinodenum, RemoveAtInodeNum, Returns
  <2>2. Abstract!WithInode(pid, inodenum) = {}
    BY <1>1, HoldingIsWithInode
  <2>3. IInv' /\ Known' = Known /\ AbstractOpen' = AbstractOpen
    BY <2>1, UnchangedTables
  <2>. QED  BY <2>1, <2>2, <2>3 DEF Abstract!CloseInode, Known, AbstractOpen
<1>2. CASE found
  <2> DEFINE fd == Min(Holding(TableOf(fdtablea, pid), inodenum))
  <2>1. /\ fd \in Fds
        /\ Abstract!WithInode(pid, inodenum) # {}
        /\ Abstract!Min(Abstract!WithInode(pid, inodenum)) = fd
        /\ fd \in Slots
        /\ TableOf(fdtablea, pid)[fd].being_used = 1
    BY <1>2, FoundByInode
  <2>2. Returns(RemoveAtFd(fdtablea, pid, fd))
    BY <1>2, <2>1 DEF a_removeatinodenum, RemoveAtInodeNum, RemoveAtFd
  <2>3. IInv' /\ Abstract!Close(pid, fd)
    <3> HIDE DEF fd
    <3>. QED  BY <2>1, <2>2, RemoveStep
  <2>. QED  BY <2>1, <2>3 DEF Abstract!CloseInode
<1>. QED  BY <1>1, <1>2

(***************************************************************************)
(* The three queries.                                                      *)
(***************************************************************************)
LEMMA AskInodeStep ==
  ASSUME IInv, NEW pid \in Pids, NEW fd \in Fds, a_inodeforfd(pid, fd)
  PROVE  IInv' /\ Abstract!AskInode(pid, fd)
<1>1. result' = (IF Abstract!IsOpen(pid, fd) THEN AbstractOpen[pid][fd].inode ELSE -1)
  <2>1. CASE ~CanSeek(fdtablea, pid, fd)
    BY <2>1, OpenEntry DEF a_inodeforfd, InodeForFd
  <2>2. CASE CanSeek(fdtablea, pid, fd)
    <3> DEFINE e == TableOf(fdtablea, pid)[fd]
    <3>1. e \in Entry /\ (e.being_used # 1 => e.inode_num = -1)
      BY <2>2, OwnTable DEF Consistent, CanSeek, NoInode
    <3>2. result' = e.inode_num
      BY <2>2 DEF a_inodeforfd, InodeForFd
    <3> HIDE DEF e
    <3>. QED  BY <2>2, <3>1, <3>2, OpenEntry DEF e
  <2>. QED  BY <2>1, <2>2
<1>2. result' \in Int
  BY DescriptorAssumption, OpenEntry, OwnTable
  DEF a_inodeforfd, InodeForFd, CanSeek, Consistent, Entry
<1>3. IInv' /\ Known' = Known /\ AbstractOpen' = AbstractOpen
  BY <1>2, UnchangedTables DEF a_inodeforfd
<1>. QED  BY <1>1, <1>3 DEF Abstract!AskInode, Known, AbstractOpen

LEMMA AskPositionStep ==
  ASSUME IInv, NEW pid \in Pids, NEW fd \in Fds, a_positionforfd(pid, fd)
  PROVE  IInv' /\ Abstract!AskPosition(pid, fd)
<1> DEFINE e == TableOf(fdtablea, pid)[fd]
<1>1. CanSeek(fdtablea, pid, fd) /\ e.inode_num >= 0
  BY DEF a_positionforfd, InodeForFd
<1>2. e \in Entry /\ (e.being_used # 1 => e.inode_num = -1)
  BY <1>1, OwnTable DEF Consistent, CanSeek, NoInode
<1>3. result' = e.offset
  BY <1>1 DEF a_positionforfd, PositionForFd
<1> HIDE DEF e
<1>4. result' \in Int /\ e.being_used = 1
  BY <1>1, <1>2, <1>3 DEF Entry
<1>5. Abstract!IsOpen(pid, fd) /\ result' = AbstractOpen[pid][fd].offset
  BY <1>1, <1>3, <1>4, OpenEntry DEF e
<1>6. IInv' /\ Known' = Known /\ AbstractOpen' = AbstractOpen
  BY <1>4, UnchangedTables DEF a_positionforfd
<1>. QED  BY <1>5, <1>6 DEF Abstract!AskPosition, Known, AbstractOpen

LEMMA AskInUseStep ==
  ASSUME IInv, NEW pid \in Pids, NEW inodenum \in Inodes,
         a_checkforinode(pid, inodenum)
  PROVE  IInv' /\ Abstract!AskInUse(pid, inodenum)
<1>1. result' \in Int
  BY DEF a_checkforinode, CheckForInode
<1>2. IInv' /\ Known' = Known /\ AbstractOpen' = AbstractOpen
  BY <1>1, UnchangedTables DEF a_checkforinode
<1>. QED  BY <1>2, CheckResult
          DEF a_checkforinode, Abstract!AskInUse, Known, AbstractOpen

(***************************************************************************)
(* One step of the tables is one step of OpenFiles, or none.               *)
(***************************************************************************)
LEMMA NextStep == IInv /\ [Next]_vars => IInv' /\ [Abstract!Next]_(Abstract!vars)
<1> SUFFICES ASSUME IInv, [Next]_vars
             PROVE  IInv' /\ [Abstract!Next]_(Abstract!vars)
  OBVIOUS
<1>1. CASE call' = "initialize" /\ a_initialize
  <2>1. Init'
    BY <1>1 DEF a_initialize, Init
  <2>2. IInv' /\ Abstract!Init'
    BY <2>1, InitIInv, PTL
  <2>3. Abstract!Reset
    BY <2>2 DEF Abstract!Reset, Abstract!Init
  <2>. QED  BY <1>1, <2>2, <2>3 DEF Abstract!Next
<1>2. ASSUME NEW pid \in Pids, NEW inodenum \in Inodes,
             a_createentry(pid, inodenum),
             call' = "createentry"
      PROVE  IInv' /\ [Abstract!Next]_(Abstract!vars)
  BY <1>2, CreateStep DEF Abstract!Next
<1>3. ASSUME NEW pid \in Pids, NEW fd \in Fds, NEW offset \in Offsets,
             a_seekwithfd(pid, fd, offset),
             call' = "seekwithfd"
      PROVE  IInv' /\ [Abstract!Next]_(Abstract!vars)
  BY <1>3, SeekStep DEF a_seekwithfd, Abstract!Next
<1>4. ASSUME NEW pid \in Pids, NEW inodenum \in Inodes, NEW offset \in Offsets,
             a_seekwithinodenum(pid, inodenum, offset),
             call' = "seekwithinodenum"
      PROVE  IInv' /\ [Abstract!Next]_(Abstract!vars)
  BY <1>4, SeekInodeStep DEF Abstract!Next
<1>5. ASSUME NEW pid \in Pids, NEW fd \in Fds, a_removeatfd(pid, fd),
             call' = "removeatfd"
      PROVE  IInv' /\ [Abstract!Next]_(Abstract!vars)
  BY <1>5, RemoveStep DEF a_removeatfd, Abstract!Next
<1>6. ASSUME NEW pid \in Pids, NEW inodenum \in Inodes,
             a_removeatinodenum(pid, inodenum),
             call' = "removeatinodenum"
      PROVE  IInv' /\ [Abstract!Next]_(Abstract!vars)
  BY <1>6, RemoveInodeStep DEF Abstract!Next
<1>7. ASSUME NEW pid \in Pids, NEW fd \in Fds, a_inodeforfd(pid, fd),
             call' = "inodeforfd"
      PROVE  IInv' /\ [Abstract!Next]_(Abstract!vars)
  BY <1>7, AskInodeStep DEF Abstract!Next
<1>8. ASSUME NEW pid \in Pids, NEW fd \in Fds, a_positionforfd(pid, fd),
             call' = "positionforfd"
      PROVE  IInv' /\ [Abstract!Next]_(Abstract!vars)
  BY <1>8, AskPositionStep DEF Abstract!Next
<1>9. ASSUME NEW pid \in Pids, NEW inodenum \in Inodes,
             a_checkforinode(pid, inodenum),
             call' = "checkforinode"
      PROVE  IInv' /\ [Abstract!Next]_(Abstract!vars)
  BY <1>9, AskInUseStep DEF Abstract!Next
<1>10. CASE UNCHANGED vars
  <2>1. fdtablea' = fdtablea /\ result' = result /\ result' \in Int /\ call' = call
    BY <1>10 DEF vars, IInv, TablesTyped
  <2>2. IInv' /\ Known' = Known /\ AbstractOpen' = AbstractOpen
    BY <2>1, UnchangedTables
  <2>. QED  BY <2>1, <2>2 DEF Abstract!vars, Known, AbstractOpen
<1>. QED  BY <1>1, <1>2, <1>3, <1>4, <1>5, <1>6, <1>7, <1>8, <1>9, <1>10 DEF Next

(***************************************************************************)
(* Type correctness, and the three structural invariants, together.        *)
(***************************************************************************)
THEOREM Inductive == Spec => []IInv
BY InitIInv, NextStep, PTL DEF Spec

(***************************************************************************)
(* The array of tables keeps its shape.                                    *)
(***************************************************************************)
THEOREM TypeCorrect == Spec => []TypeOK
<1>1. Init => call \in Calls
  BY DEF Init, Calls
<1>2. call \in Calls /\ [Next]_vars => (call \in Calls)'
  BY DEF Next, vars, Calls
<1>3. IInv /\ call \in Calls => TypeOK
  BY DEF IInv, TablesTyped, TypeOK
<1>. QED  BY <1>1, <1>2, <1>3, Inductive, PTL DEF Spec

(***************************************************************************)
(* In every entry the flag and the inode number agree.                     *)
(***************************************************************************)
THEOREM EntriesAreConsistent == Spec => []EntriesConsistent
<1>1. IInv => EntriesConsistent
  BY DEF IInv
<1>. QED  BY <1>1, Inductive, PTL

(***************************************************************************)
(* No process ever owns two tables, so rd_close can reach every descriptor *)
(* that rd_open handed out.                                                *)
(***************************************************************************)
THEOREM OneTableEach == Spec => []OneTablePerPid
<1>1. IInv => OneTablePerPid
  BY DEF IInv
<1>. QED  BY <1>1, Inductive, PTL

(***************************************************************************)
(* A table handed to a new process has no entry in use.                    *)
(***************************************************************************)
THEOREM UnownedTablesAreEmpty == Spec => []UnownedTablesEmpty
<1>1. IInv => UnownedTablesEmpty
  BY DEF IInv
<1>. QED  BY <1>1, Inductive, PTL

(***************************************************************************)
(* The array of tables of fdtable.c implements numbered descriptors per    *)
(* process, for any number of processes, tables and entries.               *)
(***************************************************************************)
THEOREM TablesImplementOpenFiles == Spec => ImplementsOpenFiles
<1>1. Init => Abstract!Init
  BY InitIInv
<1>. QED  BY <1>1, Inductive, NextStep, PTL
          DEF Spec, ImplementsOpenFiles, Abstract!Spec

(***************************************************************************)
(* Once every table is taken, no newcomer is given one.  It is the         *)
(* abstract Open that says so: a process that is not known and not         *)
(* admitted stays unknown, and no other call makes a process known.        *)
(***************************************************************************)
THEOREM NewcomersAreShutOut == Spec => NewcomersShutOut
<1>1. ASSUME IInv, [Next]_vars
      PROVE  [\A pid \in Pids :
                ~HasTable(fdtablea, pid) /\ ~HasTable(fdtablea, NoPid)
                  => ~HasTable(fdtablea', pid)]_vars
  <2> SUFFICES ASSUME NEW p \in Pids,
                      ~HasTable(fdtablea, p), ~HasTable(fdtablea, NoPid)
               PROVE  p \notin Known'
    BY DEF Known
  <2>1. p \notin Known /\ ~Abstract!Admitted(p)
    BY <1>1, Admission DEF Known
  <2>2. [Abstract!Next]_(Abstract!vars)
    BY <1>1, NextStep
  <2>3. Known' = {} \/ Known' = Known
        \/ \E q \in Pids : Abstract!Admitted(q) /\ Known' = Known \cup {q}
    BY <2>2 DEF Known, Abstract!Next, Abstract!vars, Abstract!Reset, Abstract!Open,
                Abstract!Seek, Abstract!Close, Abstract!SeekInode,
                Abstract!CloseInode, Abstract!AskInode, Abstract!AskPosition,
                Abstract!AskInUse
  <2>. QED  BY <2>1, <2>3
<1>. QED  BY <1>1, Inductive, PTL DEF Spec, NewcomersShutOut

=============================================================================

------------------------------ MODULE FdTable ------------------------------
(***************************************************************************)
(* fdtable.c as pure operators on the array of descriptor tables.  Each    *)
(* loop of the source that runs over the tables or over the entries of a   *)
(* table and acts on the first match is the least index of the matches.    *)
(* The fd field of an entry is set to its index by fdtable_initialize and  *)
(* never again, so fd and index are the same thing here.                   *)
(***************************************************************************)
EXTENDS Integers, FiniteSets, FiniteSetsExt

CONSTANTS
  Pids,        \* process identifiers
  NUM_TABLES,  \* tables in the array (20 in defines.h)
  TABLE_SIZE   \* entries per table (64)

NoPid   == -1
NoInode == -1

ASSUME FdAssumption ==
  /\ NoPid \notin Pids
  /\ NUM_TABLES \in Nat \ {0}
  /\ TABLE_SIZE \in Nat \ {0}

Tables == 0 .. NUM_TABLES - 1
Slots  == 0 .. TABLE_SIZE - 1

(* struct FdtableEntry, struct Fdtable and struct FdtableArray *)
Entry  == [being_used : {0, 1}, inode_num : Int, offset : Int]
FdTableArray == [Tables -> [pid : Pids \cup {NoPid}, table : [Slots -> Entry]]]

UnusedEntry == [being_used |-> 0, inode_num |-> NoInode, offset |-> -1]

(* fdtable_a_initialize, which calls fdtable_initialize on every table *)
InitialTables ==
  [t \in Tables |-> [pid |-> NoPid, table |-> [s \in Slots |-> UnusedEntry]]]

-----------------------------------------------------------------------------
OwnedBy(a, pid) == {t \in Tables : a[t].pid = pid}
(* Mutant: the search for a process's table passes over one that is full. *)
BugHasTable(a, pid) ==
  \E t \in OwnedBy(a, pid), s \in Slots : a[t].table[s].being_used = 0

HasTable(a, pid) == OwnedBy(a, pid) # {}

(* The table the loops over the array stop at, for a pid that has one. *)
TableOf(a, pid) == a[Min(OwnedBy(a, pid))].table

Unused(table) == {s \in Slots : table[s].being_used = 0}
Holding(table, inodenum) == {s \in Slots : table[s].inode_num = inodenum}

(* The array with table t belonging to pid and holding the given entries. *)
Store(a, t, pid, table) == [a EXCEPT ![t] = [pid |-> pid, table |-> table]]

(* Mutant: with no table left, the last one looked at is taken. *)
BugCreateEntry(a, pid, inodenum) ==
  LET t == Min(OwnedBy(a, pid) \cup OwnedBy(a, NoPid) \cup {NUM_TABLES - 1})
      table == a[t].table
      fd    == Min(Unused(table))
  IN  IF Unused(table) = {} THEN [fd |-> -1, tables |-> a]
      ELSE [fd     |-> fd,
            tables |-> Store(a, t, pid,
                         [table EXCEPT ![fd] = [being_used |-> 1,
                                                inode_num  |-> inodenum,
                                                offset     |-> 0]])]

(***************************************************************************)
(* fdtable_a_createentry: the process's table, or the first free one       *)
(* (fdtable_a_createtable), then the first entry not in use                *)
(* (fdtable_createentry).  A process that has just taken a table keeps it  *)
(* even if no entry could be made.                                         *)
(***************************************************************************)
CreateEntry(a, pid, inodenum) ==
  IF ~HasTable(a, pid) /\ ~HasTable(a, NoPid)
  THEN [fd |-> -1, tables |-> a]
  ELSE LET t     == Min(OwnedBy(a, IF HasTable(a, pid) THEN pid ELSE NoPid))
           table == a[t].table
           fd    == Min(Unused(table))
       IN  IF Unused(table) = {}
           THEN [fd |-> -1, tables |-> Store(a, t, pid, table)]
           ELSE [fd     |-> fd,
                 tables |-> Store(a, t, pid,
                              [table EXCEPT ![fd] = [being_used |-> 1,
                                                     inode_num  |-> inodenum,
                                                     offset     |-> 0]])]

(* The array after the process's table has become the given one. *)
Update(a, pid, table) == Store(a, Min(OwnedBy(a, pid)), pid, table)

(* Mutant: the offset is stored in the wrong field. *)
BugSeekEntry(e, offset) ==
  [being_used |-> offset, inode_num |-> e.inode_num, offset |-> e.offset]

SeekEntry(e, offset) ==
  [being_used |-> e.being_used, inode_num |-> e.inode_num, offset |-> offset]

(***************************************************************************)
(* fdtable_a_seekwithfd: any entry of the table can be moved, in use or    *)
(* not; only an fd outside the table or a process without one fails.       *)
(***************************************************************************)
CanSeek(a, pid, fd) == HasTable(a, pid) /\ fd \in Slots

SeekWithFd(a, pid, fd, offset) ==
  IF ~CanSeek(a, pid, fd) THEN [ret |-> -1, tables |-> a]
  ELSE LET table == TableOf(a, pid) IN
       [ret    |-> 0,
        tables |-> Update(a, pid,
                     [table EXCEPT ![fd] = SeekEntry(table[fd], offset)])]

(* fdtable_a_seekwithinodenum: the first entry with that inode moves. *)
SeekWithInodeNum(a, pid, inodenum, offset) ==
  IF ~HasTable(a, pid) \/ Holding(TableOf(a, pid), inodenum) = {}
  THEN [ret |-> -1, tables |-> a]
  ELSE SeekWithFd(a, pid, Min(Holding(TableOf(a, pid), inodenum)), offset)

(* Mutants: only the flag is cleared; the table is given back with the     *)
(* first descriptor that is closed.                                        *)
BugRemoveAtFdFlag(a, pid, fd) ==
  IF \/ ~CanSeek(a, pid, fd)
     \/ TableOf(a, pid)[fd].being_used # 1
  THEN [ret |-> -1, tables |-> a]
  ELSE [ret    |-> 0,
        tables |-> Update(a, pid, [TableOf(a, pid) EXCEPT ![fd].being_used = 0])]

BugRemoveAtFdTable(a, pid, fd) ==
  IF \/ ~CanSeek(a, pid, fd)
     \/ TableOf(a, pid)[fd].being_used # 1
  THEN [ret |-> -1, tables |-> a]
  ELSE [ret    |-> 0,
        tables |-> Store(a, Min(OwnedBy(a, pid)), NoPid,
                         [TableOf(a, pid) EXCEPT ![fd] = UnusedEntry])]

(* fdtable_a_removeatfd: only an entry in use can be removed. *)
RemoveAtFd(a, pid, fd) ==
  IF \/ ~HasTable(a, pid)
     \/ fd \notin Slots
     \/ TableOf(a, pid)[fd].being_used # 1
  THEN [ret |-> -1, tables |-> a]
  ELSE [ret    |-> 0,
        tables |-> Update(a, pid, [TableOf(a, pid) EXCEPT ![fd] = UnusedEntry])]

(***************************************************************************)
(* fdtable_a_removeatinodenum: the first entry with that inode, in use or  *)
(* not.                                                                    *)
(***************************************************************************)
RemoveAtInodeNum(a, pid, inodenum) ==
  IF ~HasTable(a, pid) \/ Holding(TableOf(a, pid), inodenum) = {}
  THEN [ret |-> -1, tables |-> a]
  ELSE LET fd == Min(Holding(TableOf(a, pid), inodenum)) IN
       [ret    |-> 0,
        tables |-> Update(a, pid, [TableOf(a, pid) EXCEPT ![fd] = UnusedEntry])]

(* fdtable_a_inodeforfd and fdtable_a_positionforfd *)
InodeForFd(a, pid, fd) ==
  IF CanSeek(a, pid, fd) THEN TableOf(a, pid)[fd].inode_num ELSE -1

PositionForFd(a, pid, fd) ==
  IF CanSeek(a, pid, fd) THEN TableOf(a, pid)[fd].offset ELSE -1

(***************************************************************************)
(* fdtable_a_checkforinode: looks through every table, the caller's own    *)
(* and those nobody owns included; its pid argument is not used, although  *)
(* fdtable.h:108 speaks of use by someone else.                            *)
(***************************************************************************)
CheckForInode(a, inodenum) ==
  IF \E t \in Tables : Holding(a[t].table, inodenum) # {} THEN 1 ELSE -1

=============================================================================

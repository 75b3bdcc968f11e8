-------------------------- MODULE DescriptorTables --------------------------
(***************************************************************************)
(* The descriptor tables as a component: one action for each call that     *)
(* ramdisk.c or a test may make on the array fdtablea, and the answer of   *)
(* the call in result; call says which it was, since -1 does not mean the  *)
(* same to everybody.  The offset of an entry not in use is kept, as the   *)
(* code keeps it.                                                          *)
(***************************************************************************)
EXTENDS FdTable

CONSTANTS
  Inodes,   \* inode numbers the RAM disk may open
  Fds,      \* descriptor numbers a process may name, in range or not
  Offsets   \* offsets a process may move to

ASSUME DescriptorAssumption ==
  /\ Inodes \subseteq Nat
  /\ Slots \subseteq Fds
  /\ Fds \subseteq Int
  /\ Offsets \subseteq Int

VARIABLES
  fdtablea,  \* the array of tables
  result,    \* what the last call returned
  call       \* which call that was

vars == <<fdtablea, result, call>>

Calls == {"initialize", "createentry", "seekwithfd", "seekwithinodenum", "removeatfd",
          "removeatinodenum", "inodeforfd", "positionforfd", "checkforinode"}

Init ==
  /\ fdtablea = InitialTables
  /\ result = 0
  /\ call = "initialize"

a_initialize ==
  /\ fdtablea' = InitialTables
  /\ result' = 0

a_createentry(pid, inodenum) ==
  LET made == CreateEntry(fdtablea, pid, inodenum) IN
  /\ fdtablea' = made.tables
  /\ result' = made.fd

Returns(answer) ==
  /\ fdtablea' = answer.tables
  /\ result' = answer.ret

a_seekwithfd(pid, fd, offset) ==
  Returns(SeekWithFd(fdtablea, pid, fd, offset))

a_seekwithinodenum(pid, inodenum, offset) ==
  Returns(SeekWithInodeNum(fdtablea, pid, inodenum, offset))

a_removeatfd(pid, fd) ==
  Returns(RemoveAtFd(fdtablea, pid, fd))

a_removeatinodenum(pid, inodenum) ==
  Returns(RemoveAtInodeNum(fdtablea, pid, inodenum))

a_inodeforfd(pid, fd) ==
  /\ result' = InodeForFd(fdtablea, pid, fd)
  /\ UNCHANGED fdtablea

(* ramdisk.c asks for a position only when the inode was found. *)
a_positionforfd(pid, fd) ==
  /\ InodeForFd(fdtablea, pid, fd) >= 0
  /\ result' = PositionForFd(fdtablea, pid, fd)
  /\ UNCHANGED fdtablea

(***************************************************************************)
(* Mutant: fdtable_a_checkforinode as fdtable.h:108 describes it, 1 if     *)
(* someone else is using the inode and 0 otherwise.                        *)
(***************************************************************************)
DocumentedCheckForInode(pid, inodenum) ==
  /\ result' = IF \E t \in Tables : /\ fdtablea[t].pid # pid
                                    /\ Holding(fdtablea[t].table, inodenum) # {}
               THEN 1
               ELSE 0
  /\ UNCHANGED fdtablea

(* The code counts the tables of pid as well, and answers 1 or -1. *)
a_checkforinode(pid, inodenum) ==
  /\ result' = CheckForInode(fdtablea, inodenum)
  /\ UNCHANGED fdtablea

Next ==
  \/ call' = "initialize" /\ a_initialize
  \/ /\ call' = "createentry"
     /\ \E pid \in Pids, inodenum \in Inodes : a_createentry(pid, inodenum)
  \/ /\ call' = "seekwithfd"
     /\ \E pid \in Pids, fd \in Fds, offset \in Offsets :
          a_seekwithfd(pid, fd, offset)
  \/ /\ call' = "seekwithinodenum"
     /\ \E pid \in Pids, inodenum \in Inodes, offset \in Offsets :
          a_seekwithinodenum(pid, inodenum, offset)
  \/ /\ call' = "removeatfd"
     /\ \E pid \in Pids, fd \in Fds : a_removeatfd(pid, fd)
  \/ /\ call' = "removeatinodenum"
     /\ \E pid \in Pids, inodenum \in Inodes : a_removeatinodenum(pid, inodenum)
  \/ call' = "inodeforfd" /\ \E pid \in Pids, fd \in Fds : a_inodeforfd(pid, fd)
  \/ call' = "positionforfd" /\ \E pid \in Pids, fd \in Fds : a_positionforfd(pid, fd)
  \/ /\ call' = "checkforinode"
     /\ \E pid \in Pids, inodenum \in Inodes : a_checkforinode(pid, inodenum)

Spec == Init /\ [][Next]_vars

-----------------------------------------------------------------------------
TypeOK ==
  /\ fdtablea \in FdTableArray
  /\ result \in Int
  /\ call \in Calls

(***************************************************************************)
(* The flag and the inode number of an entry agree: the searches by inode  *)
(* do not look at the flag, and the search for a free entry does not look  *)
(* at the inode.                                                           *)
(***************************************************************************)
EntriesConsistent ==
  \A t \in Tables, s \in Slots :
    LET e == fdtablea[t].table[s] IN
    IF e.being_used = 1 THEN e.inode_num \in Inodes ELSE e.inode_num = NoInode

(***************************************************************************)
(* No process has two tables: the lookups stop at the first, and whatever  *)
(* the second held would be out of reach of rd_close for ever.             *)
(***************************************************************************)
OneTablePerPid ==
  \A t1, t2 \in Tables :
    fdtablea[t1].pid = fdtablea[t2].pid => t1 = t2 \/ fdtablea[t1].pid = NoPid

(***************************************************************************)
(* fdtable_a_createtable hands a table to a process without clearing it,   *)
(* so a table nobody owns must have no entry in use.                       *)
(***************************************************************************)
UnownedTablesEmpty ==
  \A t \in Tables :
    fdtablea[t].pid = NoPid => Unused(fdtablea[t].table) = Slots

(***************************************************************************)
(* Tables are never given back, by closing every descriptor or otherwise:  *)
(* once NUM_TABLES processes have opened something, a process that comes   *)
(* later is refused until the disk is initialised again.                   *)
(***************************************************************************)
NewcomersShutOut ==
  [][\A pid \in Pids :
       ~HasTable(fdtablea, pid) /\ ~HasTable(fdtablea, NoPid)
         => ~HasTable(fdtablea', pid)]_vars

(***************************************************************************)
(* The tables implement OpenFiles: numbered descriptors per process, with  *)
(* the arrays, flags and searches forgotten.                               *)
(***************************************************************************)
Descriptor(pid, fd) ==
  IF HasTable(fdtablea, pid) /\ TableOf(fdtablea, pid)[fd].being_used = 1
  THEN [inode  |-> TableOf(fdtablea, pid)[fd].inode_num,
        offset |-> TableOf(fdtablea, pid)[fd].offset]
  ELSE [inode |-> -1, offset |-> -1]

Abstract == INSTANCE OpenFiles WITH
  Processes <- Pids,
  Places    <- Slots,
  MaxKnown  <- NUM_TABLES,
  known     <- {pid \in Pids : HasTable(fdtablea, pid)},
  open      <- [pid \in Pids |-> [fd \in Slots |-> Descriptor(pid, fd)]]

ImplementsOpenFiles == Abstract!Spec

=============================================================================

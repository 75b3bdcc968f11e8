--------------------------- MODULE RamdiskFiles ---------------------------
(***************************************************************************)
(* The RAM disk implements FileSystem.  The refinement mapping reads the   *)
(* tree of directories out of their blocks, the files out of their block   *)
(* trees, and the descriptors out of the tables.  What it reads out of the *)
(* disk and the tables is kept in two auxiliary variables, which no action *)
(* of the disk looks at, so that it is read once for each step.            *)
(***************************************************************************)
EXTENDS Ramdisk

(* The entries of a directory, wherever in it they are *)
EntriesOf(rd, d) ==
  LET entries == {EntryAt(rd, <<d, p>>) : p \in 0 .. rd.inodes[d].size - 1}
  IN  [name \in {e.name : e \in entries} |->
         (CHOOSE e \in entries : e.name = name).data]

FileOf(rd, i) ==
  [kind  |-> "file",
   size  |-> rd.inodes[i].size,
   whole |-> ~HasHole(rd, i),
   cells |-> IF HasHole(rd, i) THEN <<>> ELSE Contents(rd, i)]

NodeOf(rd, i) ==
  IF rd.inodes[i].type = DIR THEN [kind |-> "dir", entries |-> EntriesOf(rd, i)]
  ELSE FileOf(rd, i)

(* Inodes that no path leads to, allocated or not, are nothing to a user. *)
Tree(rd, shown) ==
  [i \in Inums |-> IF i \in shown THEN NodeOf(rd, i) ELSE [kind |-> "absent"]]

Shows(rd) == Tree(rd, Reachable(rd))

(* The descriptors of every process *)
Descriptor(a, pid, fd) ==
  IF HasTable(a, pid) /\ TableOf(a, pid)[fd].being_used = 1
  THEN [inode |-> InodeForFd(a, pid, fd), offset |-> PositionForFd(a, pid, fd)]
  ELSE [inode |-> -1, offset |-> -1]

Descriptors(a) == [pid \in Pids |-> [fd \in Slots |-> Descriptor(a, pid, fd)]]

VARIABLES tree, descriptors

filesVars == <<RAMDISK, fdtablea, ret, tree, descriptors>>

FilesInit ==
  /\ Init
  /\ tree = Shows(RAMDISK)
  /\ descriptors = Descriptors(fdtablea)

FilesNext ==
  /\ Next
  /\ IF UNCHANGED <<RAMDISK, fdtablea>> THEN UNCHANGED <<tree, descriptors>>
     ELSE /\ tree' = Shows(RAMDISK')
          /\ descriptors' = Descriptors(fdtablea')

FilesSpec == FilesInit /\ [][FilesNext]_filesVars

Files == INSTANCE FileSystem WITH
  Processes <- Pids,
  Places    <- Slots,
  MaxKnown  <- NUM_TABLES,
  Nodes     <- Inums,
  Values    <- {Bytes(v) : v \in Data},
  Gaps      <- {Fill, Zero},
  nodes     <- tree,
  known     <- {pid \in Pids : HasTable(fdtablea, pid)},
  open      <- descriptors

(***************************************************************************)
(* To the processes that use it the RAM disk is a FileSystem: paths lead   *)
(* to what was made under them and not yet removed, files hold what was    *)
(* written to them and to nothing else, and descriptors stand for the      *)
(* files they were opened on, whatever blocks, tables and entries were     *)
(* taken, moved and given back on the way, and wherever a call failed.     *)
(***************************************************************************)
ImplementsFileSystem == Files!Spec

=============================================================================

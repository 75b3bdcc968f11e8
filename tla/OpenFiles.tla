----------------------------- MODULE OpenFiles -----------------------------
(***************************************************************************)
(* What the descriptor tables promise to the rest of the RAM disk, without *)
(* arrays, flags or searches: every process that ever opened something has *)
(* numbered places, each closed or holding an inode and an offset.  open   *)
(* takes the lowest closed place; at most MaxKnown processes are ever      *)
(* known and none is forgotten.  result is the answer of the last call, and *)
(* call says which of the calls of fdtable.h that was: what an answer      *)
(* promises depends on what was asked.                                     *)
(***************************************************************************)
EXTENDS Integers, FiniteSets, FiniteSetsExt

CONSTANTS
  Processes,  \* processes that may use descriptors
  Places,     \* descriptor numbers of one process
  Inodes,     \* inodes that may be opened
  Fds,        \* descriptor numbers a caller may name, in range or not
  Offsets,    \* offsets a caller may move to
  MaxKnown    \* how many processes can ever be known

Closed == [inode |-> -1, offset |-> -1]
Opened(inode, offset) == [inode |-> inode, offset |-> offset]

VARIABLES
  known,  \* the processes that have opened something since the last reset
  open,   \* open[p][fd]: what descriptor fd of process p stands for
  result,
  call

vars == <<known, open, result, call>>

IsOpen(p, fd) == fd \in Places /\ open[p][fd] # Closed
AllClosed == [p \in Processes |-> [fd \in Places |-> Closed]]
Vacant(p) == {fd \in Places : open[p][fd] = Closed}

Init ==
  /\ known = {}
  /\ open = AllClosed
  /\ result = 0
  /\ call = "initialize"

Reset ==
  /\ known' = {}
  /\ open' = AllClosed
  /\ result' = 0

Admitted(p) == p \in known \/ Cardinality(known) < MaxKnown

Open(p, inode) ==
  \/ /\ Admitted(p) /\ Vacant(p) # {}
     /\ known' = known \cup {p}
     /\ open' = [open EXCEPT ![p][Min(Vacant(p))] = Opened(inode, 0)]
     /\ result' = Min(Vacant(p))
  \/ /\ ~Admitted(p) \/ Vacant(p) = {}
     /\ result' = -1
     /\ UNCHANGED <<known, open>>

(* Moving a closed descriptor has no effect, and is not reported either. *)
Seek(p, fd, offset) ==
  /\ open' = IF IsOpen(p, fd)
             THEN [open EXCEPT ![p][fd] = Opened(open[p][fd].inode, offset)]
             ELSE open
  /\ result' = IF p \in known /\ fd \in Places THEN 0 ELSE -1
  /\ UNCHANGED known

Close(p, fd) ==
  /\ open' = IF IsOpen(p, fd) THEN [open EXCEPT ![p][fd] = Closed] ELSE open
  /\ result' = IF IsOpen(p, fd) THEN 0 ELSE -1
  /\ UNCHANGED known

WithInode(p, inode) == {fd \in Places : open[p][fd].inode = inode}

(* By inode: the lowest descriptor of the process that stands for it. *)
SeekInode(p, inode, offset) ==
  \/ WithInode(p, inode) # {} /\ Seek(p, Min(WithInode(p, inode)), offset)
  \/ WithInode(p, inode) = {} /\ result' = -1 /\ UNCHANGED <<known, open>>

CloseInode(p, inode) ==
  \/ WithInode(p, inode) # {} /\ Close(p, Min(WithInode(p, inode)))
  \/ WithInode(p, inode) = {} /\ result' = -1 /\ UNCHANGED <<known, open>>

(* Queries.  A position is only asked for after the inode was found. *)
AskInode(p, fd) ==
  /\ result' = IF IsOpen(p, fd) THEN open[p][fd].inode ELSE -1
  /\ UNCHANGED <<known, open>>

AskPosition(p, fd) ==
  /\ IsOpen(p, fd)
  /\ result' = open[p][fd].offset
  /\ UNCHANGED <<known, open>>

(***************************************************************************)
(* Whether an inode is open, on behalf of process p.  fdtable.h:108        *)
(* promises "return 1 if soomeone else is using it, 0 otherwise"; the      *)
(* tables do not keep that promise.  They answer 1 also when p itself, and *)
(* nobody else, has the inode open, and -1 when nobody has: what is stated *)
(* here is what rd_unlink is told.                                         *)
(***************************************************************************)
AskInUse(p, inode) ==
  /\ result' = IF \E q \in Processes : WithInode(q, inode) # {} THEN 1 ELSE -1
  /\ UNCHANGED <<known, open>>

Next ==
  \/ call' = "initialize" /\ Reset
  \/ call' = "createentry" /\ \E p \in Processes, inode \in Inodes : Open(p, inode)
  \/ /\ call' = "seekwithfd"
     /\ \E p \in Processes, fd \in Fds, offset \in Offsets : Seek(p, fd, offset)
  \/ /\ call' = "seekwithinodenum"
     /\ \E p \in Processes, inode \in Inodes, offset \in Offsets :
          SeekInode(p, inode, offset)
  \/ call' = "removeatfd" /\ \E p \in Processes, fd \in Fds : Close(p, fd)
  \/ /\ call' = "removeatinodenum"
     /\ \E p \in Processes, inode \in Inodes : CloseInode(p, inode)
  \/ call' = "inodeforfd" /\ \E p \in Processes, fd \in Fds : AskInode(p, fd)
  \/ call' = "positionforfd" /\ \E p \in Processes, fd \in Fds : AskPosition(p, fd)
  \/ /\ call' = "checkforinode"
     /\ \E p \in Processes, inode \in Inodes : AskInUse(p, inode)

Spec == Init /\ [][Next]_vars

=============================================================================

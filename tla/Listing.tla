------------------------------ MODULE Listing ------------------------------
(***************************************************************************)
(* Reading a directory while others change it.  A listing is a descriptor  *)
(* on a directory and one rd_readdir after another; between them any       *)
(* process may make and remove entries.  rd_readdir goes by positions, and *)
(* rd_unlink moves the last entry into the gap it makes.  Two history      *)
(* variables follow each descriptor by entries instead, and say what its   *)
(* reader was shown and what it was made to miss.                          *)
(***************************************************************************)
EXTENDS RamdiskFiles

VARIABLES
  shown,   \* shown[pid][fd]: entries shown to the reader and still there
  missed   \* missed[pid][fd]: those that got behind it without being shown

listingVars == <<RAMDISK, fdtablea, ret, tree, descriptors, shown, missed>>

EntriesIn(t, d) ==
  IF d \in Inums /\ t[d].kind = "dir" THEN Range(t[d].entries) ELSE {}

(* The entry at a position of a directory, as a set; none beyond the end *)
Here(d, pos) ==
  IF pos \in 0 .. RAMDISK.inodes[d].size - 1 THEN {EntryAt(RAMDISK, <<d, pos>>).data}
  ELSE {}

LastOf(d) == Here(d, RAMDISK.inodes[d].size - 1)

Behind(d, pos) == UNION {Here(d, p) : p \in 0 .. Lesser(pos, RAMDISK.inodes[d].size) - 1}

-----------------------------------------------------------------------------
(* What happens to a reader r in a step, and to its directory             *)
NoReader == [inode |-> -1, offset |-> -1]

(* The descriptor is the same one, on the same directory. *)
Goes(r, s) == r.inode = s.inode /\ r # NoReader

(* An rd_readdir through it showed the entry it stood at. *)
ShownTo(r, s) ==
  IF Goes(r, s) /\ ret' = 1 /\ s.offset = r.offset + 1 THEN Here(r.inode, r.offset) ELSE {}

GoneFrom(r) == EntriesIn(tree, r.inode) \ EntriesIn(tree', r.inode)
NewIn(r)    == EntriesIn(tree', r.inode) \ EntriesIn(tree, r.inode)

ShownAfter(r, s, seen) ==
  IF Goes(r, s) THEN (seen \cup ShownTo(r, s)) \cap EntriesIn(tree', r.inode) ELSE {}

(***************************************************************************)
(* A reader is made to miss an entry in two ways: the last entry moves     *)
(* into the gap of one that it had passed, or an entry is added while it   *)
(* stands beyond the end.                                                  *)
(***************************************************************************)
MissedAfter(r, s, seen, lost) ==
  LET moved == IF GoneFrom(r) \cap (seen \cup lost) # {} THEN LastOf(r.inode) ELSE {}
      added == IF r.offset > RAMDISK.inodes[r.inode].size THEN NewIn(r) ELSE {}
  IN  IF Goes(r, s)
      THEN ((lost \cup moved \cup added) \cap EntriesIn(tree', r.inode)) \ seen
      ELSE {}

Nothing == [pid \in Pids |-> [fd \in Slots |-> {}]]

ListingInit == FilesInit /\ shown = Nothing /\ missed = Nothing

(* No rd_seek: a reader that is moved at will starts a listing of its own. *)
Watch ==
  /\ shown' = [pid \in Pids |-> [fd \in Slots |->
                 ShownAfter(descriptors[pid][fd], descriptors'[pid][fd],
                            shown[pid][fd])]]
  /\ missed' = [pid \in Pids |-> [fd \in Slots |->
                  MissedAfter(descriptors[pid][fd], descriptors'[pid][fd],
                              shown[pid][fd], missed[pid][fd])]]

ListingNext ==
  /\ FilesNext
  /\ IF UNCHANGED <<RAMDISK, fdtablea>> THEN UNCHANGED <<shown, missed>> ELSE Watch

ListingSpec == ListingInit /\ [][ListingNext]_listingVars

-----------------------------------------------------------------------------
(***************************************************************************)
(* A reader has been shown every entry that is behind it now, but for      *)
(* those it was made to miss by an rd_unlink of an entry behind it or by   *)
(* standing beyond the end; so a listing nothing is removed under shows    *)
(* every entry that was there when it began.                               *)
(***************************************************************************)
PassedEntriesShown ==
  \A pid \in Pids, fd \in Slots :
    LET r == descriptors[pid][fd] IN
    EntriesIn(tree, r.inode) # {} =>
      Behind(r.inode, r.offset) = shown[pid][fd] \cup missed[pid][fd]

(***************************************************************************)
(* No listing shows an entry twice, and before the end of the directory    *)
(* none shows a free entry (which would lead to the root), whatever was    *)
(* removed, moved and added since it began.  A reader that removals have   *)
(* left beyond the end is shown cleared entries, and no more of them than  *)
(* the block with the end has: never one that was removed, and never one   *)
(* that is still there.                                                    *)
(***************************************************************************)
ShowsNewEntries ==
  [][\A pid \in Pids, fd \in Slots :
       LET r   == descriptors[pid][fd]
           s   == descriptors'[pid][fd]
           end == RAMDISK.inodes[r.inode].size
       IN  Goes(r, s) /\ s.offset > r.offset /\ tree[r.inode].kind = "dir" =>
             \/ \E e \in EntriesIn(tree, r.inode) \ shown[pid][fd] :
                  ShownTo(r, s) = {e} /\ e # Root
             \/ /\ r.offset > end
                /\ r.offset \div BLOCK_CELLS = end \div BLOCK_CELLS
                /\ Cell(RAMDISK, r.inode, r.offset) = Zero]_descriptors

=============================================================================

----------------------------- MODULE InodeLemmas -----------------------------
(***************************************************************************)
(* What the operators of Inode do to a disk, for every size of disk and    *)
(* every shape of block tree: a disk on which no block has two places and  *)
(* the counter of free blocks is exact stays one, and the trees of all but *)
(* one inode stay as they are.                                             *)
(***************************************************************************)
EXTENDS Inode, BlockPoolLemmas, FiniteSetTheorems, SequenceTheorems

Nodes ==
  [type     : {UNALLOCATED, FILE, DIR},
   size     : Nat,
   direct   : [Directs -> Ptr],
   indirect : Ptr,
   double   : Ptr]

Disks ==
  [pool        : Pool,
   free_inodes : Int,
   inodes      : [Inums -> Nodes],
   data        : [Blocks -> [Offs -> Cells]],
   ptrs        : [Blocks -> [Places -> Ptr]]]

(***************************************************************************)
(* The places a block pointer can be at: in an inode, or in a block that   *)
(* serves as a pointer table.  Blocks that are not tables count, too:      *)
(* their pointers are null, or were left there when the table was lost.    *)
(***************************************************************************)
IsPlace(kind, a, k) ==
  \/ kind = "direct" /\ a \in Inums /\ k \in Directs
  \/ kind = "indirect" /\ a \in Inums /\ k = 0
  \/ kind = "double" /\ a \in Inums /\ k = 0
  \/ kind = "table" /\ a \in Blocks /\ k \in Places

NodePtr(node, kind, k) ==
  IF kind = "direct"        THEN node.direct[k]
  ELSE IF kind = "indirect" THEN node.indirect
  ELSE node.double

PtrAt(rd, kind, a, k) ==
  IF kind = "table" THEN rd.ptrs[a][k] ELSE NodePtr(rd.inodes[a], kind, k)

(* No block is at two places. *)
OnePlace(rd) ==
  \A x, y, a, b, k, l :
    /\ IsPlace(x, a, k) /\ IsPlace(y, b, l)
    /\ PtrAt(rd, x, a, k) = PtrAt(rd, y, b, l)
    /\ PtrAt(rd, x, a, k) # NULL
    => x = y /\ a = b /\ k = l

(* What is at a place is marked in the bitmap. *)
PlacedAllocated(rd) ==
  \A x, a, k : IsPlace(x, a, k) => PtrAt(rd, x, a, k) \in Allocated(rd) \cup {NULL}

PoolExact(rd) ==
  /\ Overhead \subseteq rd.pool.used
  /\ rd.pool.free_blocks = FS_BLOCKS - Cardinality(Allocated(rd))

Sound(rd) == rd \in Disks /\ OnePlace(rd) /\ PlacedAllocated(rd) /\ PoolExact(rd)

(* A block that is taken and not yet at any place. *)
Spare(rd, b) ==
  b \in Allocated(rd) /\ \A x, a, k : IsPlace(x, a, k) => PtrAt(rd, x, a, k) # b

-----------------------------------------------------------------------------
(* The tree of an inode *)
Under(rd, t, b) == t # NULL /\ \E p \in Places : rd.ptrs[t][p] = b

InTree(rd, i, b) ==
  /\ b # NULL
  /\ \/ \E k \in Directs : rd.inodes[i].direct[k] = b
     \/ rd.inodes[i].indirect = b
     \/ rd.inodes[i].double = b
     \/ Under(rd, rd.inodes[i].indirect, b)
     \/ Under(rd, rd.inodes[i].double, b)
     \/ \E t \in Blocks : Under(rd, rd.inodes[i].double, t) /\ Under(rd, t, b)

(* Inode i and the blocks of its tree are the same on two disks. *)
Kept(rd, e, i) ==
  /\ e.inodes[i] = rd.inodes[i]
  /\ \A b \in Blocks : InTree(rd, i, b) => e.data[b] = rd.data[b] /\ e.ptrs[b] = rd.ptrs[b]

OthersKept(rd, e, i) == \A j \in Inums \ {i} : Kept(rd, e, j)

LEMMA DiskTypes ==
  ASSUME NEW rd \in Disks
  PROVE  /\ rd.pool \in Pool /\ rd.free_inodes \in Int
         /\ \A i \in Inums : rd.inodes[i] \in Nodes
         /\ \A i \in Inums : /\ rd.inodes[i].type \in {UNALLOCATED, FILE, DIR}
                             /\ rd.inodes[i].size \in Nat
                             /\ rd.inodes[i].direct \in [Directs -> Ptr]
                             /\ rd.inodes[i].indirect \in Ptr
                             /\ rd.inodes[i].double \in Ptr
         /\ \A b \in Blocks : /\ rd.data[b] \in [Offs -> Cells]
                              /\ rd.ptrs[b] \in [Places -> Ptr]
BY DEF Disks, Nodes

LEMMA PlaceTypes ==
  ASSUME NEW rd \in Disks, NEW x, NEW a, NEW k, IsPlace(x, a, k)
  PROVE  PtrAt(rd, x, a, k) \in Ptr
BY DEF Disks, Nodes, IsPlace, PtrAt, NodePtr

LEMMA AllocatedFinite ==
  ASSUME NEW rd
  PROVE  /\ Allocated(rd) \subseteq Blocks
         /\ IsFiniteSet(Allocated(rd)) /\ Cardinality(Allocated(rd)) \in Nat
         /\ NULL \notin Allocated(rd)
<1>1. IsFiniteSet(Blocks)
  BY PoolAssumption, FS_Interval DEF Blocks, FS_BLOCKS
<1>2. Allocated(rd) \subseteq Blocks /\ NULL \notin Blocks
  BY DEF Allocated, Blocks, NULL
<1>. QED  BY <1>1, <1>2, FS_Subset, FS_CardinalityType

(* The trees of two inodes have no block in common. *)
LEMMA TreesDisjoint ==
  ASSUME NEW rd \in Disks, OnePlace(rd),
         NEW i \in Inums, NEW j \in Inums, i # j,
         NEW b, InTree(rd, i, b)
  PROVE  ~ InTree(rd, j, b)
<1> DEFINE Owns(m, x, a, k) ==
             \/ x \in {"direct", "indirect", "double"} /\ a = m
             \/ x = "table" /\ a = rd.inodes[m].indirect
             \/ x = "table" /\ a = rd.inodes[m].double
             \/ x = "table" /\ Under(rd, rd.inodes[m].double, a)
<1>1. ASSUME NEW m \in Inums, InTree(rd, m, b)
      PROVE  \E x, a, k : IsPlace(x, a, k) /\ PtrAt(rd, x, a, k) = b /\ Owns(m, x, a, k)
  <2>1. CASE \E k \in Directs : rd.inodes[m].direct[k] = b
    BY <2>1 DEF IsPlace, PtrAt, NodePtr
  <2>2. CASE rd.inodes[m].indirect = b
    BY <2>2 DEF IsPlace, PtrAt, NodePtr
  <2>3. CASE rd.inodes[m].double = b
    BY <2>3 DEF IsPlace, PtrAt, NodePtr
  <2>4. CASE Under(rd, rd.inodes[m].indirect, b)
    BY <2>4, DiskTypes DEF IsPlace, PtrAt, NodePtr, Under, Ptr
  <2>5. CASE Under(rd, rd.inodes[m].double, b)
    BY <2>5, DiskTypes DEF IsPlace, PtrAt, NodePtr, Under, Ptr
  <2>6. CASE \E t \in Blocks : Under(rd, rd.inodes[m].double, t) /\ Under(rd, t, b)
    BY <2>6 DEF IsPlace, PtrAt, NodePtr, Under
  <2>. QED  BY <1>1, <2>1, <2>2, <2>3, <2>4, <2>5, <2>6 DEF InTree
<1>2. b # NULL
  BY DEF InTree
<1> SUFFICES ASSUME InTree(rd, j, b) PROVE FALSE
  OBVIOUS
<1>3. PICK x, a, k : IsPlace(x, a, k) /\ PtrAt(rd, x, a, k) = b /\ Owns(i, x, a, k)
  BY <1>1
<1>4. PICK y, c, l : IsPlace(y, c, l) /\ PtrAt(rd, y, c, l) = b /\ Owns(j, y, c, l)
  BY <1>1
<1>5. x = y /\ a = c /\ k = l
  BY <1>2, <1>3, <1>4 DEF OnePlace
<1>6. x = "table" /\ a \in Blocks
  BY <1>3, <1>4, <1>5 DEF IsPlace
<1>7. ASSUME NEW m \in Inums
      PROVE  /\ IsPlace("indirect", m, 0) /\ PtrAt(rd, "indirect", m, 0) = rd.inodes[m].indirect
             /\ IsPlace("double", m, 0) /\ PtrAt(rd, "double", m, 0) = rd.inodes[m].double
  BY DEF IsPlace, PtrAt, NodePtr
<1>8. ASSUME NEW m \in Inums, NEW t \in Blocks, Under(rd, rd.inodes[m].double, t)
      PROVE  \E p \in Places : /\ IsPlace("table", rd.inodes[m].double, p)
                               /\ PtrAt(rd, "table", rd.inodes[m].double, p) = t
  BY <1>8, DiskTypes DEF IsPlace, PtrAt, NodePtr, Under, Ptr
<1>9. a # NULL
  BY <1>6, AllocatedFinite DEF Blocks, NULL
<1>10. ~ (a = rd.inodes[i].indirect \/ a = rd.inodes[i].double) \/ ~ Under(rd, rd.inodes[j].double, a)
  BY <1>6, <1>7, <1>8, <1>9 DEF OnePlace
<1>11. ~ (a = rd.inodes[j].indirect \/ a = rd.inodes[j].double) \/ ~ Under(rd, rd.inodes[i].double, a)
  BY <1>6, <1>7, <1>8, <1>9 DEF OnePlace
<1>12. ~ (Under(rd, rd.inodes[i].double, a) /\ Under(rd, rd.inodes[j].double, a))
  <2> SUFFICES ASSUME Under(rd, rd.inodes[i].double, a), Under(rd, rd.inodes[j].double, a)
               PROVE  FALSE
    OBVIOUS
  <2>1. rd.inodes[i].double = rd.inodes[j].double /\ rd.inodes[i].double # NULL
    BY <1>6, <1>8, <1>9 DEF OnePlace, Under
  <2>. QED  BY <2>1, <1>7 DEF OnePlace
<1>13. ~ (/\ a \in {rd.inodes[i].indirect, rd.inodes[i].double}
          /\ a \in {rd.inodes[j].indirect, rd.inodes[j].double})
  BY <1>7, <1>9 DEF OnePlace
<1>. QED  BY <1>3, <1>4, <1>5, <1>6, <1>10, <1>11, <1>12, <1>13

(***************************************************************************)
(* Two disks with the same inode i and the same blocks in its tree have    *)
(* the same tree there, and so being kept is transitive.                   *)
(***************************************************************************)
LEMMA KeptTree ==
  ASSUME NEW rd \in Disks, NEW e \in Disks, NEW i \in Inums, Kept(rd, e, i), NEW b
  PROVE  InTree(e, i, b) <=> InTree(rd, i, b)
<1>1. /\ e.inodes[i] = rd.inodes[i]
      /\ rd.inodes[i].indirect \in Blocks \cup {NULL}
      /\ rd.inodes[i].double \in Blocks \cup {NULL}
  BY DiskTypes DEF Kept, Ptr
<1>2. rd.inodes[i].indirect # NULL => e.ptrs[rd.inodes[i].indirect] = rd.ptrs[rd.inodes[i].indirect]
  BY <1>1 DEF Kept, InTree
<1>3. rd.inodes[i].double # NULL => e.ptrs[rd.inodes[i].double] = rd.ptrs[rd.inodes[i].double]
  BY <1>1 DEF Kept, InTree
<1>4. \A t \in Blocks : Under(rd, rd.inodes[i].double, t) => e.ptrs[t] = rd.ptrs[t]
  BY <1>1, AllocatedFinite DEF Kept, InTree, Blocks, NULL
<1>5. \A c : Under(e, rd.inodes[i].indirect, c) <=> Under(rd, rd.inodes[i].indirect, c)
  BY <1>2 DEF Under
<1>6. \A c : Under(e, rd.inodes[i].double, c) <=> Under(rd, rd.inodes[i].double, c)
  BY <1>3 DEF Under
<1>7. \A t \in Blocks : Under(rd, rd.inodes[i].double, t) =>
        \A c : Under(e, t, c) <=> Under(rd, t, c)
  BY <1>4 DEF Under
<1>. QED  BY <1>1, <1>5, <1>6, <1>7 DEF InTree

LEMMA KeptTransitive ==
  ASSUME NEW rd \in Disks, NEW e \in Disks, NEW f \in Disks, NEW i \in Inums,
         Kept(rd, e, i), Kept(e, f, i)
  PROVE  Kept(rd, f, i)
BY KeptTree DEF Kept

(* What is in a tree is a block, and marked. *)
LEMMA TreeAllocated ==
  ASSUME NEW rd \in Disks, PlacedAllocated(rd), NEW i \in Inums, NEW b, InTree(rd, i, b)
  PROVE  b \in Allocated(rd)
<1>1. b # NULL
  BY DEF InTree
<1>2. CASE \E k \in Directs : rd.inodes[i].direct[k] = b
  BY <1>1, <1>2 DEF PlacedAllocated, IsPlace, PtrAt, NodePtr
<1>3. CASE rd.inodes[i].indirect = b
  BY <1>1, <1>3 DEF PlacedAllocated, IsPlace, PtrAt, NodePtr
<1>4. CASE rd.inodes[i].double = b
  BY <1>1, <1>4 DEF PlacedAllocated, IsPlace, PtrAt, NodePtr
<1>5. ASSUME NEW t \in Ptr, Under(rd, t, b) PROVE b \in Allocated(rd)
  BY <1>1, <1>5 DEF PlacedAllocated, IsPlace, PtrAt, NodePtr, Under, Ptr
<1>6. Blocks \subseteq Ptr
  BY DEF Ptr
<1>. QED  BY <1>2, <1>3, <1>4, <1>5, <1>6, DiskTypes DEF InTree

(* A spare block is in no tree. *)
LEMMA SpareNotInTree ==
  ASSUME NEW rd \in Disks, NEW b, Spare(rd, b), NEW i \in Inums
  PROVE  ~ InTree(rd, i, b)
<1>1. ASSUME NEW t \in Ptr PROVE ~ Under(rd, t, b)
  BY DEF Spare, IsPlace, PtrAt, NodePtr, Under, Ptr
<1>2. Blocks \subseteq Ptr
  BY DEF Ptr
<1>3. \A k \in Directs : rd.inodes[i].direct[k] # b
  BY DEF Spare, IsPlace, PtrAt, NodePtr
<1>4. rd.inodes[i].indirect # b /\ rd.inodes[i].double # b
  BY DEF Spare, IsPlace, PtrAt, NodePtr
<1>. QED  BY <1>1, <1>2, <1>3, <1>4, DiskTypes DEF InTree

-----------------------------------------------------------------------------
(***************************************************************************)
(* A step of the growth of inode i: the disk stays sound, nothing that was *)
(* marked is given up or overwritten, and what belongs to others is kept.  *)
(***************************************************************************)
Grows(rd, e, i) ==
  /\ Sound(e)
  /\ OthersKept(rd, e, i)
  /\ e.free_inodes = rd.free_inodes
  /\ e.inodes[i].type = rd.inodes[i].type /\ e.inodes[i].size = rd.inodes[i].size
  /\ Allocated(rd) \subseteq Allocated(e)
  /\ \A b \in Allocated(rd) : e.data[b] = rd.data[b]

LEMMA GrowsTransitive ==
  ASSUME NEW rd, NEW e, NEW f, Sound(rd), NEW i \in Inums, Grows(rd, e, i), Grows(e, f, i)
  PROVE  Grows(rd, f, i)
<1>1. rd \in Disks /\ e \in Disks /\ f \in Disks
  BY DEF Grows, Sound
<1>2. OthersKept(rd, f, i)
  BY <1>1, KeptTransitive DEF Grows, OthersKept
<1>. QED  BY <1>2 DEF Grows

LEMMA GrowsReflexive ==
  ASSUME NEW rd, Sound(rd), NEW i \in Inums
  PROVE  Grows(rd, rd, i)
BY DEF Grows, OthersKept, Kept

(***************************************************************************)
(* Putting a spare block at a place, of inode i or of a table of inode i.  *)
(***************************************************************************)
Put(rd, e, kind, a, k, b) ==
  /\ e \in Disks
  /\ e.pool = rd.pool /\ e.free_inodes = rd.free_inodes /\ e.data = rd.data
  /\ \A i \in Inums : e.inodes[i].type = rd.inodes[i].type /\ e.inodes[i].size = rd.inodes[i].size
  /\ \A x, c, l : IsPlace(x, c, l) =>
       PtrAt(e, x, c, l) = IF x = kind /\ c = a /\ l = k THEN b ELSE PtrAt(rd, x, c, l)

LEMMA PutSound ==
  ASSUME NEW rd, NEW e, Sound(rd), NEW b, Spare(rd, b),
         NEW x, NEW a, NEW k, IsPlace(x, a, k), Put(rd, e, x, a, k, b)
  PROVE  /\ Sound(e)
         /\ Allocated(e) = Allocated(rd)
         /\ \A c : Spare(rd, c) /\ c # b => Spare(e, c)
<1>1. Allocated(e) = Allocated(rd)
  BY DEF Put, Allocated
<1>2. OnePlace(e)
  BY DEF Put, Sound, OnePlace, Spare
<1>3. PlacedAllocated(e)
  BY <1>1 DEF Put, Sound, PlacedAllocated, Spare
<1>4. PoolExact(e)
  BY <1>1 DEF Put, Sound, PoolExact
<1>. QED  BY <1>1, <1>2, <1>3, <1>4 DEF Put, Sound, Spare

(***************************************************************************)
(* A disk on which inode i is replaced, or the pointers of block t.        *)
(***************************************************************************)
LEMMA InodeReplaced ==
  ASSUME NEW rd \in Disks, NEW i \in Inums, NEW node \in Nodes
  PROVE  LET e == [rd EXCEPT !.inodes[i] = node] IN
         /\ e \in Disks
         /\ e.pool = rd.pool /\ e.free_inodes = rd.free_inodes
         /\ e.data = rd.data /\ e.ptrs = rd.ptrs
         /\ e.inodes = [rd.inodes EXCEPT ![i] = node]
         /\ e.inodes[i] = node /\ \A j \in Inums \ {i} : e.inodes[j] = rd.inodes[j]
<1> DEFINE e == [rd EXCEPT !.inodes[i] = node]
           ns == [rd.inodes EXCEPT ![i] = node]
<1>1. ns \in [Inums -> Nodes] /\ ns[i] = node /\ \A j \in Inums \ {i} : ns[j] = rd.inodes[j]
  BY DEF Disks
<1>2. e = [rd EXCEPT !.inodes = ns]
  OBVIOUS
<1> HIDE DEF ns
<1>3. /\ e \in Disks
      /\ e.pool = rd.pool /\ e.free_inodes = rd.free_inodes
      /\ e.data = rd.data /\ e.ptrs = rd.ptrs /\ e.inodes = ns
  BY <1>1, <1>2 DEF Disks
<1>. QED  BY <1>1, <1>3 DEF ns

LEMMA PtrReplaced ==
  ASSUME NEW rd \in Disks, NEW t \in Blocks, NEW p \in Places, NEW b \in Ptr
  PROVE  LET e == [rd EXCEPT !.ptrs[t][p] = b] IN
         /\ e \in Disks
         /\ e.pool = rd.pool /\ e.free_inodes = rd.free_inodes
         /\ e.data = rd.data /\ e.inodes = rd.inodes
         /\ e.ptrs = [rd.ptrs EXCEPT ![t][p] = b]
         /\ \A c \in Blocks, q \in Places :
              e.ptrs[c][q] = IF c = t /\ q = p THEN b ELSE rd.ptrs[c][q]
         /\ \A c \in Blocks \ {t} : e.ptrs[c] = rd.ptrs[c]
<1> DEFINE e == [rd EXCEPT !.ptrs[t][p] = b]
           ps == [rd.ptrs EXCEPT ![t][p] = b]
<1>1. /\ ps \in [Blocks -> [Places -> Ptr]]
      /\ \A c \in Blocks, q \in Places :
              ps[c][q] = IF c = t /\ q = p THEN b ELSE rd.ptrs[c][q]
      /\ \A c \in Blocks \ {t} : ps[c] = rd.ptrs[c]
  BY DEF Disks
<1>2. e = [rd EXCEPT !.ptrs = ps]
  OBVIOUS
<1> HIDE DEF ps
<1>3. /\ e \in Disks
      /\ e.pool = rd.pool /\ e.free_inodes = rd.free_inodes
      /\ e.data = rd.data /\ e.inodes = rd.inodes /\ e.ptrs = ps
  BY <1>1, <1>2 DEF Disks
<1>. QED  BY <1>1, <1>3 DEF ps

(***************************************************************************)
(* Inode i gets a spare block for one of its pointers.                     *)
(***************************************************************************)
LEMMA PutInode ==
  ASSUME NEW rd, Sound(rd), NEW i \in Inums, NEW b, Spare(rd, b), NEW node \in Nodes,
         NEW x, NEW k, IsPlace(x, i, k), x # "table",
         node.type = rd.inodes[i].type, node.size = rd.inodes[i].size,
         \A y, l : IsPlace(y, i, l) /\ y # "table" =>
           NodePtr(node, y, l) = IF y = x /\ l = k THEN b ELSE NodePtr(rd.inodes[i], y, l)
  PROVE  LET e == [rd EXCEPT !.inodes[i] = node] IN
         /\ Grows(rd, e, i) /\ Allocated(e) = Allocated(rd)
         /\ \A c : Spare(rd, c) /\ c # b => Spare(e, c)
         /\ e.inodes[i] = node /\ e.ptrs = rd.ptrs /\ e.data = rd.data
<1> DEFINE e == [rd EXCEPT !.inodes[i] = node]
<1>1. rd \in Disks /\ b \in Blocks /\ b \in Ptr
  BY AllocatedFinite DEF Sound, Spare, Ptr
<1>2. /\ e \in Disks
      /\ e.pool = rd.pool /\ e.free_inodes = rd.free_inodes
      /\ e.data = rd.data /\ e.ptrs = rd.ptrs
      /\ e.inodes[i] = node /\ \A j \in Inums \ {i} : e.inodes[j] = rd.inodes[j]
  BY <1>1, InodeReplaced
<1> HIDE DEF e
<1>3. Put(rd, e, x, i, k, b)
  <2>1. ASSUME NEW y, NEW c, NEW l, IsPlace(y, c, l)
        PROVE  PtrAt(e, y, c, l) = IF y = x /\ c = i /\ l = k THEN b ELSE PtrAt(rd, y, c, l)
    <3>1. CASE y = "table"
      BY <1>2, <3>1 DEF PtrAt
    <3>2. CASE y # "table" /\ c = i
      BY <1>2, <2>1, <3>2 DEF PtrAt
    <3>3. CASE y # "table" /\ c # i
      BY <1>2, <2>1, <3>3 DEF PtrAt, IsPlace
    <3>. QED  BY <3>1, <3>2, <3>3
  <2>. QED  BY <1>2, <2>1 DEF Put
<1>4. OthersKept(rd, e, i)
  BY <1>2 DEF OthersKept, Kept
<1>. QED  BY <1>2, <1>3, <1>4, PutSound, SMTT(20), ZenonT(40) DEF Grows, e

(***************************************************************************)
(* add_block_to_indirect_storage, for a spare block and a table of the     *)
(* tree of inode i: the block goes to the first free place, or the table   *)
(* is full and nothing changes.                                            *)
(***************************************************************************)
Added(rd, i, table, b, added) ==
  LET e == added.rd
      p == added.place
  IN
  /\ Grows(rd, e, i) /\ Allocated(e) = Allocated(rd)
  /\ e.inodes = rd.inodes /\ e.data = rd.data
  /\ \A c : Spare(rd, c) /\ c # b => Spare(e, c)
  /\ \/ /\ p = BLOCK_PTRS /\ e = rd
        /\ \A q \in Places : rd.ptrs[table][q] # NULL
     \/ /\ p \in Places /\ rd.ptrs[table][p] = NULL
        /\ \A q \in Places : q < p => rd.ptrs[table][q] # NULL
        /\ e.ptrs = [rd.ptrs EXCEPT ![table][p] = b]

LEMMA AddToTableResult ==
  ASSUME NEW rd, Sound(rd), NEW i \in Inums, NEW table, InTree(rd, i, table),
         NEW b, Spare(rd, b)
  PROVE  Added(rd, i, table, b, AddToTable(rd, table, b))
<1> DEFINE free == {q \in Places : rd.ptrs[table][q] = NULL}
<1>1. rd \in Disks /\ b \in Blocks /\ b \in Ptr
  BY AllocatedFinite DEF Sound, Spare, Ptr
<1>2. table \in Blocks /\ table # NULL
  BY <1>1, TreeAllocated, AllocatedFinite DEF Sound
<1>3. CASE free = {}
  <2>1. AddToTable(rd, table, b) = [place |-> BLOCK_PTRS, rd |-> rd]
    BY <1>2, <1>3 DEF AddToTable
  <2>. QED  BY <1>3, <2>1, GrowsReflexive DEF Added
<1>4. CASE free # {}
  <2> DEFINE p == Min(free)
             e == [rd EXCEPT !.ptrs[table][p] = b]
  <2>1. AddToTable(rd, table, b) = [place |-> p, rd |-> e]
    BY <1>2, <1>4 DEF AddToTable
  <2>2. p \in free /\ \A q \in free : p <= q
    BY <1>4, InodeAssumption, MinIsLeast DEF Places
  <2>3. p \in Places /\ rd.ptrs[table][p] = NULL
    BY <2>2
  <2>4. \A q \in Places : q < p => rd.ptrs[table][q] # NULL
    BY <2>2 DEF Places
  <2> HIDE DEF p
  <2>5. /\ e \in Disks
        /\ e.pool = rd.pool /\ e.free_inodes = rd.free_inodes
        /\ e.data = rd.data /\ e.inodes = rd.inodes
        /\ e.ptrs = [rd.ptrs EXCEPT ![table][p] = b]
        /\ \A c \in Blocks, q \in Places :
             e.ptrs[c][q] = IF c = table /\ q = p THEN b ELSE rd.ptrs[c][q]
        /\ \A c \in Blocks \ {table} : e.ptrs[c] = rd.ptrs[c]
    BY <1>1, <1>2, <2>3, PtrReplaced
  <2>6. AddToTable(rd, table, b).rd = e /\ AddToTable(rd, table, b).place = p
    BY <2>1
  <2> HIDE DEF e
  <2>7. Put(rd, e, "table", table, p, b)
    BY <2>5 DEF Put, IsPlace, PtrAt
  <2>8. IsPlace("table", table, p)
    BY <1>2, <2>3 DEF IsPlace
  <2>9. OthersKept(rd, e, i)
    <3> SUFFICES ASSUME NEW j \in Inums \ {i} PROVE Kept(rd, e, j)
      BY DEF OthersKept
    <3>1. ~ InTree(rd, j, table)
      BY <1>1, TreesDisjoint DEF Sound
    <3>. QED  BY <2>5, <3>1 DEF Kept
  <2>10. Grows(rd, e, i) /\ Allocated(e) = Allocated(rd) /\ \A c : Spare(rd, c) /\ c # b => Spare(e, c)
    BY <2>5, <2>7, <2>8, <2>9, PutSound DEF Grows, Put
  <2>. QED  BY <2>3, <2>4, <2>5, <2>6, <2>10 DEF Added
<1>. QED  BY <1>3, <1>4

LEMMA AddToTableGrows ==
  ASSUME NEW rd, Sound(rd), NEW i \in Inums, NEW table, InTree(rd, i, table),
         NEW b, Spare(rd, b)
  PROVE  /\ Grows(rd, AddToTable(rd, table, b).rd, i)
         /\ Allocated(AddToTable(rd, table, b).rd) = Allocated(rd)
         /\ AddToTable(rd, table, b).rd.data = rd.data
         /\ AddToTable(rd, table, b).rd.inodes = rd.inodes
<1>1. Added(rd, i, table, b, AddToTable(rd, table, b))
  BY AddToTableResult
<1>. QED  BY <1>1 DEF Added

-----------------------------------------------------------------------------
(***************************************************************************)
(* A bit more in the bitmap is a block more that is allocated.             *)
(***************************************************************************)
LEMMA AllocatedGrows ==
  ASSUME NEW rd, NEW e, NEW b \in Blocks \ Allocated(rd),
         e.pool.used = rd.pool.used \cup {b + OVERHEAD_BLOCKS}
  PROVE  /\ Allocated(e) = Allocated(rd) \cup {b}
         /\ Cardinality(Allocated(e)) = Cardinality(Allocated(rd)) + 1
<1>1. \A c \in Blocks : c + OVERHEAD_BLOCKS = b + OVERHEAD_BLOCKS <=> c = b
  BY PoolAssumption DEF Blocks, FS_BLOCKS
<1>2. Allocated(e) = Allocated(rd) \cup {b}
  BY <1>1 DEF Allocated
<1>. QED  BY <1>2, AllocatedFinite, FS_AddElement

LEMMA AllocatedShrinks ==
  ASSUME NEW rd, NEW e, NEW b \in Allocated(rd),
         e.pool.used = rd.pool.used \ {b + OVERHEAD_BLOCKS}
  PROVE  /\ Allocated(e) = Allocated(rd) \ {b}
         /\ Cardinality(Allocated(e)) = Cardinality(Allocated(rd)) - 1
<1>1. \A c \in Blocks : c + OVERHEAD_BLOCKS = b + OVERHEAD_BLOCKS <=> c = b
  BY PoolAssumption, AllocatedFinite DEF Blocks, FS_BLOCKS
<1>2. Allocated(e) = Allocated(rd) \ {b}
  BY <1>1 DEF Allocated
<1>. QED  BY <1>2, AllocatedFinite, FS_RemoveElement

(***************************************************************************)
(* _ramdisk_allocate_block: no block, and nothing but the bitmap's own     *)
(* counter changed, or a block that was free, wiped, and at no place.      *)
(***************************************************************************)
Obtains(rd, got) ==
  LET e == got.rd
      b == got.block
  IN
  /\ e.inodes = rd.inodes /\ e.free_inodes = rd.free_inodes
  /\ \/ b = NULL /\ Allocated(e) = Allocated(rd) /\ e.data = rd.data /\ e.ptrs = rd.ptrs
     \/ /\ b \in Blocks \ Allocated(rd)
        /\ Allocated(e) = Allocated(rd) \cup {b}
        /\ Spare(e, b)
        /\ e.data = [rd.data EXCEPT ![b] = ZeroCells]
        /\ e.ptrs = [rd.ptrs EXCEPT ![b] = NullPtrs]
  /\ \A i \in Inums : Kept(rd, e, i) /\ Grows(rd, e, i)
  /\ \A c : Spare(rd, c) => Spare(e, c)

LEMMA ZeroTypes ==
  ZeroCells \in [Offs -> Cells] /\ NullPtrs \in [Places -> Ptr]
BY DEF ZeroCells, NullPtrs, Cells, Ptr

LEMMA PoolReplaced ==
  ASSUME NEW rd, Sound(rd), NEW pool \in Pool, pool.used = rd.pool.used,
         pool.free_blocks = rd.pool.free_blocks
  PROVE  LET e == [rd EXCEPT !.pool = pool] IN
         Obtains(rd, [block |-> NULL, rd |-> e])
<1> DEFINE e == [rd EXCEPT !.pool = pool]
<1>1. /\ e \in Disks /\ e.pool = pool /\ e.free_inodes = rd.free_inodes
      /\ e.inodes = rd.inodes /\ e.data = rd.data /\ e.ptrs = rd.ptrs
  BY DEF Sound, Disks
<1> HIDE DEF e
<1>2. Allocated(e) = Allocated(rd)
  BY <1>1 DEF Allocated
<1>3. \A x, a, k : PtrAt(e, x, a, k) = PtrAt(rd, x, a, k)
  BY <1>1 DEF PtrAt
<1>4. OnePlace(e) /\ PlacedAllocated(e) /\ PoolExact(e)
  BY <1>1, <1>2, <1>3 DEF Sound, OnePlace, PlacedAllocated, PoolExact
<1>5. \A i \in Inums : Kept(rd, e, i) /\ OthersKept(rd, e, i)
  BY <1>1 DEF OthersKept, Kept
<1>6. \A i \in Inums : Kept(rd, e, i) /\ Grows(rd, e, i)
  BY <1>1, <1>2, <1>4, <1>5 DEF Grows, Sound
<1>7. \A c : Spare(rd, c) => Spare(e, c)
  BY <1>2, <1>3 DEF Spare
<1>8. Obtains(rd, [block |-> NULL, rd |-> e])
  BY <1>1, <1>2, <1>6, <1>7 DEF Obtains
<1>. QED  BY <1>8 DEF e

LEMMA AllocateResult ==
  ASSUME NEW rd, Sound(rd)
  PROVE  Obtains(rd, Allocate(rd))
<1> DEFINE got == AllocateBlock(rd.pool)
<1>1. rd \in Disks /\ rd.pool \in Pool /\ Overhead \subseteq rd.pool.used
  BY DEF Sound, PoolExact, Disks
<1>2. ASSUME got.block = NULL, got.pool \in Pool, got.pool.used = rd.pool.used,
             got.pool.free_blocks = rd.pool.free_blocks
      PROVE  Obtains(rd, Allocate(rd))
  <2>1. Allocate(rd) = [block |-> NULL, rd |-> [rd EXCEPT !.pool = got.pool]]
    BY <1>2 DEF Allocate, Granted
  <2>. QED  BY <1>2, <2>1, PoolReplaced
<1>3. CASE rd.pool.free_blocks = 0
  <2>1. got = [block |-> NULL, pool |-> rd.pool]
    BY <1>3 DEF AllocateBlock
  <2>. QED  BY <1>1, <1>2, <2>1
<1>4. CASE rd.pool.free_blocks # 0 /\ Refuses(rd.pool, got)
  BY <1>2, <1>4 DEF Refuses
<1>5. CASE rd.pool.free_blocks # 0 /\ Grants(rd.pool, got)
  <2> DEFINE b == got.block
             e == [rd EXCEPT !.pool = got.pool, !.data[b] = ZeroCells, !.ptrs[b] = NullPtrs]
             ds == [rd.data EXCEPT ![b] = ZeroCells]
             ps == [rd.ptrs EXCEPT ![b] = NullPtrs]
  <2> HIDE DEF got
  <2>1. b \in Blocks /\ b + OVERHEAD_BLOCKS \notin rd.pool.used /\ b # NULL
    BY <1>5 DEF Grants, Blocks, NULL
  <2>2. Allocate(rd) = [block |-> b, rd |-> e]
    BY <2>1 DEF Allocate, Granted, got
  <2>3. ds \in [Blocks -> [Offs -> Cells]] /\ ps \in [Blocks -> [Places -> Ptr]]
    BY <1>1, ZeroTypes DEF Disks
  <2>4. e = [rd EXCEPT !.pool = got.pool, !.data = ds, !.ptrs = ps]
    OBVIOUS
  <2>5. \A c \in Blocks \ {b} : ds[c] = rd.data[c] /\ ps[c] = rd.ptrs[c]
    BY <1>1 DEF Disks
  <2>6. \A p \in Places : ps[b][p] = NULL
    BY <1>1, <2>1 DEF Disks, NullPtrs
  <2> HIDE DEF ds, ps, b
  <2>7. /\ e \in Disks /\ e.pool = got.pool /\ e.free_inodes = rd.free_inodes
        /\ e.inodes = rd.inodes /\ e.data = ds /\ e.ptrs = ps
    BY <1>1, <1>5, <2>3, <2>4 DEF Disks, Grants
  <2> HIDE DEF e
  <2>8. b \notin Allocated(rd) /\ e.pool.used = rd.pool.used \cup {b + OVERHEAD_BLOCKS}
    BY <1>5, <2>1, <2>7 DEF Allocated, Grants, b
  <2>9. /\ Allocated(e) = Allocated(rd) \cup {b}
        /\ Cardinality(Allocated(e)) = Cardinality(Allocated(rd)) + 1
    BY <2>1, <2>8, AllocatedGrows
  <2>10. PoolExact(e)
    BY <1>1, <1>5, <2>7, <2>8, <2>9, AllocatedFinite, PoolAssumption
       DEF PoolExact, Sound, Grants, FS_BLOCKS, Pool
  <2>11. \A x, a, k : IsPlace(x, a, k) =>
           \/ PtrAt(e, x, a, k) = PtrAt(rd, x, a, k)
           \/ PtrAt(e, x, a, k) = NULL
    BY <2>5, <2>6, <2>7 DEF PtrAt, IsPlace
  <2>12. OnePlace(e) /\ PlacedAllocated(e)
    BY <2>9, <2>11 DEF Sound, OnePlace, PlacedAllocated
  <2>13. Spare(e, b) /\ \A c : Spare(rd, c) => Spare(e, c)
    <3>1. \A x, a, k : IsPlace(x, a, k) => PtrAt(rd, x, a, k) # b
      BY <2>1, <2>8 DEF Sound, PlacedAllocated
    <3>2. NULL \notin Allocated(rd)
      BY AllocatedFinite
    <3>. QED  BY <2>1, <2>9, <2>11, <3>1, <3>2 DEF Spare
  <2>14. \A i \in Inums : Kept(rd, e, i) /\ OthersKept(rd, e, i)
    <3> SUFFICES ASSUME NEW j \in Inums PROVE Kept(rd, e, j)
      BY DEF OthersKept
    <3>. QED  BY <1>1, <2>5, <2>7, <2>8, TreeAllocated DEF Kept, Sound
  <2>15. \A c \in Allocated(rd) : e.data[c] = rd.data[c]
    BY <2>5, <2>7, <2>8, AllocatedFinite
  <2>16. Sound(e)
    BY <2>7, <2>10, <2>12 DEF Sound
  <2>17. \A i \in Inums : Grows(rd, e, i)
    BY <2>7, <2>9, <2>14, <2>15, <2>16 DEF Grows
  <2>. QED  BY <2>1, <2>2, <2>7, <2>8, <2>9, <2>13, <2>14, <2>17 DEF Obtains, ds, ps
<1>. QED  BY <1>1, <1>3, <1>4, <1>5, AllocateBlockResult

-----------------------------------------------------------------------------
(* The indices a block number is split into are in range. *)
LEMMA PositionTypes ==
  ASSUME NEW k \in Nat
  PROVE  LET pos == Position(k) IN
         \/ pos.kind = "direct" /\ pos.place \in Directs /\ pos.table = 0
         \/ pos.kind = "indirect" /\ pos.place \in Places /\ pos.table = 0
         \/ pos.kind = "double" /\ pos.place \in Places /\ pos.table \in Places
         \/ pos.kind = "none"
<1> DEFINE k1 == k - DIRECT_POINTERS
           k2 == k1 - BLOCK_PTRS
<1>1. CASE k1 < 0
  BY <1>1, InodeAssumption DEF Position, Directs
<1>2. CASE ~ (k1 < 0) /\ k2 < 0
  BY <1>2, InodeAssumption DEF Position, Places
<1>3. CASE ~ (k1 < 0) /\ ~ (k2 < 0) /\ k2 < BLOCK_PTRS * BLOCK_PTRS
  <2>1. Position(k) = [kind |-> "double", table |-> k2 \div BLOCK_PTRS, place |-> k2 % BLOCK_PTRS]
    BY <1>3 DEF Position
  <2>2. \A m, n \in Nat : n > 0 /\ m < n * n => m \div n \in 0 .. n - 1 /\ m % n \in 0 .. n - 1
    OBVIOUS
  <2>3. k2 \in Nat
    BY <1>3, InodeAssumption
  <2>4. k2 \div BLOCK_PTRS \in Places /\ k2 % BLOCK_PTRS \in Places
    BY <1>3, <2>2, <2>3, InodeAssumption DEF Places
  <2>. QED  BY <2>1, <2>4
<1>4. CASE ~ (k1 < 0) /\ ~ (k2 < 0) /\ ~ (k2 < BLOCK_PTRS * BLOCK_PTRS)
  BY <1>4 DEF Position
<1>. QED  BY <1>1, <1>2, <1>3, <1>4

(* What the pointers of an inode and of its tables lead to is in its tree. *)
LEMMA TreePlaces ==
  ASSUME NEW rd \in Disks, NEW i \in Inums
  PROVE  /\ \A k \in Directs : rd.inodes[i].direct[k] # NULL => InTree(rd, i, rd.inodes[i].direct[k])
         /\ rd.inodes[i].indirect # NULL => InTree(rd, i, rd.inodes[i].indirect)
         /\ rd.inodes[i].double # NULL => InTree(rd, i, rd.inodes[i].double)
         /\ \A p \in Places, t \in {rd.inodes[i].indirect, rd.inodes[i].double} :
              BlockAt(rd, t, p) # NULL => InTree(rd, i, BlockAt(rd, t, p))
BY DEF InTree, Under, BlockAt

(***************************************************************************)
(* A block in hand for inode i, taken from the bitmap while rd grew.       *)
(***************************************************************************)
Fresh(rd, got, i) ==
  /\ Grows(rd, got.rd, i)
  /\ got.block # NULL =>
       /\ got.block \in Allocated(got.rd) \ Allocated(rd)
       /\ got.rd.data[got.block] = ZeroCells

Hand(rd, got, i) ==
  Fresh(rd, got, i) /\ (got.block # NULL => Spare(got.rd, got.block))

LEMMA AllocateHand ==
  ASSUME NEW rd, NEW e, NEW i \in Inums, Sound(rd), Grows(rd, e, i)
  PROVE  /\ Hand(rd, Allocate(e), i)
         /\ Allocate(e).rd.inodes = e.inodes
         /\ \A b : InTree(Allocate(e).rd, i, b) <=> InTree(e, i, b)
<1> DEFINE got == Allocate(e)
<1>1. Sound(e) /\ Obtains(e, got)
  BY AllocateResult DEF Grows
<1> HIDE DEF got
<1>2. Grows(rd, got.rd, i)
  BY <1>1, GrowsTransitive DEF Obtains
<1>3. Allocated(rd) \subseteq Allocated(e)
  BY DEF Grows
<1>4. got.block # NULL => /\ got.block \in Allocated(got.rd) \ Allocated(rd)
                          /\ got.rd.data[got.block] = ZeroCells
  <2>1. \A b \in Blocks : [e.data EXCEPT ![b] = ZeroCells][b] = ZeroCells
    BY <1>1 DEF Sound, Disks
  <2>. QED  BY <1>1, <1>3, <2>1 DEF Obtains
<1>5. \A b : InTree(got.rd, i, b) <=> InTree(e, i, b)
  BY <1>1, <1>2, KeptTree DEF Obtains, Grows, Sound
<1>. QED  BY <1>1, <1>2, <1>4, <1>5 DEF Hand, Fresh, Obtains, got

(* Into a table of the tree, or into none. *)
LEMMA IntoTableFresh ==
  ASSUME NEW rd, NEW got, NEW i \in Inums, Sound(rd), Hand(rd, got, i),
         NEW table, table = NULL \/ InTree(got.rd, i, table)
  PROVE  Fresh(rd, IntoTable(got, table), i)
<1>1. CASE got.block = NULL
  BY <1>1 DEF IntoTable, Hand
<1>2. CASE got.block # NULL /\ table = NULL
  BY <1>2 DEF IntoTable, AddToTable, Hand, Fresh, InHand
<1>3. CASE got.block # NULL /\ table # NULL
  <2> DEFINE e == AddToTable(got.rd, table, got.block).rd
  <2>0. Sound(got.rd) /\ Spare(got.rd, got.block) /\ InTree(got.rd, i, table)
    BY <1>3 DEF Hand, Fresh, Grows
  <2>1. /\ Grows(got.rd, e, i) /\ Allocated(e) = Allocated(got.rd) /\ e.data = got.rd.data
    BY <2>0, AddToTableGrows
  <2>2. Grows(rd, e, i)
    BY <2>1, GrowsTransitive DEF Hand, Fresh
  <2>3. IntoTable(got, table) = [block |-> got.block, rd |-> e]
    BY <1>3 DEF IntoTable, InHand
  <2> HIDE DEF e
  <2>. QED  BY <1>3, <2>1, <2>2, <2>3 DEF Hand, Fresh
<1>. QED  BY <1>1, <1>2, <1>3

LEMMA IntoIndirectFresh ==
  ASSUME NEW rd, NEW got, NEW i \in Inums, Sound(rd), Hand(rd, got, i),
         NEW table, InTree(got.rd, i, table), NEW place
  PROVE  Fresh(rd, IntoIndirect(got, table, place), i)
<1>1. CASE got.block = NULL
  BY <1>1 DEF IntoIndirect, Hand
<1>2. CASE got.block # NULL
  <2> DEFINE e == AddToTable(got.rd, table, got.block).rd
             p == AddToTable(got.rd, table, got.block).place
  <2>0. Sound(got.rd) /\ Spare(got.rd, got.block) /\ InTree(got.rd, i, table)
    BY <1>2 DEF Hand, Fresh, Grows
  <2>1. /\ Grows(got.rd, e, i) /\ Allocated(e) = Allocated(got.rd) /\ e.data = got.rd.data
    BY <2>0, AddToTableGrows
  <2>2. Grows(rd, e, i)
    BY <2>1, GrowsTransitive DEF Hand, Fresh
  <2>3. IntoIndirect(got, table, place)
          = [block |-> IF p = place THEN got.block ELSE NULL, rd |-> e]
    BY <1>2 DEF IntoIndirect, InHand
  <2> HIDE DEF e, p
  <2>. QED  BY <1>2, <2>1, <2>2, <2>3 DEF Hand, Fresh
<1>. QED  BY <1>1, <1>2

(***************************************************************************)
(* A spare block at one of the pointers of inode i itself                  *)
(***************************************************************************)
Rooted(rd, e, i, node, b) ==
  /\ Grows(rd, e, i) /\ Allocated(e) = Allocated(rd)
  /\ \A c : Spare(rd, c) /\ c # b => Spare(e, c)
  /\ e.inodes[i] = node /\ e.ptrs = rd.ptrs /\ e.data = rd.data
  /\ InTree(e, i, b)

LEMMA RootedDirect ==
  ASSUME NEW rd, Sound(rd), NEW i \in Inums, NEW b, Spare(rd, b), NEW k \in Directs
  PROVE  Rooted(rd, [rd EXCEPT !.inodes[i].direct[k] = b], i,
                [rd.inodes[i] EXCEPT !.direct[k] = b], b)
<1> DEFINE ds   == [rd.inodes[i].direct EXCEPT ![k] = b]
           node == [rd.inodes[i] EXCEPT !.direct = ds]
           e    == [rd EXCEPT !.inodes[i] = node]
<1>1. rd \in Disks /\ b \in Ptr /\ b # NULL
  BY AllocatedFinite DEF Sound, Spare, Ptr
<1>2. /\ ds \in [Directs -> Ptr] /\ ds[k] = b
      /\ \A l \in Directs : l # k => ds[l] = rd.inodes[i].direct[l]
  BY <1>1, DiskTypes
<1>3. /\ [rd EXCEPT !.inodes[i].direct[k] = b] = e
      /\ [rd.inodes[i] EXCEPT !.direct[k] = b] = node
  OBVIOUS
<1> HIDE DEF ds
<1>4. /\ node \in Nodes /\ node.direct = ds
      /\ node.type = rd.inodes[i].type /\ node.size = rd.inodes[i].size
      /\ node.indirect = rd.inodes[i].indirect /\ node.double = rd.inodes[i].double
  BY <1>1, <1>2, DiskTypes DEF Nodes
<1> HIDE DEF node
<1>5. IsPlace("direct", i, k)
  BY DEF IsPlace
<1>6. \A y, l : IsPlace(y, i, l) /\ y # "table" =>
        NodePtr(node, y, l) = IF y = "direct" /\ l = k THEN b ELSE NodePtr(rd.inodes[i], y, l)
  BY <1>2, <1>4 DEF NodePtr, IsPlace
<1>7. /\ Grows(rd, e, i) /\ Allocated(e) = Allocated(rd)
      /\ \A c : Spare(rd, c) /\ c # b => Spare(e, c)
      /\ e.inodes[i] = node /\ e.ptrs = rd.ptrs /\ e.data = rd.data
  BY <1>4, <1>5, <1>6, PutInode
<1> HIDE DEF e
<1>8. InTree(e, i, b)
  BY <1>1, <1>2, <1>4, <1>7 DEF InTree
<1>9. Rooted(rd, e, i, node, b)
  BY <1>7, <1>8 DEF Rooted
<1>. QED  BY <1>3, <1>9

LEMMA RootedIndirect ==
  ASSUME NEW rd, Sound(rd), NEW i \in Inums, NEW b, Spare(rd, b)
  PROVE  Rooted(rd, [rd EXCEPT !.inodes[i].indirect = b], i,
                [rd.inodes[i] EXCEPT !.indirect = b], b)
<1> DEFINE node == [rd.inodes[i] EXCEPT !.indirect = b]
           e    == [rd EXCEPT !.inodes[i] = node]
<1>1. rd \in Disks /\ b \in Ptr /\ b # NULL
  BY AllocatedFinite DEF Sound, Spare, Ptr
<1>3. [rd EXCEPT !.inodes[i].indirect = b] = e
  OBVIOUS
<1>4. /\ node \in Nodes /\ node.direct = rd.inodes[i].direct
      /\ node.type = rd.inodes[i].type /\ node.size = rd.inodes[i].size
      /\ node.indirect = b /\ node.double = rd.inodes[i].double
  BY <1>1, DiskTypes DEF Nodes
<1> HIDE DEF node
<1>5. IsPlace("indirect", i, 0)
  BY DEF IsPlace
<1>6. \A y, l : IsPlace(y, i, l) /\ y # "table" =>
        NodePtr(node, y, l) = IF y = "indirect" /\ l = 0 THEN b ELSE NodePtr(rd.inodes[i], y, l)
  BY <1>4 DEF NodePtr, IsPlace
<1>7. /\ Grows(rd, e, i) /\ Allocated(e) = Allocated(rd)
      /\ \A c : Spare(rd, c) /\ c # b => Spare(e, c)
      /\ e.inodes[i] = node /\ e.ptrs = rd.ptrs /\ e.data = rd.data
  BY <1>4, <1>5, <1>6, PutInode
<1> HIDE DEF e
<1>8. InTree(e, i, b)
  BY <1>1, <1>4, <1>7 DEF InTree
<1>9. Rooted(rd, e, i, node, b)
  BY <1>7, <1>8 DEF Rooted
<1>. QED  BY <1>3, <1>9 DEF node

LEMMA RootedDouble ==
  ASSUME NEW rd, Sound(rd), NEW i \in Inums, NEW b, Spare(rd, b)
  PROVE  Rooted(rd, [rd EXCEPT !.inodes[i].double = b], i,
                [rd.inodes[i] EXCEPT !.double = b], b)
<1> DEFINE node == [rd.inodes[i] EXCEPT !.double = b]
           e    == [rd EXCEPT !.inodes[i] = node]
<1>1. rd \in Disks /\ b \in Ptr /\ b # NULL
  BY AllocatedFinite DEF Sound, Spare, Ptr
<1>3. [rd EXCEPT !.inodes[i].double = b] = e
  OBVIOUS
<1>4. /\ node \in Nodes /\ node.direct = rd.inodes[i].direct
      /\ node.type = rd.inodes[i].type /\ node.size = rd.inodes[i].size
      /\ node.indirect = rd.inodes[i].indirect /\ node.double = b
  BY <1>1, DiskTypes DEF Nodes
<1> HIDE DEF node
<1>5. IsPlace("double", i, 0)
  BY DEF IsPlace
<1>6. \A y, l : IsPlace(y, i, l) /\ y # "table" =>
        NodePtr(node, y, l) = IF y = "double" /\ l = 0 THEN b ELSE NodePtr(rd.inodes[i], y, l)
  BY <1>4 DEF NodePtr, IsPlace
<1>7. /\ Grows(rd, e, i) /\ Allocated(e) = Allocated(rd)
      /\ \A c : Spare(rd, c) /\ c # b => Spare(e, c)
      /\ e.inodes[i] = node /\ e.ptrs = rd.ptrs /\ e.data = rd.data
  BY <1>4, <1>5, <1>6, PutInode
<1> HIDE DEF e
<1>8. InTree(e, i, b)
  BY <1>1, <1>4, <1>7 DEF InTree
<1>9. Rooted(rd, e, i, node, b)
  BY <1>7, <1>8 DEF Rooted
<1>. QED  BY <1>3, <1>9 DEF node

(***************************************************************************)
(* inode_add_block: whatever it adds, and however far it gets, the disk    *)
(* only grows, by blocks of inode i; and the block it returns was free     *)
(* before, and is empty.                                                   *)
(***************************************************************************)
LEMMA AddIndirectFresh ==
  ASSUME NEW rd, NEW got, NEW i \in Inums, Sound(rd), Hand(rd, got, i), got.block # NULL,
         NEW place
  PROVE  Fresh(rd, AddIndirect(got.rd, i, got.block, place), i)
<1> DEFINE e == got.rd
           b == got.block
<1>1. /\ Sound(e) /\ Grows(rd, e, i) /\ e \in Disks
      /\ InHand(b, e).block = b /\ InHand(b, e).rd = e
  BY DEF Hand, Fresh, Grows, Sound, InHand
<1> HIDE DEF e, b
<1>2. CASE e.inodes[i].indirect # NULL
  <2>1. Hand(rd, InHand(b, e), i)
    BY <1>1 DEF Hand, Fresh, e, b
  <2>2. InTree(InHand(b, e).rd, i, e.inodes[i].indirect)
    BY <1>1, <1>2, TreePlaces
  <2>3. Fresh(rd, IntoIndirect(InHand(b, e), e.inodes[i].indirect, place), i)
    BY <2>1, <2>2, IntoIndirectFresh
  <2>. QED  BY <1>2, <2>3 DEF AddIndirect, e, b
<1>3. CASE e.inodes[i].indirect = NULL
  <2> DEFINE f == [e EXCEPT !.inodes[i].indirect = b]
             node == [e.inodes[i] EXCEPT !.indirect = b]
  <2>1. Spare(e, b)
    BY DEF Hand, e, b
  <2>2. Rooted(e, f, i, node, b)
    BY <1>1, <2>1, RootedIndirect
  <2>3. AddIndirect(e, i, b, place) = IntoIndirect(Allocate(f), b, place)
    BY <1>3 DEF AddIndirect
  <2> HIDE DEF f, node
  <2>4. Grows(rd, f, i)
    BY <1>1, <2>2, GrowsTransitive DEF Rooted
  <2>5. Hand(rd, Allocate(f), i) /\ InTree(Allocate(f).rd, i, b)
    BY <2>2, <2>4, AllocateHand DEF Rooted
  <2>. QED  BY <2>3, <2>5, IntoIndirectFresh DEF e, b
<1>. QED  BY <1>2, <1>3

LEMMA NewTableFresh ==
  ASSUME NEW rd, NEW e, NEW i \in Inums, Sound(rd), Grows(rd, e, i),
         NEW double, double = e.inodes[i].double, NEW t \in Places
  PROVE  Fresh(rd, NewTable(e, double, t), i)
<1>1. Hand(rd, Allocate(e), i)
  BY AllocateHand
<1>2. BlockAt(e, double, t) = NULL \/ InTree(Allocate(e).rd, i, BlockAt(e, double, t))
  BY AllocateHand, TreePlaces DEF Grows, Sound
<1>. QED  BY <1>1, <1>2, IntoTableFresh DEF NewTable

LEMMA IntoDoubleFresh ==
  ASSUME NEW rd, NEW got, NEW i \in Inums, Sound(rd), Hand(rd, got, i),
         NEW double, double = got.rd.inodes[i].double, double # NULL,
         NEW pos, pos.table \in Places
  PROVE  Fresh(rd, IntoDouble(got, double, pos), i)
<1>1. CASE got.block = NULL
  BY <1>1 DEF IntoDouble, Hand
<1>2. CASE got.block # NULL /\ BlockAt(got.rd, double, pos.table) # NULL
  <2>1. InTree(got.rd, i, BlockAt(got.rd, double, pos.table))
    BY <1>2, TreePlaces DEF Hand, Fresh, Grows, Sound
  <2>. QED  BY <1>2, <2>1, IntoTableFresh DEF IntoDouble
<1>3. CASE got.block # NULL /\ BlockAt(got.rd, double, pos.table) = NULL
  <2> DEFINE e == AddToTable(got.rd, double, got.block).rd
  <2>1. IntoDouble(got, double, pos) = NewTable(e, double, pos.table)
    BY <1>3 DEF IntoDouble
  <2>2. InTree(got.rd, i, double)
    BY TreePlaces DEF Hand, Fresh, Grows, Sound
  <2>3. Sound(got.rd) /\ Spare(got.rd, got.block)
    BY <1>3 DEF Hand, Fresh, Grows
  <2>4. Grows(got.rd, e, i) /\ e.inodes = got.rd.inodes
    BY <2>2, <2>3, AddToTableGrows
  <2> HIDE DEF e
  <2>5. Grows(rd, e, i)
    BY <2>4, GrowsTransitive DEF Hand, Fresh
  <2>. QED  BY <2>1, <2>4, <2>5, NewTableFresh
<1>. QED  BY <1>1, <1>2, <1>3

LEMMA AddDoubleFresh ==
  ASSUME NEW rd, NEW got, NEW i \in Inums, Sound(rd), Hand(rd, got, i), got.block # NULL,
         NEW pos, pos.table \in Places
  PROVE  Fresh(rd, AddDouble(got.rd, i, got.block, pos), i)
<1> DEFINE e == got.rd
           b == got.block
<1>1. /\ Sound(e) /\ Grows(rd, e, i) /\ e \in Disks
      /\ InHand(b, e).block = b /\ InHand(b, e).rd = e
  BY DEF Hand, Fresh, Grows, Sound, InHand
<1> HIDE DEF e, b
<1>2. CASE e.inodes[i].double # NULL
  <2>1. Hand(rd, InHand(b, e), i)
    BY <1>1 DEF Hand, Fresh, e, b
  <2>2. Fresh(rd, IntoDouble(InHand(b, e), e.inodes[i].double, pos), i)
    BY <1>1, <1>2, <2>1, IntoDoubleFresh
  <2>. QED  BY <1>2, <2>2 DEF AddDouble, e, b
<1>3. CASE e.inodes[i].double = NULL
  <2> DEFINE f == [e EXCEPT !.inodes[i].double = b]
             node == [e.inodes[i] EXCEPT !.double = b]
  <2>1. Spare(e, b)
    BY DEF Hand, e, b
  <2>2. Rooted(e, f, i, node, b)
    BY <1>1, <2>1, RootedDouble
  <2>3. AddDouble(e, i, b, pos) = IntoDouble(Allocate(f), b, pos)
    BY <1>3 DEF AddDouble
  <2>4. node.double = b
    BY <1>1, DiskTypes DEF Disks, Nodes
  <2> HIDE DEF f, node
  <2>5. Grows(rd, f, i)
    BY <1>1, <2>2, GrowsTransitive DEF Rooted
  <2>6. Hand(rd, Allocate(f), i) /\ Allocate(f).rd.inodes[i].double = b
    BY <2>2, <2>4, <2>5, AllocateHand DEF Rooted
  <2>7. b # NULL
    BY DEF b
  <2>. QED  BY <2>3, <2>6, <2>7, IntoDoubleFresh DEF e, b
<1>. QED  BY <1>2, <1>3

LEMMA AddBlockFresh ==
  ASSUME NEW rd, NEW i \in Inums, Sound(rd)
  PROVE  Fresh(rd, AddBlock(rd, i), i)
<1> DEFINE got == Allocate(rd)
           pos == Position(rd.inodes[i].size \div BLOCK_CELLS)
<1>1. Hand(rd, got, i)
  BY GrowsReflexive, AllocateHand
<1>2. rd.inodes[i].size \div BLOCK_CELLS \in Nat
  <2>1. \A m \in Nat, n \in Nat \ {0} : m \div n \in Nat
    OBVIOUS
  <2>. QED  BY <2>1, DiskTypes, InodeAssumption DEF Sound
<1>3. \/ pos.kind = "direct" /\ pos.place \in Directs
      \/ pos.kind = "indirect" /\ pos.place \in Places
      \/ pos.kind = "double" /\ pos.table \in Places
      \/ pos.kind = "none"
  BY <1>2, PositionTypes
<1>4. AddBlock(rd, i) = Attach(got, i, pos)
  BY DEF AddBlock
<1> HIDE DEF got, pos
<1>5. CASE got.block = NULL
  BY <1>1, <1>4, <1>5 DEF Attach, Hand
<1>6. CASE got.block # NULL /\ pos.kind = "direct"
  <2> DEFINE e == [got.rd EXCEPT !.inodes[i].direct[pos.place] = got.block]
             node == [got.rd.inodes[i] EXCEPT !.direct[pos.place] = got.block]
  <2>1. Attach(got, i, pos) = [got EXCEPT !.rd = e]
    BY <1>6 DEF Attach
  <2>2. Rooted(got.rd, e, i, node, got.block)
    BY <1>1, <1>3, <1>6, RootedDirect DEF Hand, Fresh, Grows
  <2>3. [got EXCEPT !.rd = e].block = got.block /\ [got EXCEPT !.rd = e].rd = e
    BY DEF got, Allocate, Granted
  <2> HIDE DEF e, node
  <2>4. Grows(rd, e, i)
    BY <1>1, <2>2, GrowsTransitive DEF Rooted, Hand, Fresh
  <2>. QED  BY <1>1, <1>4, <2>1, <2>2, <2>3, <2>4 DEF Hand, Fresh, Rooted
<1>7. CASE got.block # NULL /\ pos.kind = "indirect"
  BY <1>1, <1>4, <1>7, AddIndirectFresh DEF Attach
<1>8. CASE got.block # NULL /\ pos.kind = "double"
  BY <1>1, <1>3, <1>4, <1>8, AddDoubleFresh DEF Attach
<1>9. CASE got.block # NULL /\ pos.kind = "none"
  BY <1>1, <1>4, <1>9 DEF Attach, Hand, Fresh, InHand
<1>. QED  BY <1>3, <1>5, <1>6, <1>7, <1>8, <1>9

-----------------------------------------------------------------------------
(***************************************************************************)
(* Giving blocks of inode i back.  A block goes back to the bitmap before  *)
(* the pointer to it is cleared.  Between the two the disk is not sound:   *)
(* left are the blocks given back that some place may still lead to, given *)
(* are all those given back since disk rd.                                 *)
(***************************************************************************)
Trims(rd, e, i, given, left) ==
  /\ e \in Disks
  /\ OnePlace(e)
  /\ \A x, a, k : IsPlace(x, a, k) => PtrAt(e, x, a, k) \in Allocated(e) \cup {NULL} \cup left
  /\ PoolExact(e)
  /\ OthersKept(rd, e, i)
  /\ e.free_inodes = rd.free_inodes
  /\ e.inodes[i].type = rd.inodes[i].type /\ e.inodes[i].size = rd.inodes[i].size
  /\ Allocated(e) = Allocated(rd) \ given
  /\ \A b \in Blocks \ given : e.data[b] = rd.data[b]

LEMMA TrimsNothing ==
  ASSUME NEW rd, Sound(rd), NEW i \in Inums
  PROVE  Trims(rd, rd, i, {}, {})
BY DEF Trims, Sound, PlacedAllocated, OthersKept, Kept

LEMMA TrimsSound ==
  ASSUME NEW rd, NEW e, NEW i, NEW given, Trims(rd, e, i, given, {})
  PROVE  Sound(e)
BY DEF Trims, Sound, PlacedAllocated

LEMMA DeallocateNull ==
  ASSUME NEW rd
  PROVE  Deallocate(rd, NULL) = rd
BY DEF Deallocate, Blocks, NULL

StaleCells == [o \in Offs |-> Stale]

LEMMA DeallocateResult ==
  ASSUME NEW rd \in Disks, NEW b \in Blocks
  PROVE  LET e == Deallocate(rd, b) IN
         /\ e \in Disks
         /\ e.pool = DeallocateBlock(rd.pool, b)
         /\ e.inodes = rd.inodes /\ e.free_inodes = rd.free_inodes
         /\ e.data = [rd.data EXCEPT ![b] = StaleCells]
         /\ e.ptrs = [rd.ptrs EXCEPT ![b] = NullPtrs]
<1> DEFINE pool == DeallocateBlock(rd.pool, b)
           ds   == [rd.data EXCEPT ![b] = StaleCells]
           ps   == [rd.ptrs EXCEPT ![b] = NullPtrs]
           e    == Deallocate(rd, b)
<1>1. pool \in Pool
  BY DeallocateBlockResult, DiskTypes
<1>2. StaleCells \in [Offs -> Cells]
  BY DEF StaleCells, Cells
<1>3. ds \in [Blocks -> [Offs -> Cells]] /\ ps \in [Blocks -> [Places -> Ptr]]
  BY <1>2, ZeroTypes DEF Disks
<1>4. e = [rd EXCEPT !.pool = pool, !.data = ds, !.ptrs = ps]
  BY DEF Deallocate, StaleCells
<1> HIDE DEF pool, ds, ps, e
<1>5. /\ e \in Disks /\ e.pool = pool
      /\ e.inodes = rd.inodes /\ e.free_inodes = rd.free_inodes
      /\ e.data = ds /\ e.ptrs = ps
  BY <1>1, <1>3, <1>4 DEF Disks
<1>. QED  BY <1>5 DEF pool, ds, ps, e

(* One more block of the tree goes back; the way to it is still there. *)
LEMMA DeallocateTrims ==
  ASSUME NEW rd, NEW e, NEW i \in Inums, NEW given, NEW left, Sound(rd),
         Trims(rd, e, i, given, left),
         NEW b, InTree(rd, i, b), b \notin given
  PROVE  Trims(rd, Deallocate(e, b), i, given \cup {b}, left \cup {b})
<1> DEFINE f == Deallocate(e, b)
<1>1. rd \in Disks /\ e \in Disks /\ OnePlace(rd) /\ PlacedAllocated(rd)
  BY DEF Sound, Trims
<1>2. b \in Allocated(rd) /\ b \in Allocated(e) /\ b \in Blocks
  BY <1>1, TreeAllocated, AllocatedFinite DEF Trims
<1>3. /\ f \in Disks
      /\ f.pool = DeallocateBlock(e.pool, b)
      /\ f.inodes = e.inodes /\ f.free_inodes = e.free_inodes
      /\ \A c \in Blocks \ {b} : f.data[c] = e.data[c] /\ f.ptrs[c] = e.ptrs[c]
      /\ f.ptrs[b] = NullPtrs
  <2>1. /\ f \in Disks
        /\ f.pool = DeallocateBlock(e.pool, b)
        /\ f.inodes = e.inodes /\ f.free_inodes = e.free_inodes
        /\ f.data = [e.data EXCEPT ![b] = StaleCells]
        /\ f.ptrs = [e.ptrs EXCEPT ![b] = NullPtrs]
    BY <1>1, <1>2, DeallocateResult
  <2> HIDE DEF f
  <2>. QED  BY <1>1, <1>2, <2>1 DEF Disks
<1> HIDE DEF f
<1>4. /\ f.pool.used = e.pool.used \ {b + OVERHEAD_BLOCKS}
      /\ f.pool.free_blocks = e.pool.free_blocks + 1
  BY <1>1, <1>2, <1>3, DiskTypes, DeallocateBlockResult
<1>5. /\ Allocated(f) = Allocated(e) \ {b}
      /\ Cardinality(Allocated(f)) = Cardinality(Allocated(e)) - 1
  BY <1>2, <1>4, AllocatedShrinks
<1>6. PoolExact(f)
  <2>1. b + OVERHEAD_BLOCKS \notin Overhead
    BY <1>2, PoolAssumption DEF Blocks, FS_BLOCKS, Overhead
  <2>2. Overhead \subseteq f.pool.used
    BY <1>4, <2>1 DEF PoolExact, Trims
  <2>3. e.pool.free_blocks = FS_BLOCKS - Cardinality(Allocated(e))
    BY DEF PoolExact, Trims
  <2>4. Cardinality(Allocated(e)) \in Nat /\ FS_BLOCKS \in Int
    BY AllocatedFinite, PoolAssumption DEF FS_BLOCKS
  <2>5. f.pool.free_blocks = FS_BLOCKS - Cardinality(Allocated(f))
    BY <1>4, <1>5, <2>3, <2>4
  <2>. QED  BY <2>2, <2>5 DEF PoolExact
<1>7. \A x, a, k : IsPlace(x, a, k) =>
        PtrAt(f, x, a, k) = PtrAt(e, x, a, k) \/ PtrAt(f, x, a, k) = NULL
  BY <1>3 DEF PtrAt, IsPlace, NullPtrs
<1>8. OnePlace(f)
  BY <1>7 DEF OnePlace, Trims
<1>9. \A x, a, k : IsPlace(x, a, k) =>
        PtrAt(f, x, a, k) \in Allocated(f) \cup {NULL} \cup (left \cup {b})
  BY <1>5, <1>7 DEF Trims
<1>10. OthersKept(rd, f, i)
  <2> SUFFICES ASSUME NEW j \in Inums \ {i} PROVE Kept(rd, f, j)
    BY DEF OthersKept
  <2>1. ~ InTree(rd, j, b) /\ Kept(rd, e, j)
    BY <1>1, TreesDisjoint DEF Trims, OthersKept
  <2>. QED  BY <1>3, <2>1 DEF Kept
<1>11. /\ Allocated(f) = Allocated(rd) \ (given \cup {b})
       /\ \A c \in Blocks \ (given \cup {b}) : f.data[c] = rd.data[c]
  BY <1>3, <1>5 DEF Trims
<1>. QED  BY <1>3, <1>6, <1>8, <1>9, <1>10, <1>11 DEF Trims, f

(***************************************************************************)
(* A pointer is cleared.                                                   *)
(***************************************************************************)
Cleared(e, f, kind, a, k, i) ==
  /\ f \in Disks
  /\ f.pool = e.pool /\ f.free_inodes = e.free_inodes /\ f.data = e.data
  /\ f.inodes[i].type = e.inodes[i].type /\ f.inodes[i].size = e.inodes[i].size
  /\ \A x, c, l : IsPlace(x, c, l) =>
       PtrAt(f, x, c, l) = IF x = kind /\ c = a /\ l = k THEN NULL ELSE PtrAt(e, x, c, l)

LEMMA ClearedTrims ==
  ASSUME NEW rd, NEW e, NEW f, NEW i, NEW given, NEW left, Trims(rd, e, i, given, left),
         NEW x, NEW a, NEW k, IsPlace(x, a, k), Cleared(e, f, x, a, k, i), OthersKept(rd, f, i)
  PROVE  Trims(rd, f, i, given, left \ {PtrAt(e, x, a, k)})
<1>1. Allocated(f) = Allocated(e)
  BY DEF Cleared, Allocated
<1>2. OnePlace(f)
  BY DEF Cleared, Trims, OnePlace
<1>3. \A y, c, l : IsPlace(y, c, l) =>
        PtrAt(f, y, c, l) \in Allocated(f) \cup {NULL} \cup (left \ {PtrAt(e, x, a, k)})
  <2> SUFFICES ASSUME NEW y, NEW c, NEW l, IsPlace(y, c, l)
               PROVE  PtrAt(f, y, c, l) \in Allocated(f) \cup {NULL} \cup (left \ {PtrAt(e, x, a, k)})
    OBVIOUS
  <2>1. CASE y = x /\ c = a /\ l = k
    BY <2>1 DEF Cleared
  <2>2. CASE ~ (y = x /\ c = a /\ l = k)
    <3>1. PtrAt(f, y, c, l) = PtrAt(e, y, c, l)
      BY <2>2 DEF Cleared
    <3>2. PtrAt(e, y, c, l) \in Allocated(e) \cup {NULL} \cup left
      BY DEF Trims
    <3>3. PtrAt(e, y, c, l) = NULL \/ PtrAt(e, y, c, l) # PtrAt(e, x, a, k)
      BY <2>2 DEF Trims, OnePlace
    <3>. QED  BY <1>1, <3>1, <3>2, <3>3
  <2>. QED  BY <2>1, <2>2
<1>4. PoolExact(f)
  BY <1>1 DEF Cleared, Trims, PoolExact
<1>. QED  BY <1>1, <1>2, <1>3, <1>4 DEF Cleared, Trims

(***************************************************************************)
(* A block goes back and the pointer to it, in a table or in the inode, is *)
(* cleared.  A null pointer is only cleared.                               *)
(***************************************************************************)
Returned(rd, e, f, i, given, b) ==
  /\ Trims(rd, f, i, given \cup ({b} \ {NULL}), {b} \ {NULL})
  /\ f.inodes = e.inodes
  /\ \A c \in Blocks \ {b} : f.ptrs[c] = e.ptrs[c]

LEMMA DeallocateMaybe ==
  ASSUME NEW rd, NEW e, NEW i \in Inums, NEW given, Sound(rd), Trims(rd, e, i, given, {}),
         NEW b, b = NULL \/ (InTree(rd, i, b) /\ b \notin given)
  PROVE  Returned(rd, e, Deallocate(e, b), i, given, b)
<1>1. CASE b = NULL
  BY <1>1, DeallocateNull DEF Returned
<1>2. CASE b # NULL
  <2> DEFINE f == Deallocate(e, b)
  <2>1. InTree(rd, i, b) /\ b \notin given
    BY <1>2
  <2>2. Trims(rd, f, i, given \cup {b}, {} \cup {b})
    BY <2>1, DeallocateTrims
  <2>3. e \in Disks /\ b \in Blocks
    BY <2>1, TreeAllocated, AllocatedFinite DEF Trims, Sound
  <2>4. f.inodes = e.inodes /\ f.ptrs = [e.ptrs EXCEPT ![b] = NullPtrs]
    BY <2>3, DeallocateResult
  <2> HIDE DEF f
  <2>5. f.inodes = e.inodes /\ \A c \in Blocks \ {b} : f.ptrs[c] = e.ptrs[c]
    BY <2>3, <2>4 DEF Disks
  <2>6. {b} \ {NULL} = {b} /\ {} \cup {b} = {b}
    BY <1>2
  <2>7. Returned(rd, e, f, i, given, b)
    BY <2>2, <2>5, <2>6 DEF Returned
  <2>. QED  BY <2>7 DEF f
<1>. QED  BY <1>1, <1>2

FromTable(rd, e, f, i, given, table, p, b) ==
  /\ Trims(rd, f, i, given \cup ({b} \ {NULL}), {})
  /\ f.inodes = e.inodes
  /\ \A c \in Blocks \ {b, table} : f.ptrs[c] = e.ptrs[c]
  /\ \A q \in Places : f.ptrs[table][q] = IF q = p THEN NULL ELSE e.ptrs[table][q]

LEMMA DropFromTable ==
  ASSUME NEW rd, NEW e, NEW i \in Inums, NEW given, Sound(rd), Trims(rd, e, i, given, {}),
         NEW table, InTree(rd, i, table), NEW p \in Places,
         NEW b, b = e.ptrs[table][p], b # table,
         b = NULL \/ (InTree(rd, i, b) /\ b \notin given)
  PROVE  FromTable(rd, e, ClearPlace(Deallocate(e, b), table, p), i, given, table, p, b)
<1> DEFINE g == Deallocate(e, b)
           f == [g EXCEPT !.ptrs[table][p] = NULL]
<1>1. /\ Trims(rd, g, i, given \cup ({b} \ {NULL}), {b} \ {NULL})
      /\ g.inodes = e.inodes
      /\ \A c \in Blocks \ {b} : g.ptrs[c] = e.ptrs[c]
  <2>1. Returned(rd, e, g, i, given, b)
    BY DeallocateMaybe
  <2>. QED  BY <2>1 DEF Returned
<1>2. table \in Blocks /\ table # NULL /\ rd \in Disks /\ OnePlace(rd)
  BY TreeAllocated, AllocatedFinite DEF Sound
<1>3. ClearPlace(g, table, p) = f
  BY <1>2 DEF ClearPlace
<1> HIDE DEF g
<1>4. g \in Disks /\ NULL \in Ptr /\ g.ptrs[table][p] = b
  BY <1>1, <1>2 DEF Trims, Ptr
<1>5. /\ f \in Disks
      /\ f.pool = g.pool /\ f.free_inodes = g.free_inodes
      /\ f.data = g.data /\ f.inodes = g.inodes
      /\ f.ptrs = [g.ptrs EXCEPT ![table][p] = NULL]
      /\ \A c \in Blocks, q \in Places :
           f.ptrs[c][q] = IF c = table /\ q = p THEN NULL ELSE g.ptrs[c][q]
      /\ \A c \in Blocks \ {table} : f.ptrs[c] = g.ptrs[c]
  BY <1>2, <1>4, PtrReplaced
<1> HIDE DEF f
<1>6. Cleared(g, f, "table", table, p, i)
  BY <1>5 DEF Cleared, IsPlace, PtrAt
<1>7. OthersKept(rd, f, i)
  <2> SUFFICES ASSUME NEW j \in Inums \ {i} PROVE Kept(rd, f, j)
    BY DEF OthersKept
  <2>1. ~ InTree(rd, j, table) /\ Kept(rd, g, j)
    BY <1>1, <1>2, TreesDisjoint DEF Trims, OthersKept
  <2>. QED  BY <1>5, <2>1 DEF Kept
<1>8. IsPlace("table", table, p) /\ PtrAt(g, "table", table, p) = b
  BY <1>2, <1>4 DEF IsPlace, PtrAt
<1>9. Trims(rd, f, i, given \cup ({b} \ {NULL}), ({b} \ {NULL}) \ {b})
  BY <1>1, <1>6, <1>7, <1>8, ClearedTrims
<1>10. ({b} \ {NULL}) \ {b} = {}
  OBVIOUS
<1>11. \A c \in Blocks \ {b, table} : f.ptrs[c] = e.ptrs[c]
  BY <1>1, <1>5
<1>12. FromTable(rd, e, f, i, given, table, p, b)
  BY <1>1, <1>2, <1>5, <1>9, <1>10, <1>11 DEF FromTable
<1>. QED  BY <1>3, <1>12 DEF g

LEMMA DropFromInode ==
  ASSUME NEW rd, NEW e, NEW i \in Inums, NEW given, Sound(rd), Trims(rd, e, i, given, {}),
         NEW x, NEW k, IsPlace(x, i, k), x # "table",
         NEW b, b = PtrAt(e, x, i, k), b = NULL \/ (InTree(rd, i, b) /\ b \notin given),
         NEW node \in Nodes,
         node.type = e.inodes[i].type, node.size = e.inodes[i].size,
         \A y, l : IsPlace(y, i, l) /\ y # "table" =>
           NodePtr(node, y, l) = IF y = x /\ l = k THEN NULL ELSE NodePtr(e.inodes[i], y, l)
  PROVE  Trims(rd, [Deallocate(e, b) EXCEPT !.inodes[i] = node], i,
               given \cup ({b} \ {NULL}), {})
<1> DEFINE g == Deallocate(e, b)
           f == [g EXCEPT !.inodes[i] = node]
<1>1. /\ Trims(rd, g, i, given \cup ({b} \ {NULL}), {b} \ {NULL})
      /\ g.inodes = e.inodes
  <2>1. Returned(rd, e, g, i, given, b)
    BY DeallocateMaybe
  <2>. QED  BY <2>1 DEF Returned
<1> HIDE DEF g
<1>2. g \in Disks
  BY <1>1 DEF Trims
<1>3. /\ f \in Disks
      /\ f.pool = g.pool /\ f.free_inodes = g.free_inodes
      /\ f.data = g.data /\ f.ptrs = g.ptrs
      /\ f.inodes[i] = node /\ \A j \in Inums \ {i} : f.inodes[j] = g.inodes[j]
  BY <1>2, InodeReplaced
<1> HIDE DEF f
<1>4. Cleared(g, f, x, i, k, i)
  <2>1. ASSUME NEW y, NEW c, NEW l, IsPlace(y, c, l)
        PROVE  PtrAt(f, y, c, l) = IF y = x /\ c = i /\ l = k THEN NULL ELSE PtrAt(g, y, c, l)
    <3>1. CASE y = "table"
      BY <1>3, <3>1 DEF PtrAt
    <3>2. CASE y # "table" /\ c = i
      BY <1>1, <1>3, <2>1, <3>2 DEF PtrAt
    <3>3. CASE y # "table" /\ c # i
      BY <1>3, <2>1, <3>3 DEF PtrAt, IsPlace
    <3>. QED  BY <3>1, <3>2, <3>3
  <2>. QED  BY <1>1, <1>3, <2>1 DEF Cleared
<1>5. OthersKept(rd, f, i)
  BY <1>1, <1>3 DEF Trims, OthersKept, Kept
<1>6. PtrAt(g, x, i, k) = b
  BY <1>1 DEF PtrAt
<1>7. Trims(rd, f, i, given \cup ({b} \ {NULL}), ({b} \ {NULL}) \ {b})
  BY <1>1, <1>4, <1>5, <1>6, ClearedTrims
<1>8. ({b} \ {NULL}) \ {b} = {}
  OBVIOUS
<1>. QED  BY <1>7, <1>8 DEF f, g

-----------------------------------------------------------------------------
(***************************************************************************)
(* inode_remove_block and inode_reduce_size.                               *)
(***************************************************************************)
Shrinks(rd, e, i) == \E given : Trims(rd, e, i, given, {})

(* Of what inode_remove_block clears, nothing stays marked. *)
Relinquishes(rd, e, i, b) ==
  /\ b \notin Allocated(e)
  /\ rd.inodes[i].indirect \notin Allocated(e) \/ e.inodes[i].indirect = rd.inodes[i].indirect
  /\ e.inodes[i].double = rd.inodes[i].double

(* The inode's own pointers, and those of a table in it, as places *)
LEMMA InodePlaces ==
  ASSUME NEW rd \in Disks, NEW i \in Inums
  PROVE  /\ \A k \in Directs : /\ IsPlace("direct", i, k)
                               /\ PtrAt(rd, "direct", i, k) = rd.inodes[i].direct[k]
         /\ IsPlace("indirect", i, 0) /\ PtrAt(rd, "indirect", i, 0) = rd.inodes[i].indirect
         /\ IsPlace("double", i, 0) /\ PtrAt(rd, "double", i, 0) = rd.inodes[i].double
         /\ \A t \in Blocks, p \in Places : /\ IsPlace("table", t, p)
                                            /\ PtrAt(rd, "table", t, p) = rd.ptrs[t][p]
BY DEF IsPlace, PtrAt, NodePtr

LEMMA NodeCleared ==
  ASSUME NEW node \in Nodes
  PROVE  /\ \A k \in Directs :
              LET n == [node EXCEPT !.direct[k] = NULL] IN
              /\ n \in Nodes /\ n.type = node.type /\ n.size = node.size
              /\ n.indirect = node.indirect /\ n.double = node.double
              /\ n.direct = [node.direct EXCEPT ![k] = NULL]
         /\ LET n == [node EXCEPT !.indirect = NULL] IN
              /\ n \in Nodes /\ n.type = node.type /\ n.size = node.size
              /\ n.indirect = NULL /\ n.double = node.double /\ n.direct = node.direct
         /\ LET n == [node EXCEPT !.double = NULL] IN
              /\ n \in Nodes /\ n.type = node.type /\ n.size = node.size
              /\ n.indirect = node.indirect /\ n.double = NULL /\ n.direct = node.direct
<1>1. NULL \in Ptr
  BY DEF Ptr
<1>2. ASSUME NEW k \in Directs
      PROVE  LET n == [node EXCEPT !.direct[k] = NULL] IN
              /\ n \in Nodes /\ n.type = node.type /\ n.size = node.size
              /\ n.indirect = node.indirect /\ n.double = node.double
              /\ n.direct = [node.direct EXCEPT ![k] = NULL]
  <2> DEFINE ds == [node.direct EXCEPT ![k] = NULL]
             n  == [node EXCEPT !.direct = ds]
  <2>1. ds \in [Directs -> Ptr]
    BY <1>1 DEF Nodes
  <2>2. [node EXCEPT !.direct[k] = NULL] = n
    OBVIOUS
  <2> HIDE DEF ds
  <2>3. /\ n \in Nodes /\ n.type = node.type /\ n.size = node.size
        /\ n.indirect = node.indirect /\ n.double = node.double /\ n.direct = ds
    BY <2>1 DEF Nodes
  <2>. QED  BY <2>2, <2>3 DEF ds
<1>. QED  BY <1>1, <1>2 DEF Nodes

LEMMA RemoveDirectTrims ==
  ASSUME NEW rd, NEW i \in Inums, Sound(rd), NEW k \in Directs
  PROVE  LET f == [Deallocate(rd, rd.inodes[i].direct[k]) EXCEPT !.inodes[i].direct[k] = NULL] IN
         Shrinks(rd, f, i) /\ Relinquishes(rd, f, i, rd.inodes[i].direct[k])
<1> DEFINE b == rd.inodes[i].direct[k]
           node == [rd.inodes[i] EXCEPT !.direct[k] = NULL]
           g == Deallocate(rd, b)
           f == [g EXCEPT !.inodes[i] = node]
<1>1. rd \in Disks /\ Trims(rd, rd, i, {}, {})
  BY TrimsNothing DEF Sound
<1>2. /\ IsPlace("direct", i, k) /\ b = PtrAt(rd, "direct", i, k)
      /\ b = NULL \/ InTree(rd, i, b)
  BY <1>1, InodePlaces, TreePlaces
<1>3. Returned(rd, rd, g, i, {}, b)
  BY <1>1, <1>2, DeallocateMaybe
<1>4. [g EXCEPT !.inodes[i].direct[k] = NULL] = f
  BY <1>3 DEF Returned
<1>5. /\ node \in Nodes /\ node.type = rd.inodes[i].type /\ node.size = rd.inodes[i].size
      /\ node.indirect = rd.inodes[i].indirect /\ node.double = rd.inodes[i].double
      /\ node.direct = [rd.inodes[i].direct EXCEPT ![k] = NULL]
  BY <1>1, NodeCleared, DiskTypes, SMTT(20), ZenonT(40)
<1> HIDE DEF node, b
<1>6. \A y, l : IsPlace(y, i, l) /\ y # "table" =>
        NodePtr(node, y, l) = IF y = "direct" /\ l = k THEN NULL ELSE NodePtr(rd.inodes[i], y, l)
  BY <1>1, <1>5, DiskTypes DEF IsPlace, NodePtr
<1>7. Trims(rd, f, i, {} \cup ({b} \ {NULL}), {})
  BY <1>1, <1>2, <1>5, <1>6, DropFromInode
<1>8. Shrinks(rd, f, i)
  BY <1>7 DEF Shrinks
<1>9. f.inodes[i] = node
  BY <1>1, <1>3 DEF Returned, Disks
<1> HIDE DEF f
<1>10. b \notin Allocated(f)
  BY <1>7, AllocatedFinite DEF Trims
<1>11. Relinquishes(rd, f, i, b)
  BY <1>5, <1>9, <1>10 DEF Relinquishes
<1>. QED  BY <1>4, <1>8, <1>11 DEF b, f

LEMMA RemoveIndirectTrims ==
  ASSUME NEW rd, NEW i \in Inums, Sound(rd), NEW place \in Places
  PROVE  LET e == RemoveIndirect(rd, i, place) IN
         /\ Shrinks(rd, e, i)
         /\ Relinquishes(rd, e, i, BlockAt(rd, rd.inodes[i].indirect, place))
<1> DEFINE table == rd.inodes[i].indirect
           b     == BlockAt(rd, table, place)
           rd1   == ClearPlace(Deallocate(rd, b), table, place)
           node  == [rd.inodes[i] EXCEPT !.indirect = NULL]
           g     == Deallocate(rd1, table)
           f     == [g EXCEPT !.inodes[i] = node]
<1>1. rd \in Disks /\ OnePlace(rd) /\ Trims(rd, rd, i, {}, {})
  BY TrimsNothing DEF Sound
<1>2. \E given : /\ Trims(rd, rd1, i, given, {}) /\ table \notin given
                 /\ rd1.inodes = rd.inodes /\ b \in given \cup {NULL}
  <2>1. CASE table = NULL
    <3>1. rd1 = rd /\ b = NULL
      BY <2>1, DeallocateNull DEF BlockAt, ClearPlace
    <3>. QED  BY <1>1, <3>1
  <2>2. CASE table # NULL
    <3>1. InTree(rd, i, table) /\ (b = NULL \/ InTree(rd, i, b)) /\ b = rd.ptrs[table][place]
      BY <1>1, <2>2, TreePlaces DEF BlockAt
    <3>2. table \in Blocks
      BY <1>1, <2>2, DiskTypes DEF Ptr
    <3>3. b # table
      BY <1>1, <2>2, <3>1, <3>2, InodePlaces DEF OnePlace
    <3>4. FromTable(rd, rd, rd1, i, {}, table, place, b)
      <4> HIDE DEF b, table
      <4>. QED  BY <1>1, <3>1, <3>3, DropFromTable
    <3> HIDE DEF rd1, b, table
    <3>5. table \notin {} \cup ({b} \ {NULL}) /\ b \in ({} \cup ({b} \ {NULL})) \cup {NULL}
      BY <3>3
    <3>. QED  BY <3>4, <3>5 DEF FromTable
  <2>. QED  BY <2>1, <2>2
<1>3. PICK given : /\ Trims(rd, rd1, i, given, {}) /\ table \notin given
                   /\ rd1.inodes = rd.inodes /\ b \in given \cup {NULL}
  BY <1>2
<1> HIDE DEF rd1, b
<1>4. CASE place # 0
  <2>1. RemoveIndirect(rd, i, place) = rd1
    BY <1>4 DEF RemoveIndirect, rd1, b
  <2>2. b \notin Allocated(rd1)
    BY <1>3, AllocatedFinite DEF Trims
  <2>3. Relinquishes(rd, rd1, i, b)
    BY <1>3, <2>2 DEF Relinquishes
  <2>. QED  BY <1>3, <2>1, <2>3 DEF Shrinks, b
<1>5. CASE place = 0
  <2>1. /\ IsPlace("indirect", i, 0) /\ table = PtrAt(rd1, "indirect", i, 0)
        /\ table = NULL \/ InTree(rd, i, table)
    BY <1>1, <1>3, InodePlaces, TreePlaces DEF Trims
  <2>2. Returned(rd, rd1, g, i, given, table)
    BY <1>3, <2>1, DeallocateMaybe
  <2>3. [g EXCEPT !.inodes[i].indirect = NULL] = f
    BY <1>3, <2>2 DEF Returned
  <2>4. RemoveIndirect(rd, i, place) = f
    BY <1>5, <2>3 DEF RemoveIndirect, rd1, b
  <2>5. /\ node \in Nodes /\ node.type = rd.inodes[i].type /\ node.size = rd.inodes[i].size
        /\ node.indirect = NULL /\ node.double = rd.inodes[i].double
        /\ node.direct = rd.inodes[i].direct
    BY <1>1, NodeCleared, DiskTypes
  <2> HIDE DEF node, table
  <2>6. \A y, l : IsPlace(y, i, l) /\ y # "table" =>
          NodePtr(node, y, l) = IF y = "indirect" /\ l = 0 THEN NULL
                                ELSE NodePtr(rd1.inodes[i], y, l)
    BY <1>3, <2>5 DEF IsPlace, NodePtr
  <2>7. Trims(rd, f, i, given \cup ({table} \ {NULL}), {})
    BY <1>3, <2>1, <2>5, <2>6, DropFromInode
  <2>8. f.inodes[i] = node
    BY <1>1, <1>3, <2>2 DEF Returned, Disks
  <2> HIDE DEF f
  <2>9. b \notin Allocated(f) /\ table \notin Allocated(f)
    BY <1>3, <2>7, AllocatedFinite DEF Trims
  <2>10. Relinquishes(rd, f, i, b)
    BY <2>5, <2>8, <2>9 DEF Relinquishes, table
  <2>. QED  BY <2>4, <2>7, <2>10 DEF Shrinks, b, table
<1>. QED  BY <1>4, <1>5

(* The double indirect table, a table in it and a block in that *)
LEMMA DoubleChain ==
  ASSUME NEW rd \in Disks, OnePlace(rd), NEW i \in Inums,
         NEW q \in Places, NEW p \in Places,
         NEW double, double = rd.inodes[i].double,
         NEW table, table = BlockAt(rd, double, q), table # NULL,
         NEW b, b = BlockAt(rd, table, p)
  PROVE  /\ double \in Blocks /\ table \in Blocks /\ b \in Ptr
         /\ table = rd.ptrs[double][q] /\ b = rd.ptrs[table][p]
         /\ InTree(rd, i, double) /\ InTree(rd, i, table)
         /\ b = NULL \/ InTree(rd, i, b)
         /\ table # double /\ b # table /\ b # double
<1>1. double \in Ptr
  BY DiskTypes
<1>2. double # NULL /\ table = rd.ptrs[double][q]
  BY DEF BlockAt
<1>3. double \in Blocks
  BY <1>1, <1>2 DEF Ptr
<1>4. table \in Blocks
  <2>1. rd.ptrs[double][q] \in Ptr
    BY <1>3, DiskTypes
  <2>. QED  BY <1>2, <2>1 DEF Ptr
<1>5. b = rd.ptrs[table][p] /\ b \in Ptr
  BY <1>4, DiskTypes DEF BlockAt
<1>6. Under(rd, double, table) /\ (b # NULL => Under(rd, table, b))
  BY <1>2, <1>5 DEF Under
<1>7. InTree(rd, i, double) /\ InTree(rd, i, table) /\ (b = NULL \/ InTree(rd, i, b))
  BY <1>2, <1>4, <1>6 DEF InTree
<1>8. /\ IsPlace("double", i, 0) /\ PtrAt(rd, "double", i, 0) = double
      /\ IsPlace("table", double, q) /\ PtrAt(rd, "table", double, q) = table
      /\ IsPlace("table", table, p) /\ PtrAt(rd, "table", table, p) = b
  BY <1>2, <1>3, <1>4, <1>5, InodePlaces
<1>9. table # double
  BY <1>8 DEF OnePlace
<1>10. b # NULL => b # double
  BY <1>8 DEF OnePlace
<1>11. b # NULL => b # table
  BY <1>8, <1>9 DEF OnePlace
<1>. QED  BY <1>2, <1>3, <1>4, <1>5, <1>7, <1>9, <1>10, <1>11

LEMMA RemoveDoubleTrims ==
  ASSUME NEW rd, NEW i \in Inums, Sound(rd),
         NEW pos, pos.table \in Places, pos.place \in Places
  PROVE  Shrinks(rd, RemoveDouble(rd, i, pos), i)
<1> DEFINE double == rd.inodes[i].double
           table  == BlockAt(rd, double, pos.table)
           b      == BlockAt(rd, table, pos.place)
           rd1    == ClearPlace(Deallocate(rd, b), table, pos.place)
           rd2    == IF pos.place # 0 THEN rd1
                     ELSE ClearPlace(Deallocate(rd1, table), double, pos.table)
           node   == [rd.inodes[i] EXCEPT !.double = NULL]
           g      == Deallocate(rd2, double)
           f      == [g EXCEPT !.inodes[i] = node]
<1>1. rd \in Disks /\ OnePlace(rd) /\ Trims(rd, rd, i, {}, {})
  BY TrimsNothing DEF Sound
<1>2. CASE table = NULL
  BY <1>1, <1>2 DEF RemoveDouble, Shrinks
<1>3. CASE table # NULL
  <2>1. /\ double \in Blocks /\ table \in Blocks /\ b \in Ptr
        /\ table = rd.ptrs[double][pos.table] /\ b = rd.ptrs[table][pos.place]
        /\ InTree(rd, i, double) /\ InTree(rd, i, table)
        /\ b = NULL \/ InTree(rd, i, b)
        /\ table # double /\ b # table /\ b # double
    BY <1>1, <1>3, DoubleChain
  <2> HIDE DEF double, table, b
  <2>5. FromTable(rd, rd, rd1, i, {}, table, pos.place, b)
    BY <1>1, <2>1, DropFromTable
  <2> HIDE DEF rd1
  <2>6. /\ Trims(rd, rd1, i, {b} \ {NULL}, {})
        /\ rd1.inodes = rd.inodes
        /\ table = rd1.ptrs[double][pos.table]
    <3>1. double \in Blocks \ {b, table}
      BY <2>1
    <3>2. rd1.ptrs[double] = rd.ptrs[double]
      BY <2>5, <3>1 DEF FromTable
    <3>3. {} \cup ({b} \ {NULL}) = {b} \ {NULL}
      OBVIOUS
    <3>. QED  BY <2>1, <2>5, <3>2, <3>3 DEF FromTable
  <2>7. \E given : /\ Trims(rd, rd2, i, given, {}) /\ double \notin given
                   /\ rd2.inodes = rd.inodes
    <3>1. CASE pos.place # 0
      BY <2>1, <2>6, <3>1
    <3>2. CASE pos.place = 0
      <4>1. table \notin {b} \ {NULL} /\ table # double
        BY <2>1
      <4>2. FromTable(rd, rd1, rd2, i, {b} \ {NULL}, double, pos.table, table)
        BY <2>1, <2>6, <3>2, <4>1, DropFromTable
      <4> HIDE DEF rd2
      <4>3. double \notin ({b} \ {NULL}) \cup ({table} \ {NULL})
        BY <2>1
      <4>. QED  BY <2>6, <4>2, <4>3 DEF FromTable
    <3>. QED  BY <3>1, <3>2
  <2>8. PICK given : /\ Trims(rd, rd2, i, given, {}) /\ double \notin given
                     /\ rd2.inodes = rd.inodes
    BY <2>7
  <2>9. RemoveDouble(rd, i, pos)
          = IF pos.table # 0 THEN rd2 ELSE [g EXCEPT !.inodes[i].double = NULL]
    BY <1>3 DEF RemoveDouble, rd1, b, table, double
  <2> HIDE DEF rd2
  <2>10. CASE pos.table # 0
    BY <2>8, <2>9, <2>10 DEF Shrinks
  <2>11. CASE pos.table = 0
    <3>1. IsPlace("double", i, 0) /\ double = PtrAt(rd2, "double", i, 0)
      BY <2>8, InodePlaces DEF Trims, double
    <3>2. Returned(rd, rd2, g, i, given, double)
      BY <2>1, <2>8, <3>1, DeallocateMaybe
    <3>3. [g EXCEPT !.inodes[i].double = NULL] = f
      BY <2>8, <3>2 DEF Returned
    <3>4. /\ node \in Nodes /\ node.type = rd.inodes[i].type /\ node.size = rd.inodes[i].size
          /\ node.indirect = rd.inodes[i].indirect /\ node.double = NULL
          /\ node.direct = rd.inodes[i].direct
      BY <1>1, NodeCleared, DiskTypes
    <3> HIDE DEF node
    <3>5. \A y, l : IsPlace(y, i, l) /\ y # "table" =>
            NodePtr(node, y, l) = IF y = "double" /\ l = 0 THEN NULL
                                  ELSE NodePtr(rd2.inodes[i], y, l)
      BY <2>8, <3>4 DEF IsPlace, NodePtr
    <3>6. /\ node \in Nodes /\ node.type = rd2.inodes[i].type /\ node.size = rd2.inodes[i].size
          /\ InTree(rd, i, double) /\ double \notin given /\ "double" # "table"
      BY <2>1, <2>8, <3>4
    <3>7. Trims(rd, f, i, given \cup ({double} \ {NULL}), {})
      BY <2>8, <3>1, <3>5, <3>6, DropFromInode
    <3>. QED  BY <2>9, <2>11, <3>3, <3>7 DEF Shrinks
  <2>. QED  BY <2>10, <2>11
<1>. QED  BY <1>2, <1>3

LEMMA TruncDivNat ==
  ASSUME NEW m \in Nat, NEW n \in Nat \ {0}
  PROVE  TruncDiv(m, n) = m \div n /\ m \div n \in Nat
BY DEF TruncDiv

LEMMA RemoveBlockShrinks ==
  ASSUME NEW rd, NEW i \in Inums, Sound(rd), rd.inodes[i].size > 0
  PROVE  Shrinks(rd, RemoveBlock(rd, i), i)
<1> DEFINE pos == Position(TruncDiv(rd.inodes[i].size - 1, BLOCK_CELLS))
<1>1. TruncDiv(rd.inodes[i].size - 1, BLOCK_CELLS) \in Nat
  BY TruncDivNat, DiskTypes, InodeAssumption DEF Sound
<1>2. \/ pos.kind = "direct" /\ pos.place \in Directs
      \/ pos.kind = "indirect" /\ pos.place \in Places
      \/ pos.kind = "double" /\ pos.place \in Places /\ pos.table \in Places
      \/ pos.kind = "none"
  BY <1>1, PositionTypes
<1>3. RemoveBlock(rd, i) =
        CASE pos.kind = "direct"   ->
               [Deallocate(rd, rd.inodes[i].direct[pos.place])
                  EXCEPT !.inodes[i].direct[pos.place] = NULL]
          [] pos.kind = "indirect" -> RemoveIndirect(rd, i, pos.place)
          [] pos.kind = "double"   -> RemoveDouble(rd, i, pos)
          [] pos.kind = "none"     -> rd
  BY DEF RemoveBlock
<1> HIDE DEF pos
<1>4. CASE pos.kind = "direct"
  <2>1. RemoveBlock(rd, i) = [Deallocate(rd, rd.inodes[i].direct[pos.place])
                                EXCEPT !.inodes[i].direct[pos.place] = NULL]
    BY <1>3, <1>4
  <2>2. pos.place \in Directs
    BY <1>2, <1>4
  <2>3. \A k \in Directs : Shrinks(rd, [Deallocate(rd, rd.inodes[i].direct[k])
                                          EXCEPT !.inodes[i].direct[k] = NULL], i)
    BY RemoveDirectTrims
  <2>. QED  BY <2>1, <2>2, <2>3
<1>5. CASE pos.kind = "indirect"
  BY <1>2, <1>3, <1>5, RemoveIndirectTrims
<1>6. CASE pos.kind = "double"
  BY <1>2, <1>3, <1>6, RemoveDoubleTrims
<1>7. CASE pos.kind = "none"
  BY <1>3, <1>7, TrimsNothing DEF Shrinks
<1>. QED  BY <1>2, <1>4, <1>5, <1>6, <1>7

(***************************************************************************)
(* What is written to cells, and the size and the type of an inode, have   *)
(* no influence on the blocks.                                             *)
(***************************************************************************)
LEMMA SamePointers ==
  ASSUME NEW rd, NEW e \in Disks, Sound(rd), e.pool = rd.pool,
         \A x, a, k : IsPlace(x, a, k) => PtrAt(e, x, a, k) = PtrAt(rd, x, a, k)
  PROVE  Sound(e) /\ Allocated(e) = Allocated(rd)
<1>1. Allocated(e) = Allocated(rd)
  BY DEF Allocated
<1>. QED  BY <1>1 DEF Sound, OnePlace, PlacedAllocated, PoolExact

Retyped(rd, e, i, node) ==
  /\ Sound(e) /\ Allocated(e) = Allocated(rd)
  /\ e.inodes[i] = node /\ \A j \in Inums \ {i} : e.inodes[j] = rd.inodes[j]
  /\ e.free_inodes = rd.free_inodes
  /\ e.data = rd.data /\ e.ptrs = rd.ptrs

LEMMA RetypedSound ==
  ASSUME NEW rd, Sound(rd), NEW i \in Inums, NEW node \in Nodes,
         node.direct = rd.inodes[i].direct, node.indirect = rd.inodes[i].indirect,
         node.double = rd.inodes[i].double
  PROVE  Retyped(rd, [rd EXCEPT !.inodes[i] = node], i, node)
<1> DEFINE e == [rd EXCEPT !.inodes[i] = node]
<1>1. rd \in Disks
  BY DEF Sound
<1>2. /\ e \in Disks
      /\ e.pool = rd.pool /\ e.free_inodes = rd.free_inodes
      /\ e.data = rd.data /\ e.ptrs = rd.ptrs
      /\ e.inodes[i] = node /\ \A j \in Inums \ {i} : e.inodes[j] = rd.inodes[j]
  BY <1>1, InodeReplaced
<1> HIDE DEF e
<1>3. ASSUME NEW x, NEW a, NEW k, IsPlace(x, a, k)
      PROVE  PtrAt(e, x, a, k) = PtrAt(rd, x, a, k)
  <2>1. CASE x = "table"
    BY <1>2, <2>1 DEF PtrAt
  <2>2. CASE x # "table"
    BY <1>2, <1>3, <2>2 DEF PtrAt, NodePtr, IsPlace
  <2>. QED  BY <2>1, <2>2
<1>4. Sound(e) /\ Allocated(e) = Allocated(rd)
  BY <1>2, <1>3, SamePointers
<1>5. Retyped(rd, e, i, node)
  BY <1>2, <1>4 DEF Retyped
<1>. QED  BY <1>5 DEF e

LEMMA SizeSet ==
  ASSUME NEW rd, Sound(rd), NEW i \in Inums, NEW n \in Nat
  PROVE  Retyped(rd, [rd EXCEPT !.inodes[i].size = n], i, [rd.inodes[i] EXCEPT !.size = n])
<1> DEFINE node == [rd.inodes[i] EXCEPT !.size = n]
<1>1. [rd EXCEPT !.inodes[i].size = n] = [rd EXCEPT !.inodes[i] = node]
  OBVIOUS
<1>2. /\ node \in Nodes /\ node.direct = rd.inodes[i].direct
      /\ node.indirect = rd.inodes[i].indirect /\ node.double = rd.inodes[i].double
  BY DiskTypes DEF Sound, Nodes
<1> HIDE DEF node
<1>3. Retyped(rd, [rd EXCEPT !.inodes[i] = node], i, node)
  BY <1>2, RetypedSound
<1>. QED  BY <1>1, <1>3 DEF node

LEMMA TypeSet ==
  ASSUME NEW rd, Sound(rd), NEW i \in Inums, NEW type \in {UNALLOCATED, FILE, DIR}
  PROVE  Retyped(rd, [rd EXCEPT !.inodes[i].type = type], i, [rd.inodes[i] EXCEPT !.type = type])
<1> DEFINE node == [rd.inodes[i] EXCEPT !.type = type]
<1>1. [rd EXCEPT !.inodes[i].type = type] = [rd EXCEPT !.inodes[i] = node]
  OBVIOUS
<1>2. /\ node \in Nodes /\ node.direct = rd.inodes[i].direct
      /\ node.indirect = rd.inodes[i].indirect /\ node.double = rd.inodes[i].double
  BY DiskTypes DEF Sound, Nodes
<1> HIDE DEF node
<1>3. Retyped(rd, [rd EXCEPT !.inodes[i] = node], i, node)
  BY <1>2, RetypedSound
<1>. QED  BY <1>1, <1>3 DEF node

Rewritten(rd, e, b, cells) ==
  /\ Sound(e) /\ Allocated(e) = Allocated(rd)
  /\ e.inodes = rd.inodes /\ e.free_inodes = rd.free_inodes /\ e.ptrs = rd.ptrs
  /\ e.data = [rd.data EXCEPT ![b] = cells]

LEMMA CellsSet ==
  ASSUME NEW rd, Sound(rd), NEW b \in Blocks, NEW cells \in [Offs -> Cells]
  PROVE  Rewritten(rd, [rd EXCEPT !.data[b] = cells], b, cells)
<1> DEFINE ds == [rd.data EXCEPT ![b] = cells]
           e  == [rd EXCEPT !.data = ds]
<1>1. [rd EXCEPT !.data[b] = cells] = e
  OBVIOUS
<1>2. ds \in [Blocks -> [Offs -> Cells]]
  BY DEF Sound, Disks
<1> HIDE DEF ds
<1>3. /\ e \in Disks /\ e.pool = rd.pool /\ e.free_inodes = rd.free_inodes
      /\ e.inodes = rd.inodes /\ e.data = ds /\ e.ptrs = rd.ptrs
  BY <1>2 DEF Sound, Disks
<1> HIDE DEF e
<1>4. Sound(e) /\ Allocated(e) = Allocated(rd)
  BY <1>3, SamePointers DEF PtrAt
<1>5. Rewritten(rd, e, b, cells)
  BY <1>3, <1>4 DEF Rewritten, ds
<1>. QED  BY <1>1, <1>5

(***************************************************************************)
(* inode_reduce_size, for an inode that is at least as large.              *)
(***************************************************************************)
Resizes(rd, e, i, n) ==
  /\ Sound(e)
  /\ OthersKept(rd, e, i)
  /\ e.free_inodes = rd.free_inodes
  /\ e.inodes[i].type = rd.inodes[i].type /\ e.inodes[i].size = n
  /\ Allocated(e) \subseteq Allocated(rd)

LEMMA ReduceSizeResult ==
  ASSUME NEW rd, Sound(rd), NEW i \in Inums,
         NEW reduce \in Nat, 0 < rd.inodes[i].size, reduce <= rd.inodes[i].size
  PROVE  Resizes(rd, ReduceSize(rd, i, reduce), i, rd.inodes[i].size - reduce)
<1> DEFINE node == rd.inodes[i]
           rd1  == IF GetBlock(rd, node, node.size - 1) = GetBlock(rd, node, node.size - reduce - 1)
                   THEN rd ELSE RemoveBlock(rd, i)
           n    == node.size - reduce
           e    == [rd1 EXCEPT !.inodes[i].size = n]
<1>1. Shrinks(rd, rd1, i)
  BY RemoveBlockShrinks, TrimsNothing DEF Shrinks
<1>2. PICK given : Trims(rd, rd1, i, given, {})
  BY <1>1 DEF Shrinks
<1>3. Sound(rd1) /\ node.size \in Nat /\ n \in Nat
  BY <1>2, TrimsSound, DiskTypes DEF Sound
<1>4. ReduceSize(rd, i, reduce) = [rd1 EXCEPT !.inodes[i].size = @ - reduce]
  BY DEF ReduceSize
<1> HIDE DEF rd1
<1>5. [rd1 EXCEPT !.inodes[i].size = @ - reduce] = e
  <2>1. rd1.inodes[i].size - reduce = n
    BY <1>2 DEF Trims
  <2>2. [rd1 EXCEPT !.inodes[i].size = @ - reduce]
          = [rd1 EXCEPT !.inodes[i].size = rd1.inodes[i].size - reduce]
    OBVIOUS
  <2>. QED  BY <2>1, <2>2
<1>6. Retyped(rd1, e, i, [rd1.inodes[i] EXCEPT !.size = n])
  BY <1>3, SizeSet
<1> HIDE DEF e, n
<1>7. /\ [rd1.inodes[i] EXCEPT !.size = n].size = n
      /\ [rd1.inodes[i] EXCEPT !.size = n].type = rd1.inodes[i].type
  BY <1>3, DiskTypes DEF Sound, Nodes
<1>8. OthersKept(rd, e, i)
  BY <1>2, <1>6 DEF Trims, OthersKept, Kept, Retyped
<1>9. Resizes(rd, e, i, n)
  BY <1>2, <1>6, <1>7, <1>8 DEF Retyped, Trims, Resizes
<1>. QED  BY <1>4, <1>5, <1>9 DEF n

-----------------------------------------------------------------------------
(***************************************************************************)
(* inode_release.  First, that the order in which it gives blocks back     *)
(* names no block twice, only blocks of the tree, and with a block the     *)
(* table it is in.                                                         *)
(***************************************************************************)
LEMMA ConcatOnce ==
  ASSUME NEW S, NEW s \in Seq(S), NEW t \in Seq(S), IsInjective(s), IsInjective(t),
         ToSet(s) \cap ToSet(t) = {}
  PROVE  /\ s \o t \in Seq(S) /\ IsInjective(s \o t)
         /\ ToSet(s \o t) = ToSet(s) \cup ToSet(t)
<1> DEFINE u == s \o t
<1>1. /\ u \in Seq(S) /\ Len(u) = Len(s) + Len(t)
      /\ Len(s) \in Nat /\ Len(t) \in Nat
      /\ \A n \in 1 .. Len(u) : u[n] = IF n <= Len(s) THEN s[n] ELSE t[n - Len(s)]
  BY ConcatProperties, LenProperties
<1>2. DOMAIN s = 1 .. Len(s) /\ DOMAIN t = 1 .. Len(t) /\ DOMAIN u = 1 .. Len(u)
  BY <1>1, LenProperties
<1> HIDE DEF u
<1>3. \A n \in 1 .. Len(u) : n > Len(s) => n - Len(s) \in 1 .. Len(t)
  BY <1>1
<1>4. IsInjective(u)
  <2> SUFFICES ASSUME NEW m \in DOMAIN u, NEW n \in DOMAIN u, u[m] = u[n]
               PROVE  m = n
    BY DEF IsInjective
  <2>1. CASE m <= Len(s) /\ n <= Len(s)
    BY <1>1, <1>2, <2>1 DEF IsInjective
  <2>2. CASE m > Len(s) /\ n > Len(s)
    <3>1. m - Len(s) = n - Len(s)
      BY <1>1, <1>2, <1>3, <2>2, SMTT(30) DEF IsInjective
    <3>. QED  BY <1>1, <1>2, <3>1
  <2>3. ASSUME NEW k \in 1 .. Len(u), k <= Len(s), NEW l \in 1 .. Len(u), l > Len(s)
        PROVE  u[k] # u[l]
    <3>1. u[k] = s[k] /\ k \in 1 .. Len(s)
      BY <1>1, <2>3
    <3>2. u[l] = t[l - Len(s)] /\ l - Len(s) \in 1 .. Len(t)
      BY <1>1, <1>3, <2>3
    <3>3. u[k] \in ToSet(s) /\ u[l] \in ToSet(t)
      BY <1>2, <3>1, <3>2 DEF ToSet
    <3>. QED  BY <3>3
  <2>4. ~ (m <= Len(s)) <=> m > Len(s)
    BY <1>1, <1>2
  <2>5. ~ (n <= Len(s)) <=> n > Len(s)
    BY <1>1, <1>2
  <2>. QED  BY <1>2, <2>1, <2>2, <2>3, <2>4, <2>5
<1>5. ToSet(u) = ToSet(s) \cup ToSet(t)
  <2>1. ToSet(u) \subseteq ToSet(s) \cup ToSet(t)
    <3> SUFFICES ASSUME NEW n \in 1 .. Len(u) PROVE u[n] \in ToSet(s) \cup ToSet(t)
      BY <1>2 DEF ToSet
    <3>1. CASE n <= Len(s)
      <4>1. u[n] = s[n] /\ n \in 1 .. Len(s)
        BY <1>1, <3>1
      <4>. QED  BY <1>2, <4>1 DEF ToSet
    <3>2. CASE n > Len(s)
      <4>1. u[n] = t[n - Len(s)] /\ n - Len(s) \in 1 .. Len(t)
        BY <1>1, <1>3, <3>2
      <4>. QED  BY <1>2, <4>1 DEF ToSet
    <3>. QED  BY <1>1, <3>1, <3>2
  <2>2. ToSet(s) \subseteq ToSet(u)
    <3>1. \A n \in 1 .. Len(s) : n \in 1 .. Len(u) /\ n <= Len(s)
      BY <1>1
    <3>. QED  BY <1>1, <1>2, <3>1 DEF ToSet
  <2>3. ASSUME NEW n \in 1 .. Len(t) PROVE t[n] \in ToSet(u)
    <3>1. n + Len(s) \in 1 .. Len(u) /\ ~ (n + Len(s) <= Len(s)) /\ (n + Len(s)) - Len(s) = n
      BY <1>1
    <3>. QED  BY <1>1, <1>2, <3>1 DEF ToSet
  <2>. QED  BY <1>2, <2>1, <2>2, <2>3 DEF ToSet
<1>. QED  BY <1>1, <1>4, <1>5 DEF u

LEMMA AppendOnce ==
  ASSUME NEW S, NEW s \in Seq(S), NEW b \in S, IsInjective(s), b \notin ToSet(s)
  PROVE  /\ Append(s, b) \in Seq(S) /\ IsInjective(Append(s, b))
         /\ ToSet(Append(s, b)) = ToSet(s) \cup {b}
<1> DEFINE u == Append(s, b)
<1>1. /\ u \in Seq(S) /\ Len(u) = Len(s) + 1 /\ Len(s) \in Nat
      /\ \A n \in 1 .. Len(s) : u[n] = s[n]
      /\ u[Len(s) + 1] = b
  BY AppendProperties, LenProperties
<1>2. DOMAIN s = 1 .. Len(s) /\ DOMAIN u = 1 .. Len(u)
  BY <1>1, LenProperties
<1> HIDE DEF u
<1>3. \A n \in 1 .. Len(u) : n \in 1 .. Len(s) \/ n = Len(s) + 1
  BY <1>1
<1>4. Len(s) + 1 \in 1 .. Len(u) /\ \A n \in 1 .. Len(s) : n \in 1 .. Len(u)
  BY <1>1
<1>5. IsInjective(u)
  BY <1>1, <1>2, <1>3 DEF IsInjective, ToSet
<1>6. ToSet(u) = ToSet(s) \cup {b}
  BY <1>1, <1>2, <1>3, <1>4 DEF ToSet
<1>. QED  BY <1>1, <1>5, <1>6 DEF u

(* No pointer that is not null comes after a null one. *)
InFront(f, n) == \A k, l \in 0 .. n - 1 : k < l /\ f[l] # NULL => f[k] # NULL

(* The loop that stops at the first null pointer *)
LEMMA UpToNullResult ==
  ASSUME NEW n \in Nat, NEW f \in [0 .. n - 1 -> Ptr],
         \A k, l \in 0 .. n - 1 : f[k] = f[l] /\ f[k] # NULL => k = l
  PROVE  /\ UpToNull(f, n) \in Seq(Blocks) /\ IsInjective(UpToNull(f, n))
         /\ Len(UpToNull(f, n)) \in 0 .. n
         /\ \A k \in 1 .. Len(UpToNull(f, n)) : UpToNull(f, n)[k] = f[k - 1]
         /\ \A b \in ToSet(UpToNull(f, n)) : b # NULL /\ \E k \in 0 .. n - 1 : f[k] = b
         /\ (\A k \in 0 .. n - 1 : f[k] # NULL) => Len(UpToNull(f, n)) = n
         /\ InFront(f, n) => \A k \in 0 .. n - 1 : f[k] # NULL => f[k] \in ToSet(UpToNull(f, n))
<1> DEFINE N == {k \in 0 .. n - 1 : f[k] = NULL} \cup {n}
           stop == Min(N)
           s == [k \in 1 .. stop |-> f[k - 1]]
<1>1. stop \in N /\ \A k \in N : stop <= k
  <2>1. N \in SUBSET Nat /\ N # {}
    OBVIOUS
  <2> HIDE DEF N
  <2>. QED  BY <2>1, MinIsLeast
<1>3. UpToNull(f, n) = s
  BY DEF UpToNull
<1> HIDE DEF stop
<1>2. /\ stop \in 0 .. n /\ \A k \in 0 .. n - 1 : k < stop => f[k] # NULL
      /\ stop = n \/ f[stop] = NULL
  BY <1>1
<1>4. \A k \in 1 .. stop : k - 1 \in 0 .. n - 1 /\ f[k - 1] \in Blocks /\ f[k - 1] # NULL
  BY <1>2 DEF Ptr
<1>5. s \in Seq(Blocks) /\ Len(s) = stop /\ DOMAIN s = 1 .. stop
  <2>1. s \in [1 .. stop -> Blocks] /\ stop \in Nat
    BY <1>2, <1>4
  <2>. QED  BY <2>1, IsASeq, LenProperties
<1>6. \A k \in 1 .. stop : s[k] = f[k - 1]
  OBVIOUS
<1> HIDE DEF s
<1>7. IsInjective(s)
  <2> SUFFICES ASSUME NEW k \in 1 .. stop, NEW l \in 1 .. stop, s[k] = s[l]
               PROVE  k = l
    BY <1>5 DEF IsInjective
  <2>1. k - 1 = l - 1
    BY <1>4, <1>6
  <2>. QED  BY <1>2, <2>1
<1>8. \A b \in ToSet(s) : b # NULL /\ \E k \in 0 .. n - 1 : f[k] = b
  BY <1>4, <1>5, <1>6 DEF ToSet
<1>9. ASSUME InFront(f, n), NEW k \in 0 .. n - 1, f[k] # NULL
      PROVE  f[k] \in ToSet(s)
  <2>1. k < stop
    BY <1>2, <1>9 DEF InFront
  <2>2. k + 1 \in 1 .. stop /\ (k + 1) - 1 = k
    BY <1>2, <2>1
  <2>3. s[k + 1] = f[k]
    BY <1>6, <2>2
  <2>. QED  BY <1>5, <2>2, <2>3 DEF ToSet
<1>10. (\A k \in 0 .. n - 1 : f[k] # NULL) => stop = n
  BY <1>2
<1>. QED  BY <1>2, <1>3, <1>5, <1>6, <1>7, <1>8, <1>9, <1>10

(***************************************************************************)
(* Sequences that have nothing in common, one after the other              *)
(***************************************************************************)
Flattens(seqs, f, n) ==
  f = [i \in 1 .. n |-> IF i = 1 THEN seqs[i] ELSE f[i - 1] \o seqs[i]]

LEMMA FlattensExists ==
  ASSUME NEW seqs, NEW m \in Nat
  PROVE  \E f : Flattens(seqs, f, m)
<1> DEFINE Bad == {n \in Nat : ~ \E f : Flattens(seqs, f, n)}
<1> SUFFICES ASSUME Bad # {} PROVE FALSE
  OBVIOUS
<1>1. PICK n \in Bad : \A k \in Bad : n <= k
  <2>1. Bad \in SUBSET Nat
    OBVIOUS
  <2> HIDE DEF Bad
  <2>. QED  BY <2>1, MinIsLeast
<1>2. n # 0
  <2>1. Flattens(seqs, [i \in 1 .. 0 |-> seqs], 0)
    BY DEF Flattens
  <2>. QED  BY <2>1
<1>3. n - 1 \in Nat /\ n - 1 \notin Bad
  BY <1>1, <1>2
<1>4. PICK f : Flattens(seqs, f, n - 1)
  BY <1>3
<1> DEFINE g == [i \in 1 .. n |-> IF i = 1 THEN seqs[i] ELSE f[i - 1] \o seqs[i]]
<1>5. \A i \in 1 .. n - 1 : g[i] = f[i]
  <2>1. \A i \in 1 .. n - 1 : f[i] = IF i = 1 THEN seqs[i] ELSE f[i - 1] \o seqs[i]
    BY <1>4 DEF Flattens
  <2>2. \A i \in 1 .. n - 1 : i \in 1 .. n
    BY <1>1
  <2>. QED  BY <2>1, <2>2
<1>6. \A i \in 1 .. n : i = 1 \/ i - 1 \in 1 .. n - 1
  BY <1>1
<1>7. g = [i \in 1 .. n |-> IF i = 1 THEN seqs[i] ELSE g[i - 1] \o seqs[i]]
  BY <1>5, <1>6
<1>8. Flattens(seqs, g, n)
  BY <1>7 DEF Flattens
<1>. QED  BY <1>1, <1>8

LEMMA FlattenOnce ==
  ASSUME NEW S, NEW seqs \in Seq(Seq(S)),
         \A k \in 1 .. Len(seqs) : IsInjective(seqs[k]),
         \A k, l \in 1 .. Len(seqs) : k # l => ToSet(seqs[k]) \cap ToSet(seqs[l]) = {}
  PROVE  /\ FlattenSeq(seqs) \in Seq(S) /\ IsInjective(FlattenSeq(seqs))
         /\ \A b \in ToSet(FlattenSeq(seqs)) : \E k \in 1 .. Len(seqs) : b \in ToSet(seqs[k])
         /\ \A k \in 1 .. Len(seqs) : ToSet(seqs[k]) \subseteq ToSet(FlattenSeq(seqs))
<1> DEFINE m == Len(seqs)
<1>1. m \in Nat /\ \A k \in 1 .. m : seqs[k] \in Seq(S)
  BY LenProperties, ElementOfSeq
<1>2. CASE m = 0
  <2>1. FlattenSeq(seqs) = seqs /\ seqs = << >>
    BY <1>2 DEF FlattenSeq
  <2>2. << >> \in Seq(S) /\ DOMAIN << >> = {}
    OBVIOUS
  <2>. QED  BY <1>2, <2>1, <2>2 DEF IsInjective, ToSet
<1>3. CASE m # 0
  <2> DEFINE f == CHOOSE f : Flattens(seqs, f, m)
  <2>1. Flattens(seqs, f, m)
    BY <1>1, FlattensExists
  <2>2. FlattenSeq(seqs) = f[m]
    BY <1>3 DEF FlattenSeq, Flattens
  <2> HIDE DEF f
  <2> DEFINE P(k) == /\ f[k] \in Seq(S) /\ IsInjective(f[k])
                     /\ \A b \in ToSet(f[k]) : \E l \in 1 .. k : b \in ToSet(seqs[l])
                     /\ \A l \in 1 .. k : ToSet(seqs[l]) \subseteq ToSet(f[k])
             Bad == {k \in 1 .. m : ~ P(k)}
  <2>3. f[1] = seqs[1] /\ \A k \in 1 .. m : k # 1 => f[k] = f[k - 1] \o seqs[k]
    <3>1. \A k \in 1 .. m : f[k] = IF k = 1 THEN seqs[k] ELSE f[k - 1] \o seqs[k]
      BY <2>1 DEF Flattens
    <3>2. 1 \in 1 .. m
      BY <1>1, <1>3
    <3>. QED  BY <3>1, <3>2
  <2>4. P(1)
    BY <1>1, <1>3, <2>3
  <2>5. ASSUME NEW k \in 1 .. m, k # 1, P(k - 1) PROVE P(k)
    <3>1. k - 1 \in 1 .. m
      BY <1>1, <2>5
    <3>2. ToSet(f[k - 1]) \cap ToSet(seqs[k]) = {}
      <4> SUFFICES ASSUME NEW b \in ToSet(f[k - 1]), b \in ToSet(seqs[k]) PROVE FALSE
        OBVIOUS
      <4>1. PICK l \in 1 .. k - 1 : b \in ToSet(seqs[l])
        BY <2>5
      <4>2. l \in 1 .. m /\ l # k
        BY <1>1
      <4>. QED  BY <4>1, <4>2
    <3>3. f[k - 1] \in Seq(S) /\ seqs[k] \in Seq(S) /\ IsInjective(f[k - 1]) /\ IsInjective(seqs[k])
      BY <1>1, <2>5
    <3>4. /\ f[k - 1] \o seqs[k] \in Seq(S) /\ IsInjective(f[k - 1] \o seqs[k])
          /\ ToSet(f[k - 1] \o seqs[k]) = ToSet(f[k - 1]) \cup ToSet(seqs[k])
      BY <3>2, <3>3, ConcatOnce
    <3>5. f[k] \in Seq(S) /\ IsInjective(f[k]) /\ ToSet(f[k]) = ToSet(f[k - 1]) \cup ToSet(seqs[k])
      BY <2>3, <2>5, <3>4
    <3>6. \A l \in 1 .. k : l = k \/ l \in 1 .. k - 1
      BY <1>1
    <3>7. \A l \in 1 .. k - 1 : l \in 1 .. k
      BY <1>1
    <3>. QED  BY <2>5, <3>5, <3>6, <3>7
  <2> HIDE DEF P
  <2>6. Bad = {}
    <3> SUFFICES ASSUME Bad # {} PROVE FALSE
      OBVIOUS
    <3>1. Bad \in SUBSET Nat
      BY <1>1
    <3>2. PICK k \in Bad : \A l \in Bad : k <= l
      <4> HIDE DEF Bad
      <4>. QED  BY <3>1, MinIsLeast
    <3>3. k # 1
      BY <2>4
    <3>4. k - 1 \in 1 .. m /\ k - 1 \notin Bad
      BY <1>1, <3>2, <3>3
    <3>. QED  BY <2>5, <3>3, <3>4
  <2>7. P(m)
    <3>1. m \in 1 .. m
      BY <1>1, <1>3
    <3>. QED  BY <2>6, <3>1
  <2>. QED  BY <2>2, <2>7 DEF P
<1>. QED  BY <1>2, <1>3

(***************************************************************************)
(* Block b is at a place of kind x in inode or table a.                    *)
(***************************************************************************)
At(rd, x, a, b) == b # NULL /\ \E k : IsPlace(x, a, k) /\ PtrAt(rd, x, a, k) = b

LEMMA OneHome ==
  ASSUME NEW rd \in Disks, OnePlace(rd), NEW x, NEW y, NEW a, NEW c, NEW b,
         At(rd, x, a, b), At(rd, y, c, b)
  PROVE  x = y /\ a = c
BY DEF At, OnePlace

Ordered(rd, i, order) ==
  /\ order \in Seq(Blocks) /\ IsInjective(order)
  /\ \A b \in ToSet(order) :
       /\ InTree(rd, i, b)
       /\ \/ \E x \in {"direct", "indirect", "double"} : At(rd, x, i, b)
          \/ \E t \in ToSet(order) : At(rd, "table", t, b)

(* The pointers of a table are those of its first places. *)
Filled(rd, t) ==
  t # NULL =>
    \A p, q \in Places : q < p /\ rd.ptrs[t][p] # NULL => rd.ptrs[t][q] # NULL

(* No block is twice in a table. *)
LEMMA TableOnce ==
  ASSUME NEW rd \in Disks, OnePlace(rd), NEW t \in Blocks,
         NEW k \in Places, NEW l \in Places,
         rd.ptrs[t][k] = rd.ptrs[t][l], rd.ptrs[t][k] # NULL
  PROVE  k = l
<1>1. /\ IsPlace("table", t, k) /\ PtrAt(rd, "table", t, k) = rd.ptrs[t][k]
      /\ IsPlace("table", t, l) /\ PtrAt(rd, "table", t, l) = rd.ptrs[t][l]
  BY DEF IsPlace, PtrAt
<1>. QED  BY <1>1 DEF OnePlace

LEMMA TableOrderResult ==
  ASSUME NEW rd \in Disks, OnePlace(rd), NEW t \in Blocks, ~ At(rd, "table", t, t)
  PROVE  /\ TableOrder(rd, t) \in Seq(Blocks) /\ IsInjective(TableOrder(rd, t))
         /\ t \in ToSet(TableOrder(rd, t))
         /\ \A b \in ToSet(TableOrder(rd, t)) : b = t \/ (At(rd, "table", t, b) /\ Under(rd, t, b))
         /\ Filled(rd, t) => \A b : b # NULL /\ Under(rd, t, b) => b \in ToSet(TableOrder(rd, t))
<1> DEFINE f == rd.ptrs[t]
           s == UpToNull(f, BLOCK_PTRS)
<1>1. f \in [0 .. BLOCK_PTRS - 1 -> Ptr] /\ BLOCK_PTRS \in Nat
  BY DiskTypes, InodeAssumption DEF Places
<1>2. \A k, l \in 0 .. BLOCK_PTRS - 1 : f[k] = f[l] /\ f[k] # NULL => k = l
  BY TableOnce DEF Places
<1>3. /\ s \in Seq(Blocks) /\ IsInjective(s)
      /\ \A b \in ToSet(s) : b # NULL /\ \E k \in 0 .. BLOCK_PTRS - 1 : f[k] = b
      /\ InFront(f, BLOCK_PTRS) => \A k \in 0 .. BLOCK_PTRS - 1 : f[k] # NULL => f[k] \in ToSet(s)
  <2> HIDE DEF f
  <2>. QED  BY <1>1, <1>2, UpToNullResult
<1>4. t # NULL
  BY DEF Blocks, NULL
<1>5. \A b \in ToSet(s) : At(rd, "table", t, b) /\ Under(rd, t, b)
  BY <1>3, <1>4 DEF At, IsPlace, PtrAt, Places, Under
<1>6. t \notin ToSet(s)
  BY <1>5
<1>7. /\ Append(s, t) \in Seq(Blocks) /\ IsInjective(Append(s, t))
      /\ ToSet(Append(s, t)) = ToSet(s) \cup {t}
  BY <1>3, <1>6, AppendOnce
<1>8. Filled(rd, t) => InFront(f, BLOCK_PTRS)
  BY <1>4 DEF Filled, InFront, Places
<1>9. Filled(rd, t) => \A b : b # NULL /\ Under(rd, t, b) => b \in ToSet(s)
  BY <1>3, <1>8 DEF Under, Places
<1> HIDE DEF s
<1>10. TableOrder(rd, t) = Append(s, t)
  BY DEF TableOrder, s
<1>. QED  BY <1>5, <1>7, <1>9, <1>10

LEMMA DoubleOrderResult ==
  ASSUME NEW rd \in Disks, OnePlace(rd), NEW i \in Inums,
         NEW double, double = rd.inodes[i].double, double # NULL
  PROVE  LET order == DoubleOrder(rd, double) IN
         /\ order \in Seq(Blocks) /\ IsInjective(order)
         /\ \A b \in ToSet(order) :
              /\ InTree(rd, i, b)
              /\ \/ b = double
                 \/ \E t \in ToSet(order) : /\ At(rd, "table", t, b)
                                            /\ t = double \/ At(rd, "table", double, t)
         /\ double \in ToSet(order)
         /\ Filled(rd, double) =>
              \A t \in Blocks : Under(rd, double, t) =>
                /\ t \in ToSet(order)
                /\ Filled(rd, t) => \A b : b # NULL /\ Under(rd, t, b) => b \in ToSet(order)
<1> DEFINE f == rd.ptrs[double]
           tables == UpToNull(f, BLOCK_PTRS)
           m == Len(tables)
           seqs == [t \in 1 .. m |-> TableOrder(rd, tables[t])]
           flat == FlattenSeq(seqs)
<1>1. double \in Blocks /\ At(rd, "double", i, double)
  BY DiskTypes, InodePlaces DEF Ptr, At
<1>2. f \in [0 .. BLOCK_PTRS - 1 -> Ptr] /\ BLOCK_PTRS \in Nat
  BY <1>1, DiskTypes, InodeAssumption DEF Places
<1>3. \A k, l \in 0 .. BLOCK_PTRS - 1 : f[k] = f[l] /\ f[k] # NULL => k = l
  BY <1>1, TableOnce DEF Places
<1>4. /\ tables \in Seq(Blocks) /\ IsInjective(tables)
      /\ \A b \in ToSet(tables) : b # NULL /\ \E k \in 0 .. BLOCK_PTRS - 1 : f[k] = b
      /\ InFront(f, BLOCK_PTRS)
           => \A k \in 0 .. BLOCK_PTRS - 1 : f[k] # NULL => f[k] \in ToSet(tables)
  <2> HIDE DEF f
  <2>. QED  BY <1>2, <1>3, UpToNullResult
<1>5. \A b \in ToSet(tables) : At(rd, "table", double, b) /\ Under(rd, double, b)
  BY <1>1, <1>4 DEF At, IsPlace, PtrAt, Places, Under
<1> HIDE DEF tables
<1>6. m \in Nat /\ DOMAIN tables = 1 .. m /\ \A t \in 1 .. m : tables[t] \in Blocks
  BY <1>4, LenProperties, ElementOfSeq
<1>7. \A t \in 1 .. m : At(rd, "table", double, tables[t]) /\ Under(rd, double, tables[t])
  BY <1>5, <1>6 DEF ToSet
<1>8. \A t \in 1 .. m : tables[t] # double
  BY <1>1, <1>7, OneHome
<1>9. \A t \in 1 .. m : ~ At(rd, "table", tables[t], tables[t])
  BY <1>7, <1>8, OneHome
<1>10. \A t \in 1 .. m :
         /\ seqs[t] \in Seq(Blocks) /\ IsInjective(seqs[t])
         /\ tables[t] \in ToSet(seqs[t])
         /\ \A b \in ToSet(seqs[t]) :
              b = tables[t] \/ (At(rd, "table", tables[t], b) /\ Under(rd, tables[t], b))
         /\ Filled(rd, tables[t]) =>
              \A b : b # NULL /\ Under(rd, tables[t], b) => b \in ToSet(seqs[t])
  BY <1>6, <1>9, TableOrderResult
<1>11. seqs \in Seq(Seq(Blocks)) /\ Len(seqs) = m
  <2>1. seqs \in [1 .. m -> Seq(Blocks)]
    BY <1>10
  <2> HIDE DEF seqs
  <2>. QED  BY <1>6, <2>1, LenProperties
<1> HIDE DEF seqs
<1>12. \A k, l \in 1 .. m : k # l => ToSet(seqs[k]) \cap ToSet(seqs[l]) = {}
  <2> SUFFICES ASSUME NEW k \in 1 .. m, NEW l \in 1 .. m, k # l,
                      NEW b, b \in ToSet(seqs[k]), b \in ToSet(seqs[l])
               PROVE  FALSE
    OBVIOUS
  <2>1. tables[k] # tables[l]
    BY <1>4, <1>6 DEF IsInjective
  <2>2. ASSUME NEW p \in 1 .. m, NEW q \in 1 .. m, b = tables[p], b # tables[q],
               b \in ToSet(seqs[q])
        PROVE  FALSE
    <3>1. At(rd, "table", tables[q], b) /\ At(rd, "table", double, b)
      BY <1>7, <1>10, <2>2
    <3>2. double = tables[q]
      BY <3>1, OneHome
    <3>. QED  BY <1>8, <3>2
  <2>3. b # tables[k] /\ b # tables[l]
    BY <2>1, <2>2
  <2>4. At(rd, "table", tables[k], b) /\ At(rd, "table", tables[l], b)
    BY <1>10, <2>3
  <2>. QED  BY <2>1, <2>4, OneHome
<1>13. /\ flat \in Seq(Blocks) /\ IsInjective(flat)
       /\ \A b \in ToSet(flat) : \E k \in 1 .. m : b \in ToSet(seqs[k])
       /\ \A k \in 1 .. m : ToSet(seqs[k]) \subseteq ToSet(flat)
  BY <1>10, <1>11, <1>12, FlattenOnce
<1> HIDE DEF flat
<1>14. double \notin ToSet(flat)
  <2> SUFFICES ASSUME double \in ToSet(flat) PROVE FALSE
    OBVIOUS
  <2>1. PICK k \in 1 .. m : double \in ToSet(seqs[k])
    BY <1>13
  <2>2. At(rd, "table", tables[k], double)
    BY <1>8, <1>10, <2>1
  <2>. QED  BY <1>1, <2>2, OneHome
<1> DEFINE order == Append(flat, double)
<1>15. /\ order \in Seq(Blocks) /\ IsInjective(order)
       /\ ToSet(order) = ToSet(flat) \cup {double}
  BY <1>1, <1>13, <1>14, AppendOnce
<1>16. DoubleOrder(rd, double) = order
  BY DEF DoubleOrder, flat, seqs, tables
<1> HIDE DEF order
<1>17. ASSUME NEW b \in ToSet(order)
       PROVE  /\ InTree(rd, i, b)
              /\ \/ b = double
                 \/ \E t \in ToSet(order) : /\ At(rd, "table", t, b)
                                            /\ t = double \/ At(rd, "table", double, t)
  <2>1. CASE b = double
    BY <2>1 DEF InTree
  <2>2. CASE b # double
    <3>1. PICK k \in 1 .. m : b \in ToSet(seqs[k])
      BY <1>13, <1>15, <2>2
    <3>2. tables[k] \in ToSet(order) /\ double \in ToSet(order)
      BY <1>10, <1>13, <1>15
    <3>3. CASE b = tables[k]
      BY <1>1, <1>7, <3>2, <3>3 DEF InTree, At
    <3>4. CASE b # tables[k]
      <4>1. At(rd, "table", tables[k], b) /\ Under(rd, tables[k], b) /\ b # NULL
        BY <1>10, <3>1, <3>4 DEF At
      <4>2. Under(rd, double, tables[k]) /\ At(rd, "table", double, tables[k])
        BY <1>7
      <4>. QED  BY <1>6, <3>2, <4>1, <4>2 DEF InTree
    <3>. QED  BY <3>3, <3>4
  <2>. QED  BY <2>1, <2>2
<1>18. ASSUME Filled(rd, double), NEW t \in Blocks, Under(rd, double, t)
       PROVE  /\ t \in ToSet(order)
              /\ Filled(rd, t) => \A b : b # NULL /\ Under(rd, t, b) => b \in ToSet(order)
  <2>1. t # NULL
    BY DEF Blocks, NULL
  <2>2. InFront(f, BLOCK_PTRS)
    BY <1>18 DEF Filled, InFront, Places
  <2>3. t \in ToSet(tables)
    BY <1>4, <1>18, <2>1, <2>2 DEF Under, Places
  <2>4. PICK k \in 1 .. m : tables[k] = t
    BY <1>6, <2>3 DEF ToSet
  <2>. QED  BY <1>10, <1>13, <1>15, <2>4
<1>. QED  BY <1>15, <1>16, <1>17, <1>18

(***************************************************************************)
(* An inode whose tree has no pointer behind one that is null: no direct   *)
(* one, no table while a direct pointer or a table before it is missing,   *)
(* and none in a table.  Then inode_release, which stops at null pointers, *)
(* finds all its blocks.                                                   *)
(***************************************************************************)
TablesFilled(rd, i) ==
  /\ Filled(rd, rd.inodes[i].indirect) /\ Filled(rd, rd.inodes[i].double)
  /\ \A p \in Places : Filled(rd, BlockAt(rd, rd.inodes[i].double, p))

Tight(rd, i) ==
  LET node == rd.inodes[i] IN
  /\ \A p, q \in Directs : q < p /\ node.direct[p] # NULL => node.direct[q] # NULL
  /\ node.indirect # NULL => \A k \in Directs : node.direct[k] # NULL
  /\ node.double # NULL => node.indirect # NULL
  /\ TablesFilled(rd, i)

AllOf(rd, i, order) == \A b : InTree(rd, i, b) => b \in ToSet(order)

LEMMA ReleaseOrderResult ==
  ASSUME NEW rd \in Disks, OnePlace(rd), NEW i \in Inums
  PROVE  /\ Ordered(rd, i, ReleaseOrder(rd, rd.inodes[i]))
         /\ Tight(rd, i) => AllOf(rd, i, ReleaseOrder(rd, rd.inodes[i]))
<1> DEFINE node == rd.inodes[i]
           f == node.direct
           direct == UpToNull(f, DIRECT_POINTERS)
           t == node.indirect
           double == node.double
           single == TableOrder(rd, t)
           twofold == DoubleOrder(rd, double)
           order == ReleaseOrder(rd, node)
<1>1. /\ f \in [0 .. DIRECT_POINTERS - 1 -> Ptr] /\ DIRECT_POINTERS \in Nat
      /\ t \in Ptr /\ double \in Ptr
  BY DiskTypes, InodeAssumption DEF Directs
<1>2. \A k, l \in 0 .. DIRECT_POINTERS - 1 : f[k] = f[l] /\ f[k] # NULL => k = l
  <2> SUFFICES ASSUME NEW k \in Directs, NEW l \in Directs, f[k] = f[l], f[k] # NULL
               PROVE  k = l
    BY DEF Directs
  <2>. QED  BY InodePlaces DEF OnePlace
<1>3. /\ direct \in Seq(Blocks) /\ IsInjective(direct)
      /\ \A b \in ToSet(direct) : b # NULL /\ \E k \in 0 .. DIRECT_POINTERS - 1 : f[k] = b
      /\ (\A k \in 0 .. DIRECT_POINTERS - 1 : f[k] # NULL) => Len(direct) = DIRECT_POINTERS
      /\ InFront(f, DIRECT_POINTERS)
           => \A k \in 0 .. DIRECT_POINTERS - 1 : f[k] # NULL => f[k] \in ToSet(direct)
  <2> HIDE DEF f
  <2>. QED  BY <1>1, <1>2, UpToNullResult
<1>4. \A b \in ToSet(direct) : At(rd, "direct", i, b) /\ InTree(rd, i, b)
  <2> SUFFICES ASSUME NEW b, b # NULL, NEW k \in Directs, f[k] = b
               PROVE  At(rd, "direct", i, b) /\ InTree(rd, i, b)
    BY <1>3 DEF Directs
  <2>. QED  BY InodePlaces DEF At, InTree
<1>5. /\ t # NULL => At(rd, "indirect", i, t) /\ InTree(rd, i, t)
      /\ double # NULL => At(rd, "double", i, double)
  BY InodePlaces DEF At, InTree
<1>6. ASSUME t # NULL
      PROVE  /\ single \in Seq(Blocks) /\ IsInjective(single) /\ t \in ToSet(single)
             /\ \A b \in ToSet(single) : b = t \/ (At(rd, "table", t, b) /\ InTree(rd, i, b))
             /\ Filled(rd, t) => \A b : b # NULL /\ Under(rd, t, b) => b \in ToSet(single)
  <2>1. t \in Blocks
    BY <1>1, <1>6 DEF Ptr
  <2>2. ~ At(rd, "table", t, t)
    BY <1>5, <1>6, OneHome
  <2>3. /\ single \in Seq(Blocks) /\ IsInjective(single) /\ t \in ToSet(single)
        /\ \A b \in ToSet(single) : b = t \/ (At(rd, "table", t, b) /\ Under(rd, t, b))
        /\ Filled(rd, t) => \A b : b # NULL /\ Under(rd, t, b) => b \in ToSet(single)
    BY <2>1, <2>2, TableOrderResult
  <2>. QED  BY <2>3 DEF InTree, At
<1>7. ASSUME double # NULL
      PROVE  /\ twofold \in Seq(Blocks) /\ IsInjective(twofold)
             /\ \A b \in ToSet(twofold) :
                  /\ InTree(rd, i, b)
                  /\ \/ b = double
                     \/ \E s \in ToSet(twofold) : /\ At(rd, "table", s, b)
                                                  /\ s = double \/ At(rd, "table", double, s)
             /\ double \in ToSet(twofold)
             /\ Filled(rd, double) =>
                  \A s \in Blocks : Under(rd, double, s) =>
                    /\ s \in ToSet(twofold)
                    /\ Filled(rd, s) => \A b : b # NULL /\ Under(rd, s, b) => b \in ToSet(twofold)
  BY <1>7, DoubleOrderResult
<1>8. order = IF Len(direct) < DIRECT_POINTERS \/ t = NULL THEN direct
              ELSE direct \o single \o IF double = NULL THEN <<>> ELSE twofold
  BY DEF ReleaseOrder
<1> SUFFICES Ordered(rd, i, order) /\ (Tight(rd, i) => AllOf(rd, i, order))
  OBVIOUS
<1>9. Tight(rd, i) =>
         /\ InFront(f, DIRECT_POINTERS)
         /\ t # NULL => Len(direct) = DIRECT_POINTERS
         /\ double # NULL => t # NULL
         /\ Filled(rd, t) /\ Filled(rd, double)
         /\ \A s : Under(rd, double, s) => Filled(rd, s)
  <2>1. Tight(rd, i) => InFront(f, DIRECT_POINTERS)
    BY DEF Tight, InFront, Directs
  <2>2. Tight(rd, i) /\ t # NULL => Len(direct) = DIRECT_POINTERS
    BY <1>3 DEF Tight, Directs
  <2>. QED  BY <2>1, <2>2 DEF Tight, TablesFilled, Under, BlockAt
<1>10. \A b : InTree(rd, i, b) =>
         /\ b # NULL
         /\ \/ \E k \in 0 .. DIRECT_POINTERS - 1 : f[k] = b
            \/ b = t
            \/ b = double
            \/ Under(rd, t, b)
            \/ Under(rd, double, b) /\ b \in Blocks
            \/ \E s \in Blocks : Under(rd, double, s) /\ Under(rd, s, b)
  <2>1. ASSUME NEW b, b # NULL, Under(rd, double, b) PROVE b \in Blocks
    BY <1>1, <2>1, DiskTypes DEF Under, Ptr
  <2>. QED  BY <2>1 DEF InTree, Directs
<1> HIDE DEF direct, single, twofold, order, t, double
<1>11. CASE Len(direct) < DIRECT_POINTERS \/ t = NULL
  <2>1. Ordered(rd, i, order)
    BY <1>3, <1>4, <1>8, <1>11 DEF Ordered
  <2>2. Tight(rd, i) => t = NULL /\ double = NULL
    <3>1. Len(direct) < DIRECT_POINTERS => Len(direct) # DIRECT_POINTERS
      BY <1>1
    <3>. QED  BY <1>11, <1>9, <3>1
  <2>3. Tight(rd, i) => AllOf(rd, i, order)
    BY <1>3, <1>8, <1>11, <1>9, <1>10, <2>2 DEF AllOf, Under
  <2>. QED  BY <2>1, <2>3
<1>12. CASE ~ (Len(direct) < DIRECT_POINTERS \/ t = NULL)
  <2>1. ToSet(direct) \cap ToSet(single) = {}
    <3> SUFFICES ASSUME NEW b, b \in ToSet(direct), b \in ToSet(single) PROVE FALSE
      OBVIOUS
    <3>1. At(rd, "indirect", i, b) \/ At(rd, "table", t, b)
      BY <1>5, <1>6, <1>12
    <3>. QED  BY <1>4, <3>1, OneHome
  <2> DEFINE first == direct \o single
  <2>2. /\ first \in Seq(Blocks) /\ IsInjective(first)
        /\ ToSet(first) = ToSet(direct) \cup ToSet(single)
    BY <1>3, <1>6, <1>12, <2>1, ConcatOnce
  <2>3. ASSUME NEW b \in ToSet(first)
        PROVE  /\ InTree(rd, i, b)
               /\ At(rd, "direct", i, b) \/ At(rd, "indirect", i, b) \/ At(rd, "table", t, b)
    BY <1>4, <1>5, <1>6, <1>12, <2>2
  <2>4. t \in ToSet(first)
    BY <1>6, <1>12, <2>2
  <2>5. order = first \o IF double = NULL THEN <<>> ELSE twofold
    BY <1>8, <1>12
  <2> HIDE DEF first
  <2>6. Ordered(rd, i, first)
    BY <2>2, <2>3, <2>4 DEF Ordered
  <2>7. Tight(rd, i) =>
          \A b : InTree(rd, i, b) =>
            \/ b \in ToSet(first)
            \/ double # NULL /\ (\/ b = double
                                 \/ Under(rd, double, b) /\ b \in Blocks
                                 \/ \E s \in Blocks : Under(rd, double, s) /\ Under(rd, s, b))
    BY <1>3, <1>6, <1>12, <1>9, <1>10, <2>2 DEF Under
  <2>8. CASE double = NULL
    <3>1. first \o <<>> = first
      BY <2>2, ConcatEmptySeq
    <3>2. Tight(rd, i) => AllOf(rd, i, first)
      BY <2>8, <2>7 DEF AllOf
    <3>. QED  BY <2>5, <2>6, <2>8, <3>1, <3>2
  <2>9. CASE double # NULL
    <3>1. \A b \in ToSet(twofold) :
            \/ At(rd, "double", i, b)
            \/ \E s \in ToSet(twofold) : At(rd, "table", s, b) /\ s # t
      <4>1. double # t
        BY <1>5, <1>12, <2>9, OneHome
      <4>2. ~ At(rd, "table", double, t)
        BY <1>5, <1>12, OneHome
      <4>. QED  BY <1>5, <1>7, <2>9, <4>1, <4>2
    <3>2. ToSet(first) \cap ToSet(twofold) = {}
      <4> SUFFICES ASSUME NEW b, b \in ToSet(first), b \in ToSet(twofold) PROVE FALSE
        OBVIOUS
      <4>1. CASE At(rd, "double", i, b)
        BY <2>3, <4>1, OneHome
      <4>2. CASE \E s \in ToSet(twofold) : At(rd, "table", s, b) /\ s # t
        BY <2>3, <4>2, OneHome
      <4>. QED  BY <3>1, <4>1, <4>2
    <3>3. /\ first \o twofold \in Seq(Blocks) /\ IsInjective(first \o twofold)
          /\ ToSet(first \o twofold) = ToSet(first) \cup ToSet(twofold)
      BY <1>7, <2>2, <2>9, <3>2, ConcatOnce
    <3>4. order = first \o twofold
      BY <2>5, <2>9
    <3>5. \A b \in ToSet(twofold) : InTree(rd, i, b)
      BY <1>7, <2>9
    <3>6. \A b \in ToSet(order) : b \in ToSet(first) \/ b \in ToSet(twofold)
      BY <3>3, <3>4
    <3>7. ToSet(first) \subseteq ToSet(order) /\ ToSet(twofold) \subseteq ToSet(order)
      BY <3>3, <3>4
    <3>8. \A b \in ToSet(order) :
            \/ \E x \in {"direct", "indirect", "double"} : At(rd, x, i, b)
            \/ \E s \in ToSet(order) : At(rd, "table", s, b)
      BY <2>3, <2>4, <3>1, <3>6, <3>7
    <3>9. Tight(rd, i) => AllOf(rd, i, order)
      <4> SUFFICES ASSUME Tight(rd, i), NEW b, InTree(rd, i, b) PROVE b \in ToSet(order)
        BY DEF AllOf
      <4>1. b \in ToSet(first) \/ b \in ToSet(twofold)
        BY <1>7, <1>9, <1>10, <2>9, <2>7
      <4>. QED  BY <3>7, <4>1
    <3>10. Ordered(rd, i, order)
      BY <2>3, <3>3, <3>4, <3>5, <3>6, <3>8 DEF Ordered
    <3>. QED  BY <3>9, <3>10
  <2>. QED  BY <2>8, <2>9
<1>. QED  BY <1>11, <1>12

-----------------------------------------------------------------------------
(***************************************************************************)
(* Giving back the blocks of such an order, one after the other            *)
(***************************************************************************)
Gives(rd, order, f, m) ==
  f = [n \in 0 .. m |-> IF n = 0 THEN rd ELSE Deallocate(f[n - 1], order[n])]

LEMMA GivesExists ==
  ASSUME NEW rd, NEW order, NEW m \in Nat
  PROVE  \E f : Gives(rd, order, f, m)
<1> DEFINE Bad == {n \in Nat : ~ \E f : Gives(rd, order, f, n)}
<1> SUFFICES ASSUME Bad # {} PROVE FALSE
  OBVIOUS
<1>1. PICK n \in Bad : \A k \in Bad : n <= k
  <2>1. Bad \in SUBSET Nat
    OBVIOUS
  <2> HIDE DEF Bad
  <2>. QED  BY <2>1, MinIsLeast
<1>2. n # 0
  <2>1. Gives(rd, order, [k \in 0 .. 0 |-> rd], 0)
    BY DEF Gives
  <2>. QED  BY <2>1
<1>3. n - 1 \in Nat /\ n - 1 \notin Bad
  BY <1>1, <1>2
<1>4. PICK f : Gives(rd, order, f, n - 1)
  BY <1>3
<1> DEFINE g == [k \in 0 .. n |-> IF k = 0 THEN rd ELSE Deallocate(f[k - 1], order[k])]
<1>5. \A k \in 0 .. n - 1 : g[k] = f[k]
  <2>1. \A k \in 0 .. n - 1 : f[k] = IF k = 0 THEN rd ELSE Deallocate(f[k - 1], order[k])
    BY <1>4 DEF Gives
  <2>2. \A k \in 0 .. n - 1 : k \in 0 .. n
    BY <1>1
  <2>. QED  BY <2>1, <2>2
<1>6. \A k \in 0 .. n : k = 0 \/ k - 1 \in 0 .. n - 1
  BY <1>1
<1>7. g = [k \in 0 .. n |-> IF k = 0 THEN rd ELSE Deallocate(g[k - 1], order[k])]
  BY <1>5, <1>6
<1>8. Gives(rd, order, g, n)
  BY <1>7 DEF Gives
<1>. QED  BY <1>1, <1>8

LEMMA GivenBackGives ==
  ASSUME NEW rd, NEW order, Len(order) \in Nat
  PROVE  Gives(rd, order, GivenBack(rd, order), Len(order))
<1> DEFINE f == CHOOSE f : Gives(rd, order, f, Len(order))
<1>1. Gives(rd, order, f, Len(order))
  BY GivesExists
<1>2. GivenBack(rd, order) = f
  BY DEF GivenBack, Gives
<1>. QED  BY <1>1, <1>2

(* The disk after inode_release: the blocks of the tree are given back, the *)
(* pointers to them are still in the inode.                                 *)
Released(rd, e, i, given) ==
  /\ Trims(rd, e, i, given, given)
  /\ e.inodes = rd.inodes
  /\ \A b \in Blocks : e.ptrs[b] = IF b \in given THEN NullPtrs ELSE rd.ptrs[b]

LEMMA ReleaseResult ==
  ASSUME NEW rd, Sound(rd), NEW i \in Inums
  PROVE  Released(rd, Release(rd, i), i, ToSet(ReleaseOrder(rd, rd.inodes[i])))
<1> DEFINE order == ReleaseOrder(rd, rd.inodes[i])
           f == GivenBack(rd, order)
           First(n) == {order[k] : k \in 1 .. n}
           P(n) == Released(rd, f[n], i, First(n))
           m == Len(order)
<1>1. Ordered(rd, i, order)
  BY ReleaseOrderResult DEF Sound
<1>2. Release(rd, i) = f[m]
  BY DEF Release
<1> HIDE DEF order
<1>3. /\ order \in Seq(Blocks) /\ m \in Nat /\ DOMAIN order = 1 .. m
      /\ IsInjective(order)
      /\ \A k \in 1 .. m : order[k] \in Blocks /\ InTree(rd, i, order[k])
  <2>1. order \in Seq(Blocks) /\ m \in Nat /\ DOMAIN order = 1 .. m
    BY <1>1, LenProperties DEF Ordered
  <2>. QED  BY <1>1, <2>1, ElementOfSeq DEF Ordered, ToSet
<1>4. Gives(rd, order, f, m)
  BY <1>3, GivenBackGives
<1> HIDE DEF f
<1>5. \A n \in 0 .. m : f[n] = IF n = 0 THEN rd ELSE Deallocate(f[n - 1], order[n])
  BY <1>4 DEF Gives
<1>6. P(0)
  <2>1. f[0] = rd /\ First(0) = {}
    BY <1>3, <1>5
  <2> HIDE DEF First
  <2>. QED  BY <2>1, TrimsNothing DEF Released
<1>7. ASSUME NEW n \in 1 .. m, P(n - 1) PROVE P(n)
  <2> DEFINE b == order[n]
             e == f[n - 1]
             given == First(n - 1)
             g == Deallocate(e, b)
  <2>1. b \in Blocks /\ InTree(rd, i, b) /\ b \notin given
    <3>1. \A k \in 1 .. n - 1 : k \in 1 .. m /\ k # n
      BY <1>3
    <3>. QED  BY <1>3, <3>1 DEF IsInjective
  <2>2. First(n) = given \cup {b}
    <3>1. \A k \in 1 .. n : k \in 1 .. n - 1 \/ k = n
      BY <1>3
    <3>2. \A k \in 1 .. n - 1 : k \in 1 .. n
      BY <1>3
    <3>. QED  BY <1>3, <3>1, <3>2
  <2>3. f[n] = g
    BY <1>3, <1>5
  <2> HIDE DEF First, b, e, given, P
  <2>4. Released(rd, e, i, given)
    BY <1>7 DEF P, e, given
  <2>5. Trims(rd, g, i, given \cup {b}, given \cup {b})
    BY <2>1, <2>4, DeallocateTrims DEF Released
  <2>6. g.inodes = e.inodes /\ g.ptrs = [e.ptrs EXCEPT ![b] = NullPtrs] /\ e \in Disks
    BY <2>1, <2>4, DeallocateResult DEF Released, Trims
  <2> HIDE DEF g
  <2>7. \A c \in Blocks : g.ptrs[c] = IF c \in given \cup {b} THEN NullPtrs ELSE rd.ptrs[c]
    BY <2>4, <2>6 DEF Released, Disks
  <2>8. Released(rd, g, i, given \cup {b})
    BY <2>4, <2>5, <2>6, <2>7 DEF Released
  <2>. QED  BY <2>2, <2>3, <2>8 DEF P
<1> HIDE DEF P
<1>8. \A n \in 0 .. m : P(n)
  <2> DEFINE Bad == {n \in 0 .. m : ~ P(n)}
  <2> SUFFICES ASSUME Bad # {} PROVE FALSE
    OBVIOUS
  <2>1. Bad \in SUBSET Nat
    BY <1>3
  <2>2. PICK n \in Bad : \A k \in Bad : n <= k
    <3> HIDE DEF Bad
    <3>. QED  BY <2>1, MinIsLeast
  <2>3. n # 0
    BY <1>6
  <2>4. n \in 1 .. m /\ n - 1 \in 0 .. m /\ n - 1 \notin Bad
    BY <1>3, <2>2, <2>3
  <2>. QED  BY <1>7, <2>2, <2>4
<1>9. P(m)
  <2>1. m \in 0 .. m
    BY <1>3
  <2>. QED  BY <1>8, <2>1
<1>10. First(m) = ToSet(order)
  BY <1>3 DEF ToSet
<1> HIDE DEF First
<1>. QED  BY <1>2, <1>9, <1>10 DEF P, order

(***************************************************************************)
(* With _ramdisk_deallocate_inode, which clears the inode, the disk is     *)
(* sound again: no pointer is left to a block that was given back.         *)
(***************************************************************************)
Freed(rd, e, i, n) ==
  /\ Sound(e)
  /\ OthersKept(rd, e, i)
  /\ \A j \in Inums \ {i} : e.inodes[j] = rd.inodes[j]
  /\ e.inodes[i] = InitialInode
  /\ e.free_inodes = n
  /\ Allocated(e) \subseteq Allocated(rd)
  /\ Tight(rd, i) => \A b \in Allocated(e) : ~ InTree(rd, i, b)

LEMMA InitialInodeType == InitialInode \in Nodes
BY DEF InitialInode, Nodes, Ptr

LEMMA FreedResult ==
  ASSUME NEW rd, Sound(rd), NEW i \in Inums, NEW n \in Int
  PROVE  Freed(rd, [Release(rd, i) EXCEPT !.inodes[i] = InitialInode, !.free_inodes = n], i, n)
<1> DEFINE order == ReleaseOrder(rd, rd.inodes[i])
           given == ToSet(order)
           e == Release(rd, i)
           z == [e EXCEPT !.inodes[i] = InitialInode, !.free_inodes = n]
           ns == [e.inodes EXCEPT ![i] = InitialInode]
<1>1. Released(rd, e, i, given)
  BY ReleaseResult
<1>2. Ordered(rd, i, order) /\ (Tight(rd, i) => AllOf(rd, i, order))
  BY ReleaseOrderResult DEF Sound
<1> HIDE DEF order, e
<1>3. e \in Disks /\ rd \in Disks /\ OnePlace(rd) /\ e.inodes = rd.inodes
  BY <1>1 DEF Released, Trims, Sound
<1>4. /\ ns \in [Inums -> Nodes] /\ ns[i] = InitialInode
      /\ \A j \in Inums \ {i} : ns[j] = rd.inodes[j]
  BY <1>3, InitialInodeType DEF Disks
<1>5. z = [e EXCEPT !.inodes = ns, !.free_inodes = n]
  OBVIOUS
<1> HIDE DEF ns
<1>6. /\ z \in Disks /\ z.pool = e.pool /\ z.free_inodes = n
      /\ z.inodes = ns /\ z.data = e.data /\ z.ptrs = e.ptrs
  BY <1>3, <1>4, <1>5 DEF Disks
<1> HIDE DEF z, given
<1>7. Allocated(z) = Allocated(e) /\ Allocated(e) = Allocated(rd) \ given
  BY <1>1, <1>6 DEF Allocated, Released, Trims
<1>8. ASSUME NEW x, NEW a, NEW k, IsPlace(x, a, k), PtrAt(z, x, a, k) # NULL
      PROVE  /\ PtrAt(z, x, a, k) = PtrAt(rd, x, a, k)
             /\ x = "table" => a \notin given
             /\ x # "table" => a # i
  <2>1. CASE x = "table"
    <3>1. a \in Blocks /\ k \in Places /\ PtrAt(z, x, a, k) = e.ptrs[a][k]
      BY <1>6, <1>8, <2>1 DEF IsPlace, PtrAt
    <3>2. a \notin given
      BY <1>1, <1>8, <3>1 DEF Released, NullPtrs
    <3>. QED  BY <1>1, <2>1, <3>1, <3>2 DEF Released, PtrAt
  <2>2. CASE x # "table" /\ a = i
    <3>1. NodePtr(InitialInode, x, k) = NULL
      BY <1>8, <2>2 DEF NodePtr, InitialInode, IsPlace
    <3>. QED  BY <1>4, <1>6, <1>8, <2>2, <3>1 DEF PtrAt
  <2>3. CASE x # "table" /\ a # i
    <3>1. a \in Inums \ {i}
      BY <1>8, <2>3 DEF IsPlace
    <3>. QED  BY <1>4, <1>6, <2>3, <3>1 DEF PtrAt
  <2>. QED  BY <2>1, <2>2, <2>3
<1>9. OnePlace(z)
  BY <1>3, <1>8 DEF OnePlace
<1>10. PlacedAllocated(z)
  <2> SUFFICES ASSUME NEW x, NEW a, NEW k, IsPlace(x, a, k), PtrAt(z, x, a, k) # NULL
               PROVE  PtrAt(z, x, a, k) \in Allocated(z)
    BY DEF PlacedAllocated
  <2> DEFINE b == PtrAt(z, x, a, k)
  <2>1. b \in Allocated(rd)
    BY <1>8 DEF Sound, PlacedAllocated
  <2>2. At(rd, x, a, b)
    BY <1>8 DEF At
  <2> HIDE DEF b
  <2>3. ASSUME b \in given PROVE FALSE
    <3>1. CASE \E y \in {"direct", "indirect", "double"} : At(rd, y, i, b)
      <4>1. x # "table" /\ a = i
        BY <1>3, <2>2, <3>1, OneHome
      <4>. QED  BY <1>8, <4>1
    <3>2. CASE \E t \in given : At(rd, "table", t, b)
      <4>1. x = "table" /\ a \in given
        BY <1>3, <2>2, <3>2, OneHome
      <4>. QED  BY <1>8, <4>1
    <3>. QED  BY <1>2, <2>3, <3>1, <3>2 DEF Ordered, given
  <2>. QED  BY <1>7, <2>1, <2>3 DEF b
<1>11. PoolExact(z)
  BY <1>1, <1>6, <1>7 DEF PoolExact, Released, Trims
<1>12. OthersKept(rd, z, i)
  <2>1. OthersKept(rd, e, i)
    BY <1>1 DEF Released, Trims
  <2>. QED  BY <1>4, <1>6, <2>1 DEF OthersKept, Kept
<1>13. Tight(rd, i) => \A b \in Allocated(z) : ~ InTree(rd, i, b)
  BY <1>2, <1>7 DEF AllOf, given
<1>14. Freed(rd, z, i, n)
  BY <1>4, <1>6, <1>7, <1>9, <1>10, <1>11, <1>12, <1>13 DEF Freed, Sound
<1>. QED  BY <1>14 DEF z, e

=============================================================================

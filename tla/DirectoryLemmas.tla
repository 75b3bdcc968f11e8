-------------------------- MODULE DirectoryLemmas --------------------------
(***************************************************************************)
(* What the operators of Directory do to a disk whose directories are in   *)
(* order, and what adding a block does to a file of any shape.  A          *)
(* directory is so small that all its blocks are among the Near ones, in   *)
(* the inode or in the indirect table; a file uses the double indirect     *)
(* table as well.  The entry or cell at position Slot(k, o) is cell o of   *)
(* block number k.                                                         *)
(***************************************************************************)
EXTENDS Directory, InodeLemmas

Near == 0 .. DIRECT_POINTERS + BLOCK_PTRS - 1

Slot(k, o) == k * BLOCK_CELLS + o

-----------------------------------------------------------------------------
(* Positions, and the blocks and cells they are in *)
LEMMA SlotOrder ==
  ASSUME NEW k \in Nat, NEW l \in Nat, NEW o \in Offs, NEW q \in Offs
  PROVE  /\ Slot(k, o) \in Nat
         /\ k < l => Slot(k, o) < Slot(l, q)
         /\ Slot(k, o) = Slot(l, q) => k = l /\ o = q
         /\ Slot(k, 0) = k * BLOCK_CELLS /\ Slot(k, o) = Slot(k, 0) + o
         /\ Slot(k + 1, 0) = Slot(k, 0) + BLOCK_CELLS
<1>1. BLOCK_CELLS \in Nat \ {0, 1} /\ o \in 0 .. BLOCK_CELLS - 1 /\ q \in 0 .. BLOCK_CELLS - 1
  BY InodeAssumption DEF Offs
<1>2. ASSUME NEW m \in Nat, NEW n \in Nat, m < n
      PROVE  m * BLOCK_CELLS + BLOCK_CELLS <= n * BLOCK_CELLS
  <2>1. PICK d \in Nat : n = m + 1 + d
    <3>1. n - m - 1 \in Nat /\ n = m + 1 + (n - m - 1)
      BY <1>2
    <3>. QED  BY <3>1
  <2>2. n * BLOCK_CELLS = m * BLOCK_CELLS + BLOCK_CELLS + d * BLOCK_CELLS
    BY <2>1, <1>1
  <2>3. d * BLOCK_CELLS \in Nat /\ m * BLOCK_CELLS \in Nat
    BY <2>1, <1>1
  <2>. QED  BY <2>2, <2>3, <1>1
<1>3. k * BLOCK_CELLS \in Nat /\ l * BLOCK_CELLS \in Nat
      /\ (k + 1) * BLOCK_CELLS = k * BLOCK_CELLS + BLOCK_CELLS
  BY <1>1
<1>4. k < l => k * BLOCK_CELLS + BLOCK_CELLS <= l * BLOCK_CELLS
  BY <1>2
<1>5. l < k => l * BLOCK_CELLS + BLOCK_CELLS <= k * BLOCK_CELLS
  BY <1>2
<1>6. Slot(k, o) = k * BLOCK_CELLS + o /\ Slot(l, q) = l * BLOCK_CELLS + q
      /\ Slot(k, 0) = k * BLOCK_CELLS /\ Slot(k + 1, 0) = (k + 1) * BLOCK_CELLS
  BY <1>1, <1>3 DEF Slot
<1>7. k < l => Slot(k, o) < Slot(l, q)
  BY <1>1, <1>3, <1>4, <1>6
<1>8. l < k => Slot(l, q) < Slot(k, o)
  BY <1>1, <1>3, <1>5, <1>6
<1>9. k = l \/ k < l \/ l < k
  OBVIOUS
<1>10. Slot(k, o) = Slot(l, q) => k = l /\ o = q
  BY <1>1, <1>3, <1>6, <1>7, <1>8, <1>9
<1>. QED  BY <1>1, <1>3, <1>6, <1>7, <1>10

LEMMA SlotOf ==
  ASSUME NEW p \in Nat
  PROVE  /\ p \div BLOCK_CELLS \in Nat /\ p % BLOCK_CELLS \in Offs
         /\ p = Slot(p \div BLOCK_CELLS, p % BLOCK_CELLS)
         /\ TruncDiv(p, BLOCK_CELLS) = p \div BLOCK_CELLS
<1>1. BLOCK_CELLS \in Nat \ {0, 1}
  BY InodeAssumption
<1>2. p = BLOCK_CELLS * (p \div BLOCK_CELLS) + (p % BLOCK_CELLS)
  BY <1>1
<1>3. p % BLOCK_CELLS \in 0 .. BLOCK_CELLS - 1 /\ p \div BLOCK_CELLS \in Int
  BY <1>1
<1>4. TruncDiv(p, BLOCK_CELLS) = p \div BLOCK_CELLS /\ p \div BLOCK_CELLS \in Nat
  BY <1>1, TruncDivNat
<1>5. BLOCK_CELLS * (p \div BLOCK_CELLS) = (p \div BLOCK_CELLS) * BLOCK_CELLS
  BY <1>1, <1>4
<1>. QED  BY <1>2, <1>3, <1>4, <1>5 DEF Slot, Offs

LEMMA SlotParts ==
  ASSUME NEW k \in Nat, NEW o \in Offs
  PROVE  Slot(k, o) \div BLOCK_CELLS = k /\ Slot(k, o) % BLOCK_CELLS = o
<1>1. Slot(k, o) \in Nat
  BY SlotOrder
<1>2. /\ Slot(k, o) \div BLOCK_CELLS \in Nat /\ Slot(k, o) % BLOCK_CELLS \in Offs
      /\ Slot(k, o) = Slot(Slot(k, o) \div BLOCK_CELLS, Slot(k, o) % BLOCK_CELLS)
  BY <1>1, SlotOf
<1>. QED  BY <1>2, SlotOrder

(* What is below the reach of the near blocks is in one of them. *)
LEMMA SlotNear ==
  ASSUME NEW p \in Nat, p < (DIRECT_POINTERS + BLOCK_PTRS) * BLOCK_CELLS
  PROVE  p \div BLOCK_CELLS \in Near
<1>1. BLOCK_CELLS \in Nat \ {0, 1} /\ DIRECT_POINTERS + BLOCK_PTRS \in Nat
  BY InodeAssumption
<1>2. p \div BLOCK_CELLS \in Nat /\ p % BLOCK_CELLS \in Offs
      /\ p = Slot(p \div BLOCK_CELLS, p % BLOCK_CELLS)
  BY SlotOf
<1>3. 0 \in Offs
  BY <1>1 DEF Offs
<1>4. Slot(DIRECT_POINTERS + BLOCK_PTRS, 0) = (DIRECT_POINTERS + BLOCK_PTRS) * BLOCK_CELLS
  BY <1>1, <1>3, SlotOrder
<1>5. ~ (DIRECT_POINTERS + BLOCK_PTRS < p \div BLOCK_CELLS)
  <2>1. DIRECT_POINTERS + BLOCK_PTRS < p \div BLOCK_CELLS
          => Slot(DIRECT_POINTERS + BLOCK_PTRS, 0) < Slot(p \div BLOCK_CELLS, p % BLOCK_CELLS)
    BY <1>1, <1>2, <1>3, SlotOrder
  <2>2. Slot(DIRECT_POINTERS + BLOCK_PTRS, 0) \in Nat
    BY <1>1, <1>3, SlotOrder
  <2>. QED  BY <2>1, <2>2, <1>2, <1>4
<1>6. DIRECT_POINTERS + BLOCK_PTRS # p \div BLOCK_CELLS
  <2>1. SUFFICES ASSUME DIRECT_POINTERS + BLOCK_PTRS = p \div BLOCK_CELLS PROVE FALSE
    OBVIOUS
  <2>2. p = Slot(DIRECT_POINTERS + BLOCK_PTRS, 0) + (p % BLOCK_CELLS)
    BY <1>1, <1>2, <2>1, SlotOrder
  <2>3. Slot(DIRECT_POINTERS + BLOCK_PTRS, 0) \in Nat
    BY <1>1, <1>3, SlotOrder
  <2>4. p % BLOCK_CELLS \in Nat
    BY <1>1, <1>2 DEF Offs
  <2>. QED  BY <2>2, <2>3, <2>4, <1>4
<1> DEFINE k == p \div BLOCK_CELLS
           n == DIRECT_POINTERS + BLOCK_PTRS
<1>7. k \in Nat /\ n \in Nat /\ ~ (n < k) /\ n # k
  BY <1>1, <1>2, <1>5, <1>6
<1> HIDE DEF k
<1>8. k \in 0 .. n - 1
  BY <1>7
<1>9. k \in Near
  BY <1>8, InodeAssumption DEF Near
<1>. QED  BY <1>9 DEF k

-----------------------------------------------------------------------------
(* Block number k of inode i *)
Blk(rd, i, k) == BlockIn(rd, rd.inodes[i], Position(k))

LEMMA NearTypes ==
  ASSUME NEW k \in Near
  PROVE  /\ k \in Nat /\ DIRECT_POINTERS \in Nat
         /\ k < DIRECT_POINTERS => k \in Directs
         /\ ~ (k < DIRECT_POINTERS) => k - DIRECT_POINTERS \in Places
BY InodeAssumption DEF Near, Directs, Places

LEMMA NearPosition ==
  ASSUME NEW k \in Near
  PROVE  Position(k) = IF k < DIRECT_POINTERS
                       THEN [kind |-> "direct", table |-> 0, place |-> k]
                       ELSE [kind |-> "indirect", table |-> 0, place |-> k - DIRECT_POINTERS]
<1>1. k \in 0 .. DIRECT_POINTERS + BLOCK_PTRS - 1
  BY DEF Near
<1>. QED  BY <1>1, InodeAssumption DEF Position

LEMMA NearBlk ==
  ASSUME NEW rd, NEW i, NEW k \in Near
  PROVE  Blk(rd, i, k) = IF k < DIRECT_POINTERS THEN rd.inodes[i].direct[k]
                         ELSE BlockAt(rd, rd.inodes[i].indirect, k - DIRECT_POINTERS)
BY NearPosition DEF Blk, BlockIn

LEMMA NearBlkTree ==
  ASSUME NEW rd \in Disks, NEW i \in Inums, NEW k \in Near
  PROVE  /\ Blk(rd, i, k) \in Ptr
         /\ Blk(rd, i, k) # NULL => Blk(rd, i, k) \in Blocks /\ InTree(rd, i, Blk(rd, i, k))
<1> DEFINE node == rd.inodes[i]
           q == k - DIRECT_POINTERS
<1>1. CASE k < DIRECT_POINTERS
  <2>1. k \in Directs /\ Blk(rd, i, k) = node.direct[k]
    BY <1>1, NearTypes, NearBlk
  <2>2. node.direct[k] \in Ptr
    BY <2>1, DiskTypes
  <2>3. node.direct[k] # NULL => InTree(rd, i, node.direct[k])
    BY <2>1, TreePlaces
  <2>. QED  BY <2>1, <2>2, <2>3 DEF Ptr
<1>2. CASE ~ (k < DIRECT_POINTERS)
  <2>1. q \in Places /\ Blk(rd, i, k) = BlockAt(rd, node.indirect, q)
    BY <1>2, NearTypes, NearBlk
  <2>2. BlockAt(rd, node.indirect, q) # NULL => InTree(rd, i, BlockAt(rd, node.indirect, q))
    BY <2>1, TreePlaces
  <2>3. node.indirect \in Ptr
    BY DiskTypes
  <2>4. node.indirect # NULL => rd.ptrs[node.indirect][q] \in Ptr
    BY <2>1, <2>3, DiskTypes DEF Ptr
  <2>5. BlockAt(rd, node.indirect, q) \in Ptr
    BY <2>4 DEF BlockAt, Ptr
  <2>. QED  BY <2>1, <2>2, <2>5 DEF Ptr
<1>. QED  BY <1>1, <1>2

(* A block has one number. *)
LEMMA NearBlkOnce ==
  ASSUME NEW rd \in Disks, OnePlace(rd), NEW i \in Inums, NEW k \in Near, NEW l \in Near,
         Blk(rd, i, k) = Blk(rd, i, l), Blk(rd, i, k) # NULL
  PROVE  k = l
<1> DEFINE Kind(m)  == IF m < DIRECT_POINTERS THEN "direct" ELSE "table"
           Home(m)  == IF m < DIRECT_POINTERS THEN i ELSE rd.inodes[i].indirect
           Place(m) == IF m < DIRECT_POINTERS THEN m ELSE m - DIRECT_POINTERS
<1>1. ASSUME NEW m \in Near, Blk(rd, i, m) # NULL
      PROVE  /\ IsPlace(Kind(m), Home(m), Place(m))
             /\ PtrAt(rd, Kind(m), Home(m), Place(m)) = Blk(rd, i, m)
  <2>1. CASE m < DIRECT_POINTERS
    <3>1. m \in Directs /\ Blk(rd, i, m) = rd.inodes[i].direct[m]
      BY <2>1, NearTypes, NearBlk
    <3>. QED  BY <2>1, <3>1, InodePlaces
  <2>2. CASE ~ (m < DIRECT_POINTERS)
    <3>1. m - DIRECT_POINTERS \in Places
          /\ Blk(rd, i, m) = BlockAt(rd, rd.inodes[i].indirect, m - DIRECT_POINTERS)
      BY <2>2, NearTypes, NearBlk
    <3>2. rd.inodes[i].indirect \in Blocks
      BY <1>1, <3>1, DiskTypes DEF BlockAt, Ptr
    <3>3. Blk(rd, i, m) = rd.ptrs[rd.inodes[i].indirect][m - DIRECT_POINTERS]
      BY <1>1, <3>1 DEF BlockAt
    <3>. QED  BY <2>2, <3>1, <3>2, <3>3, InodePlaces
  <2>. QED  BY <2>1, <2>2
<1>2. /\ IsPlace(Kind(k), Home(k), Place(k)) /\ PtrAt(rd, Kind(k), Home(k), Place(k)) = Blk(rd, i, k)
      /\ IsPlace(Kind(l), Home(l), Place(l)) /\ PtrAt(rd, Kind(l), Home(l), Place(l)) = Blk(rd, i, l)
  BY <1>1
<1> HIDE DEF Kind, Home, Place
<1>3. Kind(k) = Kind(l) /\ Place(k) = Place(l)
  BY <1>2 DEF OnePlace
<1>4. k \in Nat /\ l \in Nat /\ DIRECT_POINTERS \in Nat
  BY NearTypes
<1>. QED  BY <1>3, <1>4 DEF Kind, Place

(***************************************************************************)
(* inode_get_block_for_byte_index, in terms of block numbers               *)
(***************************************************************************)
LEMMA GetBlockIsBlk ==
  ASSUME NEW rd, NEW i, NEW p \in Nat
  PROVE  GetBlock(rd, rd.inodes[i], p) = Blk(rd, i, p \div BLOCK_CELLS)
BY SlotOf DEF GetBlock, Blk

LEMMA GetBlockTree ==
  ASSUME NEW rd \in Disks, OnePlace(rd), NEW i \in Inums, NEW p \in Nat
  PROVE  LET b == GetBlock(rd, rd.inodes[i], p) IN
         b \in Ptr /\ (b # NULL => b \in Blocks /\ InTree(rd, i, b))
<1> DEFINE k == p \div BLOCK_CELLS
           pos == Position(k)
           node == rd.inodes[i]
           b == GetBlock(rd, rd.inodes[i], p)
<1>1. k \in Nat
  BY SlotOf
<1>2. b = BlockIn(rd, node, pos)
  BY GetBlockIsBlk DEF Blk
<1> HIDE DEF k
<1>3. \/ pos.kind = "direct" /\ pos.place \in Directs /\ pos.table = 0
      \/ pos.kind = "indirect" /\ pos.place \in Places /\ pos.table = 0
      \/ pos.kind = "double" /\ pos.place \in Places /\ pos.table \in Places
      \/ pos.kind = "none"
  BY <1>1, PositionTypes
<1> HIDE DEF pos, b
<1>4. node.direct \in [Directs -> Ptr] /\ node.indirect \in Ptr /\ node.double \in Ptr
  BY DiskTypes
<1>5. SUFFICES b \in Ptr /\ (b # NULL => InTree(rd, i, b))
  BY DEF Ptr, b
<1>6. CASE pos.kind = "direct" /\ pos.place \in Directs
  <2>1. b = node.direct[pos.place]
    BY <1>2, <1>6 DEF BlockIn
  <2>. QED  BY <2>1, <1>4, <1>6, TreePlaces
<1>7. CASE pos.kind = "indirect" /\ pos.place \in Places
  <2>1. b = BlockAt(rd, node.indirect, pos.place)
    BY <1>2, <1>7 DEF BlockIn
  <2>2. node.indirect # NULL => rd.ptrs[node.indirect][pos.place] \in Ptr
    BY <1>4, <1>7, DiskTypes DEF Ptr
  <2>3. b \in Ptr
    BY <2>1, <2>2 DEF BlockAt, Ptr
  <2>. QED  BY <2>1, <2>3, <1>7, TreePlaces
<1>8. CASE pos.kind = "double" /\ pos.place \in Places /\ pos.table \in Places
  <2> DEFINE table == BlockAt(rd, node.double, pos.table)
  <2>1. b = BlockAt(rd, table, pos.place)
    BY <1>2, <1>8 DEF BlockIn
  <2>2. CASE table = NULL
    <3>1. b = NULL
      BY <2>1, <2>2 DEF BlockAt
    <3>. QED  BY <3>1 DEF Ptr
  <2>3. CASE table # NULL
    <3> HIDE DEF table
    <3>1. b \in Ptr /\ (b = NULL \/ InTree(rd, i, b))
      BY <2>1, <2>3, <1>8, DoubleChain DEF table
    <3>. QED  BY <3>1
  <2>. QED  BY <2>2, <2>3
<1>9. CASE pos.kind = "none"
  <2>1. b = NULL
    BY <1>2, <1>9 DEF BlockIn
  <2>. QED  BY <2>1 DEF Ptr
<1>. QED  BY <1>3, <1>6, <1>7, <1>8, <1>9

(* The near blocks of an inode whose tree is kept, and their cells *)
LEMMA KeptBlk ==
  ASSUME NEW rd \in Disks, NEW e, NEW i \in Inums, Kept(rd, e, i), NEW k \in Near
  PROVE  /\ Blk(e, i, k) = Blk(rd, i, k)
         /\ Blk(rd, i, k) # NULL => e.data[Blk(rd, i, k)] = rd.data[Blk(rd, i, k)]
<1> DEFINE t == rd.inodes[i].indirect
<1>1. e.inodes[i] = rd.inodes[i]
  BY DEF Kept
<1>2. t \in Ptr /\ (t # NULL => InTree(rd, i, t))
  BY DiskTypes, TreePlaces
<1>3. t # NULL => e.ptrs[t] = rd.ptrs[t]
  BY <1>2 DEF Kept, Ptr
<1>4. Blk(e, i, k) = Blk(rd, i, k)
  BY <1>1, <1>3, NearBlk DEF BlockAt
<1>5. Blk(rd, i, k) # NULL => e.data[Blk(rd, i, k)] = rd.data[Blk(rd, i, k)]
  BY NearBlkTree DEF Kept
<1>. QED  BY <1>4, <1>5

-----------------------------------------------------------------------------
(* Quotients and remainders, whatever is divided by *)
LEMMA Multiples ==
  ASSUME NEW n \in Nat \ {0}, NEW m \in Nat, NEW k \in Nat, m < k
  PROVE  m * n \in Nat /\ k * n \in Nat /\ m * n + n <= k * n
<1>1. PICK d \in Nat : k = m + 1 + d
  <2>1. k - m - 1 \in Nat /\ k = m + 1 + (k - m - 1)
    OBVIOUS
  <2>. QED  BY <2>1
<1>2. k * n = m * n + n + d * n
  BY <1>1
<1>3. d * n \in Nat /\ m * n \in Nat
  BY <1>1
<1>. QED  BY <1>2, <1>3

(* A number is its quotient times the divisor and the remainder, *)
LEMMA Divided ==
  ASSUME NEW n \in Nat \ {0}, NEW x \in Nat
  PROVE  /\ x \div n \in Nat /\ x % n \in 0 .. n - 1
         /\ (x \div n) * n \in Nat /\ x = (x \div n) * n + (x % n)
<1>1. x = n * (x \div n) + (x % n) /\ x % n \in 0 .. n - 1 /\ x \div n \in Nat
  OBVIOUS
<1> DEFINE q == x \div n
           r == x % n
<1> HIDE DEF q, r
<1>2. x = n * q + r /\ q \in Nat /\ r \in 0 .. n - 1
  BY <1>1 DEF q, r
<1>3. n * q = q * n /\ q * n \in Nat
  BY <1>2
<1>4. q \in Nat /\ r \in 0 .. n - 1 /\ q * n \in Nat /\ x = q * n + r
  BY <1>2, <1>3
<1>. QED  BY <1>4 DEF q, r

(* and there is one way only to write it so. *)
LEMMA DividedIs ==
  ASSUME NEW n \in Nat \ {0}, NEW t \in Nat, NEW p \in 0 .. n - 1
  PROVE  /\ t * n + p \in Nat
         /\ (t * n + p) \div n = t /\ (t * n + p) % n = p
<1> DEFINE x == t * n + p
           q == x \div n
           r == x % n
<1>1. t * n \in Nat /\ x \in Nat
  OBVIOUS
<1> HIDE DEF x
<1>2. q \in Nat /\ r \in 0 .. n - 1 /\ q * n \in Nat /\ x = q * n + r
  BY <1>1, Divided
<1> HIDE DEF q, r
<1>3. q * n + r = t * n + p
  BY <1>2 DEF x
<1>4. ~ (q < t)
  <2>1. ASSUME q < t PROVE q * n + n <= t * n
    BY <1>2, <2>1, Multiples
  <2>. QED  BY <2>1, <1>1, <1>2, <1>3
<1>5. ~ (t < q)
  <2>1. ASSUME t < q PROVE t * n + n <= q * n
    BY <1>2, <2>1, Multiples
  <2>. QED  BY <2>1, <1>1, <1>2, <1>3
<1>6. q = t
  BY <1>2, <1>4, <1>5
<1>7. r = p
  BY <1>1, <1>2, <1>3, <1>6
<1>. QED  BY <1>1, <1>6, <1>7 DEF x, q, r

(***************************************************************************)
(* The number of the first block of table t of the double indirect one     *)
(***************************************************************************)
Numbered(t, p) == DIRECT_POINTERS + BLOCK_PTRS + (t * BLOCK_PTRS + p)

(* Every place of the tables of the double indirect one has a number. *)
LEMMA NumberedPosition ==
  ASSUME NEW t \in Places, NEW p \in Places
  PROVE  /\ Numbered(t, p) \in Nat
         /\ Position(Numbered(t, p)) = [kind |-> "double", table |-> t, place |-> p]
<1>1. BLOCK_PTRS \in Nat \ {0} /\ DIRECT_POINTERS \in Nat /\ t \in Nat /\ t < BLOCK_PTRS
      /\ p \in 0 .. BLOCK_PTRS - 1
  BY InodeAssumption DEF Places
<1> DEFINE x == t * BLOCK_PTRS + p
           k == DIRECT_POINTERS + BLOCK_PTRS + x
<1>2. x \in Nat /\ x \div BLOCK_PTRS = t /\ x % BLOCK_PTRS = p
  BY <1>1, DividedIs
<1>3. x < BLOCK_PTRS * BLOCK_PTRS
  <2>1. t * BLOCK_PTRS \in Nat /\ BLOCK_PTRS * BLOCK_PTRS \in Nat
        /\ t * BLOCK_PTRS + BLOCK_PTRS <= BLOCK_PTRS * BLOCK_PTRS
    BY <1>1, Multiples
  <2>. QED  BY <2>1, <1>1
<1> HIDE DEF x
<1>4. /\ k \in Nat /\ ~ (k - DIRECT_POINTERS < 0) /\ ~ (k - DIRECT_POINTERS - BLOCK_PTRS < 0)
      /\ k - DIRECT_POINTERS - BLOCK_PTRS = x
  BY <1>1, <1>2
<1>5. Numbered(t, p) = k
  BY DEF Numbered, x
<1> HIDE DEF k
<1>6. Position(k) = [kind |-> "double", table |-> x \div BLOCK_PTRS, place |-> x % BLOCK_PTRS]
  BY <1>3, <1>4 DEF Position
<1>. QED  BY <1>2, <1>4, <1>5, <1>6

(* The other way round, for each of the three kinds *)
LEMMA PositionNumber ==
  ASSUME NEW k \in Nat, NEW pos, pos = Position(k)
  PROVE  /\ pos.kind = "direct"   => pos.place \in Directs /\ k = pos.place /\ pos.table = 0
         /\ pos.kind = "indirect" => /\ pos.place \in Places /\ pos.table = 0
                                     /\ k = DIRECT_POINTERS + pos.place
         /\ pos.kind = "double"   => /\ pos.place \in Places /\ pos.table \in Places
                                     /\ k = Numbered(pos.table, pos.place)
         /\ pos.kind \in {"direct", "indirect", "double", "none"}
         /\ pos = [kind |-> pos.kind, table |-> pos.table, place |-> pos.place]
<1> DEFINE k1 == k - DIRECT_POINTERS
           k2 == k1 - BLOCK_PTRS
<1>0. BLOCK_PTRS \in Nat \ {0} /\ DIRECT_POINTERS \in Nat
  BY InodeAssumption
<1>1. CASE k1 < 0
  BY <1>0, <1>1 DEF Position, Directs
<1>2. CASE ~ (k1 < 0) /\ k2 < 0
  BY <1>0, <1>2 DEF Position, Places
<1>3. CASE ~ (k1 < 0) /\ ~ (k2 < 0) /\ k2 < BLOCK_PTRS * BLOCK_PTRS
  <2>1. pos = [kind |-> "double", table |-> k2 \div BLOCK_PTRS, place |-> k2 % BLOCK_PTRS]
    BY <1>3 DEF Position
  <2> DEFINE at == Position(k)
  <2>0. \/ at.kind = "direct" \/ at.kind = "indirect"
        \/ at.kind = "double" /\ at.place \in Places /\ at.table \in Places
        \/ at.kind = "none"
    BY PositionTypes
  <2> HIDE DEF at
  <2>a. at = pos /\ pos.kind = "double"
    BY <2>1 DEF at
  <2>2. pos.table \in Places /\ pos.place \in Places
    BY <2>0, <2>a
  <2>3. k2 \in Nat
    BY <1>0, <1>3
  <2>4. k2 = (k2 \div BLOCK_PTRS) * BLOCK_PTRS + (k2 % BLOCK_PTRS)
    BY <1>0, <2>3, Divided
  <2> DEFINE x == (k2 \div BLOCK_PTRS) * BLOCK_PTRS + (k2 % BLOCK_PTRS)
  <2>5. x = pos.table * BLOCK_PTRS + pos.place
    BY <2>1
  <2> HIDE DEF x
  <2>6. k2 = x
    BY <2>4 DEF x
  <2>7. k = DIRECT_POINTERS + BLOCK_PTRS + x
    BY <1>0, <2>3, <2>6
  <2>. QED  BY <2>1, <2>2, <2>5, <2>7 DEF Numbered
<1>4. CASE ~ (k1 < 0) /\ ~ (k2 < 0) /\ ~ (k2 < BLOCK_PTRS * BLOCK_PTRS)
  BY <1>4 DEF Position
<1>. QED  BY <1>1, <1>2, <1>3, <1>4

(* A place has one number. *)
LEMMA PositionOnce ==
  ASSUME NEW j \in Nat, NEW k \in Nat, Position(j) = Position(k), Position(k).kind # "none"
  PROVE  j = k
BY PositionNumber

(* The order of the numbers is that of the tables, and of the places in each. *)
LEMMA NumberedOrder ==
  ASSUME NEW t \in Places, NEW p \in Places, NEW s \in Places, NEW q \in Places
  PROVE  /\ s < t => Numbered(s, q) < Numbered(t, p)
         /\ s = t /\ q < p => Numbered(s, q) < Numbered(t, p)
         /\ \A r \in Places : DIRECT_POINTERS + r < Numbered(t, p)
<1>1. BLOCK_PTRS \in Nat \ {0} /\ DIRECT_POINTERS \in Nat /\ t \in Nat /\ s \in Nat
      /\ p \in 0 .. BLOCK_PTRS - 1 /\ q \in 0 .. BLOCK_PTRS - 1
  BY InodeAssumption DEF Places
<1>2. t * BLOCK_PTRS \in Nat /\ s * BLOCK_PTRS \in Nat
  BY <1>1
<1>3. s < t => s * BLOCK_PTRS + BLOCK_PTRS <= t * BLOCK_PTRS
  BY <1>1, Multiples
<1> DEFINE x == t * BLOCK_PTRS
           y == s * BLOCK_PTRS
<1>4. x \in Nat /\ y \in Nat /\ (s < t => y + BLOCK_PTRS <= x) /\ (s = t => x = y)
  BY <1>2, <1>3
<1>5. /\ Numbered(t, p) = DIRECT_POINTERS + BLOCK_PTRS + (x + p)
      /\ Numbered(s, q) = DIRECT_POINTERS + BLOCK_PTRS + (y + q)
  BY DEF Numbered
<1> HIDE DEF x, y
<1>6. \A r \in Places : r \in 0 .. BLOCK_PTRS - 1
  BY DEF Places
<1>. QED  BY <1>1, <1>4, <1>5, <1>6

-----------------------------------------------------------------------------
(***************************************************************************)
(* The pointer table that position pos is in, for the two kinds that are   *)
(***************************************************************************)
Tabled == {"indirect", "double"}

TableFor(rd, i, pos) ==
  IF pos.kind = "indirect" THEN rd.inodes[i].indirect
  ELSE BlockAt(rd, rd.inodes[i].double, pos.table)

(* Block number k of inode i is a pointer of the inode or of a table. *)
LEMMA BlkIs ==
  ASSUME NEW rd, NEW i, NEW k \in Nat, NEW pos, pos = Position(k)
  PROVE  /\ pos.kind = "direct" =>
              pos.place \in Directs /\ Blk(rd, i, k) = rd.inodes[i].direct[pos.place]
         /\ pos.kind \in Tabled =>
              /\ pos.place \in Places /\ pos.table \in Places
              /\ Blk(rd, i, k) = BlockAt(rd, TableFor(rd, i, pos), pos.place)
         /\ pos.kind = "none" => Blk(rd, i, k) = NULL
         /\ pos.kind \in {"direct", "none"} \cup Tabled
<1>1. Blk(rd, i, k) = BlockIn(rd, rd.inodes[i], pos)
  BY DEF Blk
<1>2. /\ pos.kind = "direct"   => pos.place \in Directs
      /\ pos.kind = "indirect" => pos.place \in Places /\ pos.table = 0
      /\ pos.kind = "double"   => pos.place \in Places /\ pos.table \in Places
      /\ pos.kind \in {"direct", "indirect", "double", "none"}
  BY PositionNumber
<1>3. 0 \in Places
  BY InodeAssumption DEF Places
<1>4. CASE pos.kind = "direct"
  BY <1>1, <1>2, <1>4 DEF BlockIn, Tabled
<1>5. CASE pos.kind = "indirect"
  BY <1>1, <1>2, <1>3, <1>5 DEF BlockIn, Tabled, TableFor
<1>6. CASE pos.kind = "double"
  BY <1>1, <1>2, <1>6 DEF BlockIn, Tabled, TableFor
<1>7. CASE pos.kind = "none"
  BY <1>1, <1>7 DEF BlockIn, Tabled
<1>. QED  BY <1>2, <1>4, <1>5, <1>6, <1>7

(* Such a table is in the tree, and is not the double indirect one. *)
LEMMA TableForIs ==
  ASSUME NEW rd \in Disks, OnePlace(rd), NEW i \in Inums,
         NEW pos, pos.kind \in Tabled, pos.table \in Places,
         NEW t, t = TableFor(rd, i, pos)
  PROVE  /\ t \in Ptr
         /\ t # NULL => t \in Blocks /\ InTree(rd, i, t) /\ t # rd.inodes[i].double
         /\ t # NULL /\ pos.kind = "double" =>
              rd.inodes[i].double \in Blocks /\ t = rd.ptrs[rd.inodes[i].double][pos.table]
<1> DEFINE double == rd.inodes[i].double
<1>1. rd.inodes[i].indirect \in Ptr /\ double \in Ptr
  BY DiskTypes
<1>2. CASE pos.kind = "indirect"
  <2>1. t = rd.inodes[i].indirect
    BY <1>2 DEF TableFor
  <2>2. t # NULL => t # double
    <3>1. /\ IsPlace("indirect", i, 0) /\ PtrAt(rd, "indirect", i, 0) = t
          /\ IsPlace("double", i, 0) /\ PtrAt(rd, "double", i, 0) = double
      BY <2>1, InodePlaces
    <3>. QED  BY <3>1 DEF OnePlace
  <2>. QED  BY <1>1, <1>2, <2>1, <2>2, TreePlaces DEF Ptr
<1>3. CASE pos.kind = "double"
  <2>1. t = BlockAt(rd, double, pos.table)
    BY <1>3 DEF TableFor
  <2>2. CASE t = NULL
    BY <2>2 DEF Ptr
  <2>3. CASE t # NULL
    <3>1. 0 \in Places
      BY InodeAssumption DEF Places
    <3>2. /\ double \in Blocks /\ t \in Blocks /\ t = rd.ptrs[double][pos.table]
          /\ InTree(rd, i, t) /\ t # double
      BY <2>1, <2>3, <3>1, DoubleChain
    <3>. QED  BY <3>2 DEF Ptr
  <2>. QED  BY <2>2, <2>3
<1>. QED  BY <1>2, <1>3 DEF Tabled

(* One position's table is no other's. *)
LEMMA TableForOnce ==
  ASSUME NEW rd \in Disks, OnePlace(rd), NEW i \in Inums,
         NEW pos, pos.kind \in Tabled, pos.table \in Places,
         NEW q, q.kind \in Tabled, q.table \in Places,
         TableFor(rd, i, pos) = TableFor(rd, i, q), TableFor(rd, i, pos) # NULL
  PROVE  pos.kind = q.kind /\ (pos.kind = "double" => pos.table = q.table)
<1> DEFINE double == rd.inodes[i].double
           t == TableFor(rd, i, pos)
<1>1. /\ pos.kind = "double" => double \in Blocks /\ t = rd.ptrs[double][pos.table]
      /\ q.kind = "double" => double \in Blocks /\ t = rd.ptrs[double][q.table]
  BY TableForIs
<1>2. /\ pos.kind = "indirect" => t = rd.inodes[i].indirect
      /\ q.kind = "indirect" => t = rd.inodes[i].indirect
  BY DEF TableFor
<1> HIDE DEF t
<1>3. /\ IsPlace("indirect", i, 0) /\ PtrAt(rd, "indirect", i, 0) = rd.inodes[i].indirect
      /\ \A d \in Blocks, p \in Places : /\ IsPlace("table", d, p)
                                         /\ PtrAt(rd, "table", d, p) = rd.ptrs[d][p]
  BY InodePlaces
<1>4. t # NULL
  BY DEF t
<1>5. CASE pos.kind = "double" /\ q.kind = "double"
  <2>1. /\ IsPlace("table", double, pos.table) /\ PtrAt(rd, "table", double, pos.table) = t
        /\ IsPlace("table", double, q.table) /\ PtrAt(rd, "table", double, q.table) = t
    BY <1>1, <1>3, <1>5
  <2>2. pos.table = q.table
    BY <1>4, <2>1 DEF OnePlace
  <2>. QED  BY <1>5, <2>2
<1>6. CASE pos.kind = "indirect" /\ q.kind = "double"
  <2>1. /\ IsPlace("table", double, q.table) /\ PtrAt(rd, "table", double, q.table) = t
        /\ PtrAt(rd, "indirect", i, 0) = t
    BY <1>1, <1>2, <1>3, <1>6
  <2>2. "indirect" = "table"
    BY <1>3, <1>4, <2>1 DEF OnePlace
  <2>. QED  BY <2>2
<1>7. CASE pos.kind = "double" /\ q.kind = "indirect"
  <2>1. /\ IsPlace("table", double, pos.table) /\ PtrAt(rd, "table", double, pos.table) = t
        /\ PtrAt(rd, "indirect", i, 0) = t
    BY <1>1, <1>2, <1>3, <1>7
  <2>2. "indirect" = "table"
    BY <1>3, <1>4, <2>1 DEF OnePlace
  <2>. QED  BY <2>2
<1>8. CASE pos.kind = "indirect" /\ q.kind = "indirect"
  BY <1>8
<1>. QED  BY <1>5, <1>6, <1>7, <1>8 DEF Tabled

(* Every block of an inode is a block of its tree. *)
LEMMA BlkTree ==
  ASSUME NEW rd \in Disks, OnePlace(rd), NEW i \in Inums, NEW k \in Nat
  PROVE  /\ Blk(rd, i, k) \in Ptr
         /\ Blk(rd, i, k) # NULL => Blk(rd, i, k) \in Blocks /\ InTree(rd, i, Blk(rd, i, k))
<1>1. 0 \in Offs
  BY InodeAssumption DEF Offs
<1>2. Slot(k, 0) \in Nat /\ Slot(k, 0) \div BLOCK_CELLS = k
  BY <1>1, SlotOrder, SlotParts
<1>. QED  BY <1>2, GetBlockIsBlk, GetBlockTree

(* A block has one number. *)
LEMMA BlkOnce ==
  ASSUME NEW rd \in Disks, OnePlace(rd), NEW i \in Inums, NEW j \in Nat, NEW k \in Nat,
         Blk(rd, i, j) = Blk(rd, i, k), Blk(rd, i, k) # NULL
  PROVE  j = k
<1> DEFINE pos == Position(k)
           q == Position(j)
           b == Blk(rd, i, k)
           t == TableFor(rd, i, pos)
           u == TableFor(rd, i, q)
<1>1. /\ pos.kind = "direct" => pos.place \in Directs /\ b = rd.inodes[i].direct[pos.place]
      /\ pos.kind \in Tabled => /\ pos.place \in Places /\ pos.table \in Places
                                /\ b = BlockAt(rd, t, pos.place)
      /\ pos.kind = "none" => b = NULL
      /\ pos.kind \in {"direct", "none"} \cup Tabled
  BY BlkIs
<1>2. /\ q.kind = "direct" => q.place \in Directs /\ b = rd.inodes[i].direct[q.place]
      /\ q.kind \in Tabled => /\ q.place \in Places /\ q.table \in Places
                              /\ b = BlockAt(rd, u, q.place)
      /\ q.kind = "none" => b = NULL
      /\ q.kind \in {"direct", "none"} \cup Tabled
  BY BlkIs
<1>3. /\ pos = [kind |-> pos.kind, table |-> pos.table, place |-> pos.place]
      /\ pos.kind \in {"direct", "indirect"} => pos.table = 0
      /\ q = [kind |-> q.kind, table |-> q.table, place |-> q.place]
      /\ q.kind \in {"direct", "indirect"} => q.table = 0
  BY PositionNumber
<1>4. b # NULL
  OBVIOUS
<1>5. pos = q => j = k
  BY <1>1, <1>4, PositionOnce
<1> HIDE DEF pos, q, b
<1>6. pos.kind \in Tabled => t \in Blocks /\ t # NULL /\ b = rd.ptrs[t][pos.place]
  <2>1. pos.kind \in Tabled => t # NULL /\ b = rd.ptrs[t][pos.place]
    BY <1>1, <1>4 DEF BlockAt
  <2>. QED  BY <1>1, <2>1, TableForIs
<1>7. q.kind \in Tabled => u \in Blocks /\ u # NULL /\ b = rd.ptrs[u][q.place]
  <2>1. q.kind \in Tabled => u # NULL /\ b = rd.ptrs[u][q.place]
    BY <1>2, <1>4 DEF BlockAt
  <2>. QED  BY <1>2, <2>1, TableForIs
<1>8. /\ \A p \in Directs : IsPlace("direct", i, p) /\ PtrAt(rd, "direct", i, p) = rd.inodes[i].direct[p]
      /\ \A d \in Blocks, p \in Places : /\ IsPlace("table", d, p)
                                         /\ PtrAt(rd, "table", d, p) = rd.ptrs[d][p]
  BY InodePlaces
<1>9. CASE pos.kind = "direct" /\ q.kind = "direct"
  <2>1. pos.place = q.place
    BY <1>1, <1>2, <1>4, <1>8, <1>9 DEF OnePlace
  <2>. QED  BY <1>3, <1>5, <1>9, <2>1
<1>10. CASE pos.kind \in Tabled /\ q.kind \in Tabled
  <2>1. t = u /\ pos.place = q.place
    BY <1>1, <1>2, <1>4, <1>6, <1>7, <1>8, <1>10 DEF OnePlace
  <2>2. pos.kind = q.kind /\ (pos.kind = "double" => pos.table = q.table)
    BY <1>1, <1>2, <1>6, <1>10, <2>1, TableForOnce
  <2>. QED  BY <1>3, <1>5, <1>10, <2>1, <2>2 DEF Tabled
<1>11. CASE pos.kind = "direct" /\ q.kind \in Tabled
  <2>1. "direct" = "table"
    BY <1>1, <1>2, <1>4, <1>7, <1>8, <1>11 DEF OnePlace
  <2>. QED  BY <2>1
<1>12. CASE pos.kind \in Tabled /\ q.kind = "direct"
  <2>1. "direct" = "table"
    BY <1>1, <1>2, <1>4, <1>6, <1>8, <1>12 DEF OnePlace
  <2>. QED  BY <2>1
<1>. QED  BY <1>1, <1>2, <1>4, <1>9, <1>10, <1>11, <1>12

(* The tables and the blocks of an inode whose tree is kept, and their cells *)
LEMMA KeptTable ==
  ASSUME NEW rd \in Disks, NEW e, NEW i \in Inums, Kept(rd, e, i), NEW pos
  PROVE  TableFor(e, i, pos) = TableFor(rd, i, pos)
<1> DEFINE double == rd.inodes[i].double
<1>1. e.inodes[i] = rd.inodes[i]
  BY DEF Kept
<1>2. double # NULL => e.ptrs[double] = rd.ptrs[double]
  <2>1. double \in Ptr /\ (double # NULL => InTree(rd, i, double))
    BY DiskTypes, TreePlaces
  <2>. QED  BY <2>1 DEF Kept, Ptr
<1>. QED  BY <1>1, <1>2 DEF TableFor, BlockAt

(* And every block, however far, with its cells *)
LEMMA KeptAny ==
  ASSUME NEW rd \in Disks, OnePlace(rd), NEW e, NEW i \in Inums, Kept(rd, e, i), NEW k \in Nat
  PROVE  /\ Blk(e, i, k) = Blk(rd, i, k)
         /\ Blk(rd, i, k) # NULL => e.data[Blk(rd, i, k)] = rd.data[Blk(rd, i, k)]
<1> DEFINE pos == Position(k)
           t == TableFor(rd, i, pos)
<1>1. /\ pos.kind = "direct" => Blk(rd, i, k) = rd.inodes[i].direct[pos.place]
      /\ pos.kind \in Tabled => /\ pos.place \in Places /\ pos.table \in Places
                                /\ Blk(rd, i, k) = BlockAt(rd, t, pos.place)
      /\ pos.kind = "none" => Blk(rd, i, k) = NULL
      /\ pos.kind \in {"direct", "none"} \cup Tabled
  BY BlkIs
<1>2. /\ pos.kind = "direct" => Blk(e, i, k) = e.inodes[i].direct[pos.place]
      /\ pos.kind \in Tabled => Blk(e, i, k) = BlockAt(e, TableFor(e, i, pos), pos.place)
      /\ pos.kind = "none" => Blk(e, i, k) = NULL
  BY BlkIs
<1> HIDE DEF pos
<1>3. e.inodes[i] = rd.inodes[i]
  BY DEF Kept
<1>4. TableFor(e, i, pos) = t
  BY KeptTable
<1>5. pos.kind \in Tabled => (t # NULL => e.ptrs[t] = rd.ptrs[t])
  BY <1>1, TableForIs DEF Kept
<1>6. Blk(e, i, k) = Blk(rd, i, k)
  <2> HIDE DEF t
  <2>1. pos.kind \in Tabled => BlockAt(e, t, pos.place) = BlockAt(rd, t, pos.place)
    BY <1>5 DEF BlockAt
  <2>. QED  BY <1>1, <1>2, <1>3, <1>4, <2>1
<1>7. Blk(rd, i, k) # NULL => e.data[Blk(rd, i, k)] = rd.data[Blk(rd, i, k)]
  BY BlkTree DEF Kept
<1>. QED  BY <1>6, <1>7

-----------------------------------------------------------------------------
(***************************************************************************)
(* Keeping track of blocks: what is in the tree of inode i stays in it,    *)
(* and what is taken from the bitmap gets there, but for block b, which is *)
(* still in hand (NULL if none is).                                        *)
(***************************************************************************)
Tracks(rd, e, i, b) ==
  /\ \A c : InTree(rd, i, c) => InTree(e, i, c)
  /\ \A c \in Allocated(e) : c \in Allocated(rd) \/ c = b \/ InTree(e, i, c)

(* The block in hand has gone into the tree, or is still in hand. *)
LEMMA TracksTransitive ==
  ASSUME NEW rd, NEW e, NEW f, NEW i, NEW b, NEW c, Tracks(rd, e, i, b), Tracks(e, f, i, c),
         b = NULL \/ b = c \/ InTree(f, i, b)
  PROVE  Tracks(rd, f, i, c)
<1>1. NULL \notin Allocated(e)
  BY AllocatedFinite
<1>. QED  BY <1>1 DEF Tracks

(* A block that was spare, and now is in the tree *)
LEMMA TracksPlaced ==
  ASSUME NEW rd, NEW e, NEW i, NEW b, Tracks(rd, e, i, b), InTree(e, i, b)
  PROVE  Tracks(rd, e, i, NULL)
BY DEF Tracks

(* Pointers that are not null stay. *)
PointersStay(rd, e, i) ==
  /\ \A k \in Directs : rd.inodes[i].direct[k] \in {NULL, e.inodes[i].direct[k]}
  /\ rd.inodes[i].indirect \in {NULL, e.inodes[i].indirect}
  /\ rd.inodes[i].double \in {NULL, e.inodes[i].double}
  /\ \A t \in Blocks, p \in Places : rd.ptrs[t][p] \in {NULL, e.ptrs[t][p]}

(* Then what is in the tree stays in it. *)
LEMMA StayInTree ==
  ASSUME NEW rd \in Disks, NEW e, NEW i \in Inums, PointersStay(rd, e, i),
         NEW b, InTree(rd, i, b)
  PROVE  InTree(e, i, b)
<1>1. rd.inodes[i].indirect \in Ptr /\ rd.inodes[i].double \in Ptr /\ b # NULL
  BY DiskTypes DEF InTree
<1>2. \A t \in Blocks : \A c : c # NULL /\ Under(rd, t, c) => Under(e, t, c)
  BY DEF PointersStay, Under
<1>3. NULL \notin Blocks
  BY DEF Blocks, NULL
<1>4. CASE \E k \in Directs : rd.inodes[i].direct[k] = b
  BY <1>1, <1>4 DEF PointersStay, InTree
<1>5. CASE rd.inodes[i].indirect = b \/ rd.inodes[i].double = b
  BY <1>1, <1>5 DEF PointersStay, InTree
<1>6. CASE Under(rd, rd.inodes[i].indirect, b)
  <2>1. rd.inodes[i].indirect \in Blocks /\ e.inodes[i].indirect = rd.inodes[i].indirect
    BY <1>1, <1>6 DEF Under, Ptr, PointersStay
  <2>. QED  BY <1>1, <1>2, <1>6, <2>1 DEF InTree
<1>7. CASE Under(rd, rd.inodes[i].double, b)
  <2>1. rd.inodes[i].double \in Blocks /\ e.inodes[i].double = rd.inodes[i].double
    BY <1>1, <1>7 DEF Under, Ptr, PointersStay
  <2>. QED  BY <1>1, <1>2, <1>7, <2>1 DEF InTree
<1>8. CASE \E t \in Blocks : Under(rd, rd.inodes[i].double, t) /\ Under(rd, t, b)
  <2>1. PICK t \in Blocks : Under(rd, rd.inodes[i].double, t) /\ Under(rd, t, b)
    BY <1>8
  <2>2. rd.inodes[i].double \in Blocks /\ e.inodes[i].double = rd.inodes[i].double
    BY <1>1, <2>1 DEF Under, Ptr, PointersStay
  <2>3. Under(e, e.inodes[i].double, t) /\ Under(e, t, b)
    BY <1>1, <1>2, <1>3, <2>1, <2>2
  <2>. QED  BY <1>1, <2>3 DEF InTree
<1>. QED  BY <1>4, <1>5, <1>6, <1>7, <1>8 DEF InTree

(* Taking a block from the bitmap *)
LEMMA TracksObtains ==
  ASSUME NEW rd, Sound(rd), NEW i \in Inums, NEW got, Obtains(rd, got)
  PROVE  Tracks(rd, got.rd, i, got.block)
<1>1. rd \in Disks /\ got.rd \in Disks /\ Kept(rd, got.rd, i)
  BY DEF Sound, Obtains, Grows
<1>2. \A c : InTree(rd, i, c) => InTree(got.rd, i, c)
  BY <1>1, KeptTree
<1>3. \A c \in Allocated(got.rd) : c \in Allocated(rd) \/ c = got.block
  BY DEF Obtains
<1>. QED  BY <1>2, <1>3 DEF Tracks

-----------------------------------------------------------------------------
(***************************************************************************)
(* inode_add_block at the end of an inode: the block belongs to number k,  *)
(* the first that is missing.                                              *)
(***************************************************************************)
FirstGap(rd, i, k) ==
  /\ Blk(rd, i, k) = NULL
  /\ \A j \in Nat : j < k => Blk(rd, i, j) # NULL

(* The block got, if any, becomes number k, and no block is lost. *)
Ends(rd, got, i, k) ==
  /\ \A j \in Nat : Blk(got.rd, i, j) = IF j = k THEN got.block ELSE Blk(rd, i, j)
  /\ Tracks(rd, got.rd, i, NULL)

(* The same blocks, whatever pointer tables there are *)
SameBlks(rd, e, i) == \A j \in Nat : Blk(e, i, j) = Blk(rd, i, j)

(* Then the first that is missing is the same. *)
LEMMA SameGap ==
  ASSUME NEW rd, NEW e, NEW i, SameBlks(rd, e, i), NEW k \in Nat, FirstGap(rd, i, k)
  PROVE  FirstGap(e, i, k)
BY DEF SameBlks, FirstGap

(* What was done before changed no block, only took one or made a table. *)
LEMMA EndsAfter ==
  ASSUME NEW rd, NEW e, NEW got, NEW i, NEW k \in Nat, NEW b,
         SameBlks(rd, e, i), Tracks(rd, e, i, b), Ends(e, got, i, k),
         b = NULL \/ InTree(got.rd, i, b)
  PROVE  Ends(rd, got, i, k)
BY TracksTransitive DEF SameBlks, Ends

(* What the first free place of the table is, where block k belongs. *)
LEMMA GapPlace ==
  ASSUME NEW e, Sound(e), NEW i \in Inums, NEW k \in Nat, FirstGap(e, i, k),
         NEW pos, pos = Position(k), pos.kind \in Tabled,
         NEW t, t = TableFor(e, i, pos), t # NULL
  PROVE  /\ pos.place \in Places /\ e.ptrs[t][pos.place] = NULL
         /\ \A q \in Places : q < pos.place => e.ptrs[t][q] # NULL
<1>1. pos.place \in Places /\ pos.table \in Places /\ Blk(e, i, k) = BlockAt(e, t, pos.place)
  BY BlkIs
<1>2. e.ptrs[t][pos.place] = NULL
  BY <1>1 DEF FirstGap, BlockAt
<1>3. ASSUME NEW q \in Places, q < pos.place, NEW j \in Nat, j < k,
             Position(j) = [kind |-> pos.kind, table |-> pos.table, place |-> q]
      PROVE  e.ptrs[t][q] # NULL
  <2> DEFINE at == Position(j)
  <2>1. at.kind = pos.kind /\ at.table = pos.table /\ at.place = q
    BY <1>3
  <2>2. at.kind \in Tabled => Blk(e, i, j) = BlockAt(e, TableFor(e, i, at), at.place)
    BY BlkIs
  <2> HIDE DEF at
  <2>3. TableFor(e, i, at) = t
    BY <2>1 DEF TableFor
  <2>. QED  BY <1>3, <2>1, <2>2, <2>3 DEF FirstGap, BlockAt
<1>4. ASSUME NEW q \in Places, q < pos.place, pos.kind = "indirect"
      PROVE  e.ptrs[t][q] # NULL
  <2> DEFINE j == DIRECT_POINTERS + q
  <2>1. k = DIRECT_POINTERS + pos.place /\ pos.table = 0
    BY <1>4, PositionNumber
  <2>2. j \in Nat /\ j < k /\ j - DIRECT_POINTERS = q /\ ~ (j - DIRECT_POINTERS < 0)
        /\ j - DIRECT_POINTERS - BLOCK_PTRS < 0
    BY <1>1, <1>4, <2>1, InodeAssumption DEF Places
  <2> HIDE DEF j
  <2>3. Position(j) = [kind |-> pos.kind, table |-> pos.table, place |-> q]
    BY <1>4, <2>1, <2>2 DEF Position
  <2>. QED  BY <1>3, <1>4, <2>2, <2>3
<1>5. ASSUME NEW q \in Places, q < pos.place, pos.kind = "double"
      PROVE  e.ptrs[t][q] # NULL
  <2> DEFINE j == Numbered(pos.table, q)
  <2>1. k = Numbered(pos.table, pos.place)
    BY <1>5, PositionNumber
  <2>2. j < k
    BY <1>1, <1>5, <2>1, NumberedOrder
  <2>3. j \in Nat /\ Position(j) = [kind |-> pos.kind, table |-> pos.table, place |-> q]
    BY <1>1, <1>5, NumberedPosition
  <2>. QED  BY <1>3, <1>5, <2>2, <2>3
<1>. QED  BY <1>1, <1>2, <1>4, <1>5 DEF Tabled

(* A pointer of a table that becomes a block, and the tables that stay *)
LEMMA PlaceBlk ==
  ASSUME NEW e, Sound(e), NEW f, Sound(f), NEW i \in Inums, NEW k \in Nat,
         NEW pos, pos = Position(k), pos.kind \in Tabled,
         NEW t, t = TableFor(e, i, pos), t # NULL, NEW b \in Blocks,
         f.inodes = e.inodes, f.ptrs = [e.ptrs EXCEPT ![t][pos.place] = b]
  PROVE  \A j \in Nat : Blk(f, i, j) = IF j = k THEN b ELSE Blk(e, i, j)
<1>1. e \in Disks /\ OnePlace(e) /\ e.ptrs \in [Blocks -> [Places -> Ptr]]
  BY DEF Sound, Disks
<1>2. pos.place \in Places /\ pos.table \in Places
  BY BlkIs
<1>3. t \in Blocks /\ t # e.inodes[i].double
  BY <1>1, <1>2, TableForIs
<1>4. \A c \in Blocks, q \in Places :
        f.ptrs[c][q] = IF c = t /\ q = pos.place THEN b ELSE e.ptrs[c][q]
  BY <1>1, <1>2, <1>3
<1>5. e.inodes[i].double \in Ptr
  BY <1>1, DiskTypes
<1>6. SUFFICES ASSUME NEW j \in Nat
               PROVE  Blk(f, i, j) = IF j = k THEN b ELSE Blk(e, i, j)
  OBVIOUS
<1> DEFINE q == Position(j)
           u == TableFor(e, i, q)
<1>7. /\ q.kind = "direct" => Blk(e, i, j) = e.inodes[i].direct[q.place]
      /\ q.kind \in Tabled => /\ q.place \in Places /\ q.table \in Places
                              /\ Blk(e, i, j) = BlockAt(e, u, q.place)
      /\ q.kind = "none" => Blk(e, i, j) = NULL
      /\ q.kind \in {"direct", "none"} \cup Tabled
  BY BlkIs
<1>8. /\ q.kind = "direct" => Blk(f, i, j) = f.inodes[i].direct[q.place]
      /\ q.kind \in Tabled => Blk(f, i, j) = BlockAt(f, TableFor(f, i, q), q.place)
      /\ q.kind = "none" => Blk(f, i, j) = NULL
  BY BlkIs
<1>9. /\ q = [kind |-> q.kind, table |-> q.table, place |-> q.place]
      /\ pos = [kind |-> pos.kind, table |-> pos.table, place |-> pos.place]
      /\ q.kind = "indirect" => q.table = 0
      /\ pos.kind = "indirect" => pos.table = 0
  BY PositionNumber
<1>10. q = pos => j = k
  BY PositionOnce DEF Tabled
<1>11. j = k => q = pos
  OBVIOUS
<1> HIDE DEF q
<1>12. ASSUME q.kind \notin Tabled
       PROVE  Blk(f, i, j) = IF j = k THEN b ELSE Blk(e, i, j)
  BY <1>7, <1>8, <1>11, <1>12
<1>13. ASSUME q.kind \in Tabled
       PROVE  Blk(f, i, j) = IF j = k THEN b ELSE Blk(e, i, j)
  <2>1. TableFor(f, i, q) = u
    <3>1. e.inodes[i].double # NULL => BlockAt(f, e.inodes[i].double, q.table)
                                        = BlockAt(e, e.inodes[i].double, q.table)
      BY <1>3, <1>4, <1>5, <1>7, <1>13 DEF BlockAt, Ptr
    <3>2. BlockAt(f, e.inodes[i].double, q.table) = BlockAt(e, e.inodes[i].double, q.table)
      BY <3>1 DEF BlockAt
    <3>. QED  BY <3>2 DEF TableFor
  <2>2. u \in Ptr
    BY <1>1, <1>7, <1>13, TableForIs
  <2>3. u = t => pos.kind = q.kind /\ (pos.kind = "double" => pos.table = q.table)
    BY <1>1, <1>2, <1>7, <1>13, TableForOnce
  <2>4. j = k => u = t /\ q.place = pos.place
    BY <1>11
  <2> HIDE DEF u
  <2>5. u = t /\ q.place = pos.place => j = k
    BY <1>9, <1>10, <1>13, <2>3 DEF Tabled
  <2>6. CASE u = NULL
    BY <1>7, <1>8, <1>13, <2>1, <2>4, <2>6 DEF BlockAt
  <2>7. CASE u # NULL
    <3>1. u \in Blocks
      BY <2>2, <2>7 DEF Ptr
    <3>2. Blk(f, i, j) = f.ptrs[u][q.place] /\ Blk(e, i, j) = e.ptrs[u][q.place]
      BY <1>7, <1>8, <1>13, <2>1, <2>7 DEF BlockAt
    <3>. QED  BY <1>4, <1>7, <1>13, <2>4, <2>5, <3>1, <3>2
  <2>. QED  BY <2>6, <2>7
<1>. QED  BY <1>12, <1>13

(* A block put at a free place of a table of the tree *)
LEMMA TracksAdded ==
  ASSUME NEW e, Sound(e), NEW f, NEW i \in Inums, NEW t \in Blocks, NEW p \in Places,
         NEW b, e.ptrs[t][p] = NULL, f.inodes = e.inodes,
         f.ptrs = [e.ptrs EXCEPT ![t][p] = b], Allocated(f) = Allocated(e)
  PROVE  Tracks(e, f, i, NULL)
<1>1. e \in Disks /\ e.ptrs \in [Blocks -> [Places -> Ptr]]
  BY DEF Sound, Disks
<1>2. PointersStay(e, f, i)
  <2>1. \A c \in Blocks, q \in Places : e.ptrs[c][q] \in {NULL, f.ptrs[c][q]}
    BY <1>1
  <2>. QED  BY <2>1 DEF PointersStay
<1>. QED  BY <1>1, <1>2, StayInTree DEF Tracks

(* The block in hand goes into a table that is there. *)
LEMMA IntoTableEnds ==
  ASSUME NEW e, Sound(e), NEW i \in Inums, NEW k \in Nat, FirstGap(e, i, k),
         NEW pos, pos = Position(k), pos.kind \in Tabled,
         NEW t, t = TableFor(e, i, pos), t # NULL, NEW b \in Blocks, Spare(e, b)
  PROVE  /\ Ends(e, IntoTable(InHand(b, e), t), i, k)
         /\ Ends(e, IntoIndirect(InHand(b, e), t, pos.place), i, k)
         /\ InTree(IntoTable(InHand(b, e), t).rd, i, b)
         /\ InTree(IntoIndirect(InHand(b, e), t, pos.place).rd, i, b)
<1> DEFINE added == AddToTable(e, t, b)
           f == added.rd
           p == added.place
<1>1. e \in Disks /\ OnePlace(e) /\ b # NULL
  BY DEF Sound, Blocks, NULL
<1>2. pos.place \in Places /\ pos.table \in Places
  BY BlkIs
<1>3. t \in Blocks /\ InTree(e, i, t)
  BY <1>1, <1>2, TableForIs
<1>4. /\ e.ptrs[t][pos.place] = NULL
      /\ \A q \in Places : q < pos.place => e.ptrs[t][q] # NULL
  BY GapPlace
<1>5. /\ IntoTable(InHand(b, e), t) = InHand(b, f)
      /\ IntoIndirect(InHand(b, e), t, pos.place) = InHand(IF p = pos.place THEN b ELSE NULL, f)
  BY <1>1 DEF IntoTable, IntoIndirect, InHand
<1>6. Added(e, i, t, b, added)
  BY <1>3, AddToTableResult
<1> HIDE DEF added
<1>7. p = pos.place /\ f.ptrs = [e.ptrs EXCEPT ![t][p] = b]
  <2> DEFINE place == pos.place
  <2>1. CASE p = BLOCK_PTRS /\ f = e /\ \A q \in Places : e.ptrs[t][q] # NULL
    BY <2>1, <1>2, <1>4
  <2>2. CASE /\ p \in Places /\ e.ptrs[t][p] = NULL
             /\ \A q \in Places : q < p => e.ptrs[t][q] # NULL
             /\ f.ptrs = [e.ptrs EXCEPT ![t][p] = b]
    <3>1. p \in Int /\ place \in Int
      BY <2>2, <1>2 DEF Places
    <3>2. ~ (p < place) /\ ~ (place < p)
      BY <2>2, <1>2, <1>4
    <3>3. p = place
      <4> HIDE DEF place, p
      <4>. QED  BY <3>1, <3>2
    <3>. QED  BY <2>2, <3>3
  <2>. QED  BY <1>6, <2>1, <2>2 DEF Added
<1>8. f.inodes = e.inodes /\ Sound(f) /\ Allocated(f) = Allocated(e)
  BY <1>6 DEF Added, Grows
<1>9. \A j \in Nat : Blk(f, i, j) = IF j = k THEN b ELSE Blk(e, i, j)
  <2>1. f.ptrs = [e.ptrs EXCEPT ![t][pos.place] = b]
    BY <1>7
  <2> HIDE DEF f
  <2>. QED  BY <1>8, <2>1, PlaceBlk
<1>10. Tracks(e, f, i, NULL)
  BY <1>2, <1>3, <1>4, <1>7, <1>8, TracksAdded
<1>11. InTree(f, i, b)
  <2>1. Blk(f, i, k) = b
    BY <1>9
  <2>. QED  BY <1>1, <1>8, <2>1, BlkTree DEF Sound
<1>12. Ends(e, InHand(b, f), i, k) /\ InHand(b, f).rd = f
  BY <1>9, <1>10 DEF Ends, InHand
<1>. QED  BY <1>5, <1>7, <1>11, <1>12

(***************************************************************************)
(* An empty block that becomes a pointer table of inode i changes none of  *)
(* the blocks.                                                             *)
(***************************************************************************)
Grafts(e, f, i, b) ==
  /\ f.inodes[i].direct = e.inodes[i].direct
  /\ f.ptrs[b] = NullPtrs
  /\ \A pos : pos.kind \in Tabled /\ pos.table \in Places =>
       LET t == TableFor(e, i, pos)
           u == TableFor(f, i, pos)
       IN  \/ t = NULL /\ u \in {NULL, b}
           \/ t # NULL /\ u = t /\ f.ptrs[t] = e.ptrs[t]

(* The blocks are the same. *)
LEMMA GraftedBlks ==
  ASSUME NEW e, NEW f, NEW i, NEW b, Grafts(e, f, i, b)
  PROVE  SameBlks(e, f, i)
<1> SUFFICES ASSUME NEW j \in Nat PROVE Blk(f, i, j) = Blk(e, i, j)
  BY DEF SameBlks
<1> DEFINE q == Position(j)
           t == TableFor(e, i, q)
           u == TableFor(f, i, q)
<1>1. /\ q.kind = "direct" => Blk(e, i, j) = e.inodes[i].direct[q.place]
      /\ q.kind \in Tabled => /\ q.place \in Places /\ q.table \in Places
                              /\ Blk(e, i, j) = BlockAt(e, t, q.place)
      /\ q.kind = "none" => Blk(e, i, j) = NULL
      /\ q.kind \in {"direct", "none"} \cup Tabled
  BY BlkIs
<1>2. /\ q.kind = "direct" => Blk(f, i, j) = f.inodes[i].direct[q.place]
      /\ q.kind \in Tabled => Blk(f, i, j) = BlockAt(f, u, q.place)
      /\ q.kind = "none" => Blk(f, i, j) = NULL
  BY BlkIs
<1> HIDE DEF q
<1>3. CASE q.kind \notin Tabled
  BY <1>1, <1>2, <1>3 DEF Grafts
<1>4. CASE q.kind \in Tabled
  <2>1. \/ t = NULL /\ u \in {NULL, b}
        \/ t # NULL /\ u = t /\ f.ptrs[t] = e.ptrs[t]
    BY <1>1, <1>4 DEF Grafts
  <2>2. q.place \in Places => NullPtrs[q.place] = NULL
    BY DEF NullPtrs
  <2> HIDE DEF t, u
  <2>3. BlockAt(f, u, q.place) = BlockAt(e, t, q.place)
    BY <1>1, <1>4, <2>1, <2>2 DEF BlockAt, Grafts
  <2>. QED  BY <1>1, <1>2, <1>4, <2>3
<1>. QED  BY <1>3, <1>4

(* What becomes of inode i and its blocks when it gets an empty table b. *)
Prepares(e, f, i, b) ==
  /\ Sound(f) /\ SameBlks(e, f, i) /\ Tracks(e, f, i, NULL) /\ InTree(f, i, b)

(* The block in hand becomes the indirect table, *)
LEMMA PrepareIndirect ==
  ASSUME NEW e, Sound(e), NEW i \in Inums, NEW b \in Blocks, Spare(e, b),
         e.ptrs[b] = NullPtrs, e.inodes[i].indirect = NULL
  PROVE  LET f == [e EXCEPT !.inodes[i].indirect = b] IN
         Prepares(e, f, i, b) /\ f.inodes[i].indirect = b
<1> DEFINE f == [e EXCEPT !.inodes[i].indirect = b]
           node == [e.inodes[i] EXCEPT !.indirect = b]
<1>1. Rooted(e, f, i, node, b)
  BY RootedIndirect
<1>2. /\ node.direct = e.inodes[i].direct /\ node.indirect = b
      /\ node.double = e.inodes[i].double
  BY DiskTypes DEF Nodes, Sound
<1> HIDE DEF node, f
<1>3. f.inodes[i] = node /\ f.ptrs = e.ptrs /\ Sound(f) /\ InTree(f, i, b)
      /\ Allocated(f) = Allocated(e)
  BY <1>1 DEF Rooted, Grows
<1>4. Grafts(e, f, i, b)
  BY <1>2, <1>3 DEF Grafts, TableFor, BlockAt, Tabled
<1>5. PointersStay(e, f, i)
  BY <1>2, <1>3 DEF PointersStay
<1>6. Tracks(e, f, i, NULL)
  BY <1>3, <1>5, StayInTree DEF Tracks, Sound
<1>7. Prepares(e, f, i, b) /\ f.inodes[i].indirect = b
  BY <1>2, <1>3, <1>4, <1>6, GraftedBlks DEF Prepares
<1>. QED  BY <1>7 DEF f

(* or the double indirect one. *)
LEMMA PrepareDouble ==
  ASSUME NEW e, Sound(e), NEW i \in Inums, NEW b \in Blocks, Spare(e, b),
         e.ptrs[b] = NullPtrs, e.inodes[i].double = NULL
  PROVE  LET f == [e EXCEPT !.inodes[i].double = b] IN
         Prepares(e, f, i, b) /\ f.inodes[i].double = b
<1> DEFINE f == [e EXCEPT !.inodes[i].double = b]
           node == [e.inodes[i] EXCEPT !.double = b]
<1>1. Rooted(e, f, i, node, b)
  BY RootedDouble
<1>2. /\ node.direct = e.inodes[i].direct /\ node.double = b
      /\ node.indirect = e.inodes[i].indirect
  BY DiskTypes DEF Nodes, Sound
<1> HIDE DEF node, f
<1>3. f.inodes[i] = node /\ f.ptrs = e.ptrs /\ Sound(f) /\ InTree(f, i, b)
      /\ Allocated(f) = Allocated(e)
  BY <1>1 DEF Rooted, Grows
<1>4. \A p \in Places : NullPtrs[p] = NULL
  BY DEF NullPtrs
<1>5. Grafts(e, f, i, b)
  <2>1. \A p \in Places : BlockAt(e, NULL, p) = NULL /\ BlockAt(f, b, p) = NULL
    BY <1>3, <1>4 DEF BlockAt
  <2>. QED  BY <1>2, <1>3, <2>1 DEF Grafts, TableFor, Tabled
<1>6. PointersStay(e, f, i)
  BY <1>2, <1>3 DEF PointersStay
<1>7. Tracks(e, f, i, NULL)
  BY <1>3, <1>6, StayInTree DEF Tracks, Sound
<1>8. Prepares(e, f, i, b) /\ f.inodes[i].double = b
  BY <1>2, <1>3, <1>5, <1>7, GraftedBlks DEF Prepares
<1>. QED  BY <1>8 DEF f

(* A table goes to the first free place of the double indirect one, which  *)
(* is where block k needs it.                                              *)
LEMMA PrepareTable ==
  ASSUME NEW e, Sound(e), NEW i \in Inums, NEW k \in Nat, FirstGap(e, i, k),
         NEW pos, pos = Position(k), pos.kind = "double", TableFor(e, i, pos) = NULL,
         NEW double, double = e.inodes[i].double, double # NULL,
         NEW b \in Blocks, Spare(e, b), e.ptrs[b] = NullPtrs,
         NEW f, f = AddToTable(e, double, b).rd
  PROVE  Prepares(e, f, i, b) /\ f.inodes = e.inodes /\ TableFor(f, i, pos) = b
<1> DEFINE added == AddToTable(e, double, b)
           p == added.place
<1>1. e \in Disks /\ OnePlace(e) /\ b # NULL /\ e.ptrs \in [Blocks -> [Places -> Ptr]]
  BY DEF Sound, Disks, Blocks, NULL
<1>2. pos.place \in Places /\ pos.table \in Places
  BY BlkIs DEF Tabled
<1>3. double \in Blocks /\ InTree(e, i, double)
  BY <1>1, DiskTypes, TreePlaces DEF Ptr
<1>4. Added(e, i, double, b, added)
  BY <1>3, AddToTableResult
<1>5. e.ptrs[double][pos.table] = NULL
  BY DEF TableFor, BlockAt
<1>6. \A s \in Places : s < pos.table => e.ptrs[double][s] # NULL
  <2>1. TAKE s \in Places
  <2>2. HAVE s < pos.table
  <2> DEFINE j == Numbered(s, pos.place)
             at == Position(j)
  <2>3. j \in Nat /\ at = [kind |-> "double", table |-> s, place |-> pos.place]
    BY <1>2, NumberedPosition
  <2>4. k = Numbered(pos.table, pos.place)
    BY PositionNumber
  <2>5. j < k
    BY <1>2, <2>2, <2>4, NumberedOrder
  <2>6. Blk(e, i, j) # NULL
    BY <2>3, <2>5 DEF FirstGap
  <2>7. at.kind \in Tabled => Blk(e, i, j) = BlockAt(e, TableFor(e, i, at), at.place)
    BY <2>3, BlkIs
  <2>8. at.kind = "double" /\ at.table = s
    BY <2>3
  <2> HIDE DEF at, j
  <2>9. TableFor(e, i, at) # NULL
    BY <2>6, <2>7, <2>8 DEF Tabled, BlockAt
  <2>. QED  BY <2>8, <2>9 DEF TableFor, BlockAt
<1> HIDE DEF added
<1>7. p = pos.table /\ f.ptrs = [e.ptrs EXCEPT ![double][p] = b]
  <2> DEFINE table == pos.table
  <2>1. CASE p = BLOCK_PTRS /\ \A q \in Places : e.ptrs[double][q] # NULL
    BY <2>1, <1>2, <1>5
  <2>2. CASE /\ p \in Places /\ e.ptrs[double][p] = NULL
             /\ \A q \in Places : q < p => e.ptrs[double][q] # NULL
             /\ f.ptrs = [e.ptrs EXCEPT ![double][p] = b]
    <3>1. p \in Int /\ table \in Int
      BY <2>2, <1>2 DEF Places
    <3>2. ~ (p < table) /\ ~ (table < p)
      BY <2>2, <1>2, <1>5, <1>6
    <3>3. p = table
      <4> HIDE DEF table, p
      <4>. QED  BY <3>1, <3>2
    <3>. QED  BY <2>2, <3>3
  <2>. QED  BY <1>4, <2>1, <2>2 DEF Added, added
<1>8. f.inodes = e.inodes /\ Sound(f) /\ Allocated(f) = Allocated(e)
  BY <1>4 DEF Added, Grows, added
<1>9. b # double
  BY <1>1, <1>3, SpareNotInTree
<1>10. /\ \A c \in Blocks \ {double} : f.ptrs[c] = e.ptrs[c]
       /\ \A q \in Places : f.ptrs[double][q] = IF q = p THEN b ELSE e.ptrs[double][q]
  <2>1. f.ptrs = [e.ptrs EXCEPT ![double][p] = b]
    BY <1>7
  <2>2. p \in Places
    BY <1>2, <1>7
  <2> HIDE DEF p
  <2>3. /\ e.ptrs = [c \in Blocks |-> e.ptrs[c]]
        /\ e.ptrs[double] = [q \in Places |-> e.ptrs[double][q]]
    BY <1>1, <1>3
  <2>4. \A c \in Blocks \ {double} : f.ptrs[c] = e.ptrs[c]
    BY <2>1, <2>3
  <2>5. f.ptrs[double] = [e.ptrs[double] EXCEPT ![p] = b]
    BY <1>3, <2>1, <2>3
  <2>6. \A q \in Places : f.ptrs[double][q] = IF q = p THEN b ELSE e.ptrs[double][q]
    BY <2>3, <2>5
  <2>. QED  BY <2>4, <2>6
<1>11. \A q \in Places : BlockAt(f, double, q) = IF q = p THEN b ELSE BlockAt(e, double, q)
  BY <1>1, <1>3, <1>10 DEF BlockAt
<1>12. Grafts(e, f, i, b)
  <2>1. f.inodes[i].direct = e.inodes[i].direct /\ f.ptrs[b] = NullPtrs
    BY <1>8, <1>9, <1>10
  <2>2. ASSUME NEW q, q.kind \in Tabled, q.table \in Places,
               NEW t, t = TableFor(e, i, q), NEW u, u = TableFor(f, i, q)
        PROVE  \/ t = NULL /\ u \in {NULL, b}
               \/ t # NULL /\ u = t /\ f.ptrs[t] = e.ptrs[t]
    <3>1. t # NULL => t \in Blocks \ {double}
      BY <1>1, <2>2, TableForIs
    <3>2. t # NULL => f.ptrs[t] = e.ptrs[t]
      BY <1>10, <3>1
    <3>3. CASE q.kind = "indirect"
      BY <1>8, <2>2, <3>2, <3>3 DEF TableFor
    <3>4. CASE q.kind = "double"
      <4>1. t = BlockAt(e, double, q.table) /\ u = BlockAt(f, double, q.table)
        BY <1>8, <2>2, <3>4 DEF TableFor
      <4>2. q.table = p => t = NULL
        BY <4>1, <1>5, <1>7 DEF BlockAt
      <4>. QED  BY <1>11, <2>2, <3>2, <4>1, <4>2
    <3>. QED  BY <2>2, <3>3, <3>4 DEF Tabled
  <2>. QED  BY <2>1, <2>2 DEF Grafts
<1>13. Tracks(e, f, i, NULL)
  BY <1>2, <1>3, <1>5, <1>7, <1>8, TracksAdded
<1>14. TableFor(f, i, pos) = b
  BY <1>2, <1>7, <1>8, <1>11 DEF TableFor
<1>15. InTree(f, i, b)
  <2>1. f \in Disks /\ OnePlace(f) /\ pos.kind \in Tabled
    BY <1>8 DEF Sound, Tabled
  <2>. QED  BY <1>1, <1>2, <1>14, <2>1, TableForIs
<1>. QED  BY <1>8, <1>12, <1>13, <1>14, <1>15, GraftedBlks DEF Prepares

(* A block taken from the bitmap is empty, and changes no block of inode i. *)
TakenFor(e, got, i) ==
  LET g == got.rd
      c == got.block
  IN
  /\ got = InHand(c, g)
  /\ Sound(g) /\ SameBlks(e, g, i) /\ Tracks(e, g, i, c)
  /\ g.inodes = e.inodes
  /\ \A pos : TableFor(g, i, pos) = TableFor(e, i, pos)
  /\ c # NULL => c \in Blocks /\ Spare(g, c) /\ g.ptrs[c] = NullPtrs

(* _ramdisk_allocate_block gives such a block. *)
LEMMA AllocateFor ==
  ASSUME NEW e, Sound(e), NEW i \in Inums
  PROVE  TakenFor(e, Allocate(e), i)
<1> DEFINE got == Allocate(e)
           g == got.rd
           c == got.block
<1>1. Obtains(e, got) /\ e \in Disks /\ OnePlace(e)
  BY AllocateResult DEF Sound
<1>2. got = InHand(c, g)
  BY DEF Allocate, Granted, InHand
<1> HIDE DEF got
<1>3. Kept(e, g, i) /\ Sound(g) /\ g.inodes = e.inodes
  BY <1>1 DEF Obtains, Grows
<1>4. SameBlks(e, g, i) /\ \A pos : TableFor(g, i, pos) = TableFor(e, i, pos)
  BY <1>1, <1>3, KeptAny, KeptTable DEF SameBlks
<1>5. c # NULL => c \in Blocks /\ Spare(g, c) /\ g.ptrs[c] = NullPtrs
  <2>1. e.ptrs \in [Blocks -> [Places -> Ptr]]
    BY <1>1 DEF Disks
  <2>. QED  BY <1>1, <2>1 DEF Obtains
<1>6. Tracks(e, g, i, c)
  BY <1>1, TracksObtains
<1>. QED  BY <1>2, <1>3, <1>4, <1>5, <1>6 DEF TakenFor, got

(* The block that became a table stays in the tree. *)
LEMMA EndsPrepared ==
  ASSUME NEW e, NEW f, NEW got, NEW i, NEW b, NEW k \in Nat,
         Prepares(e, f, i, b), Ends(f, got, i, k)
  PROVE  Ends(e, got, i, k) /\ InTree(got.rd, i, b)
<1>1. SameBlks(e, f, i) /\ Tracks(e, f, i, NULL) /\ InTree(f, i, b)
  BY DEF Prepares
<1>2. InTree(got.rd, i, b)
  BY <1>1 DEF Ends, Tracks
<1>. QED  BY <1>1, <1>2, EndsAfter

(* A block that is wanted where block k belongs, and cannot be had *)
LEMMA EndsWithout ==
  ASSUME NEW e, NEW got, NEW i, TakenFor(e, got, i), got.block = NULL,
         NEW k \in Nat, FirstGap(e, i, k)
  PROVE  Ends(e, got, i, k)
BY DEF TakenFor, Ends, SameBlks, FirstGap, Tracks

(* A block for a table that is there, if one can be had *)
LEMMA AllocateEnds ==
  ASSUME NEW e, Sound(e), NEW i \in Inums, NEW k \in Nat, FirstGap(e, i, k),
         NEW pos, pos = Position(k), pos.kind \in Tabled,
         NEW t, t = TableFor(e, i, pos), t # NULL
  PROVE  /\ Ends(e, IntoTable(Allocate(e), t), i, k)
         /\ Ends(e, IntoIndirect(Allocate(e), t, pos.place), i, k)
<1> DEFINE got == Allocate(e)
           g == got.rd
           c == got.block
<1>1. TakenFor(e, got, i)
  BY AllocateFor
<1> HIDE DEF got
<1>2. CASE c = NULL
  <2>1. IntoTable(got, t) = got /\ IntoIndirect(got, t, pos.place) = got
    BY <1>2 DEF IntoTable, IntoIndirect
  <2>. QED  BY <1>1, <1>2, <2>1, EndsWithout DEF got
<1>3. CASE c # NULL
  <2>1. /\ got = InHand(c, g) /\ Sound(g) /\ FirstGap(g, i, k) /\ t = TableFor(g, i, pos)
        /\ c \in Blocks /\ Spare(g, c) /\ SameBlks(e, g, i) /\ Tracks(e, g, i, c)
    BY <1>1, <1>3, SameGap DEF TakenFor
  <2> DEFINE u == IntoTable(InHand(c, g), t)
             w == IntoIndirect(InHand(c, g), t, pos.place)
  <2>2. Ends(g, u, i, k) /\ Ends(g, w, i, k) /\ InTree(u.rd, i, c) /\ InTree(w.rd, i, c)
    BY <2>1, IntoTableEnds
  <2>3. u = IntoTable(Allocate(e), t) /\ w = IntoIndirect(Allocate(e), t, pos.place)
    BY <2>1 DEF got
  <2> HIDE DEF u, w
  <2>. QED  BY <2>1, <2>2, <2>3, EndsAfter
<1>. QED  BY <1>2, <1>3

(* The block in hand goes into the indirect table, or becomes it. *)
LEMMA AddIndirectEnds ==
  ASSUME NEW e, Sound(e), NEW i \in Inums, NEW k \in Nat, FirstGap(e, i, k),
         NEW pos, pos = Position(k), pos.kind = "indirect",
         NEW b \in Blocks, Spare(e, b), e.ptrs[b] = NullPtrs
  PROVE  LET got == AddIndirect(e, i, b, pos.place) IN Ends(e, got, i, k) /\ InTree(got.rd, i, b)
<1>1. pos.kind \in Tabled /\ b # NULL
  BY DEF Tabled, Blocks, NULL
<1>2. CASE e.inodes[i].indirect # NULL
  <2> DEFINE t == e.inodes[i].indirect
  <2>1. AddIndirect(e, i, b, pos.place) = IntoIndirect(InHand(b, e), t, pos.place)
    BY <1>2 DEF AddIndirect
  <2>2. t = TableFor(e, i, pos)
    BY DEF TableFor
  <2> HIDE DEF t
  <2>. QED  BY <1>1, <1>2, <2>1, <2>2, IntoTableEnds DEF t
<1>3. CASE e.inodes[i].indirect = NULL
  <2> DEFINE f == [e EXCEPT !.inodes[i].indirect = b]
             got == IntoIndirect(Allocate(f), b, pos.place)
  <2>1. AddIndirect(e, i, b, pos.place) = got
    BY <1>3 DEF AddIndirect
  <2>2. Prepares(e, f, i, b) /\ f.inodes[i].indirect = b
    BY <1>3, PrepareIndirect
  <2> HIDE DEF f
  <2>3. Sound(f) /\ FirstGap(f, i, k) /\ TableFor(f, i, pos) = b
    BY <2>2, SameGap DEF Prepares, TableFor
  <2>4. Ends(f, got, i, k)
    BY <1>1, <2>3, AllocateEnds
  <2> HIDE DEF got
  <2>5. Ends(e, got, i, k) /\ InTree(got.rd, i, b)
    BY <2>2, <2>4, EndsPrepared
  <2>. QED  BY <2>1, <2>5
<1>. QED  BY <1>2, <1>3

(* It goes into a table of the double indirect one, or becomes one. *)
LEMMA IntoDoubleEnds ==
  ASSUME NEW e, Sound(e), NEW i \in Inums, NEW k \in Nat, FirstGap(e, i, k),
         NEW pos, pos = Position(k), pos.kind = "double",
         NEW double, double = e.inodes[i].double, double # NULL,
         NEW b \in Blocks, Spare(e, b), e.ptrs[b] = NullPtrs
  PROVE  LET got == IntoDouble(InHand(b, e), double, pos) IN
         Ends(e, got, i, k) /\ InTree(got.rd, i, b)
<1>1. pos.kind \in Tabled /\ b # NULL /\ InHand(b, e).block = b /\ InHand(b, e).rd = e
  BY DEF Tabled, Blocks, NULL, InHand
<1>2. TableFor(e, i, pos) = BlockAt(e, double, pos.table)
  BY DEF TableFor
<1>3. CASE TableFor(e, i, pos) # NULL
  <2>1. IntoDouble(InHand(b, e), double, pos) = IntoTable(InHand(b, e), TableFor(e, i, pos))
    BY <1>1, <1>2, <1>3 DEF IntoDouble
  <2>. QED  BY <1>1, <1>3, <2>1, IntoTableEnds
<1>4. CASE TableFor(e, i, pos) = NULL
  <2> DEFINE f == AddToTable(e, double, b).rd
             got == IntoTable(Allocate(f), b)
  <2>1. Prepares(e, f, i, b) /\ f.inodes = e.inodes /\ TableFor(f, i, pos) = b
    BY <1>4, PrepareTable
  <2>2. IntoDouble(InHand(b, e), double, pos) = NewTable(f, double, pos.table)
    BY <1>1, <1>2, <1>4 DEF IntoDouble
  <2> HIDE DEF f
  <2>3. BlockAt(f, double, pos.table) = b
    BY <2>1 DEF TableFor
  <2>4. IntoDouble(InHand(b, e), double, pos) = got
    BY <2>2, <2>3 DEF NewTable
  <2>5. Sound(f) /\ FirstGap(f, i, k)
    BY <2>1, SameGap DEF Prepares
  <2>6. Ends(f, got, i, k)
    BY <1>1, <2>1, <2>5, AllocateEnds
  <2> HIDE DEF got
  <2>7. Ends(e, got, i, k) /\ InTree(got.rd, i, b)
    BY <2>1, <2>6, EndsPrepared
  <2>. QED  BY <2>4, <2>7
<1>. QED  BY <1>3, <1>4

(* Or it becomes the double indirect table itself. *)
LEMMA AddDoubleEnds ==
  ASSUME NEW e, Sound(e), NEW i \in Inums, NEW k \in Nat, FirstGap(e, i, k),
         NEW pos, pos = Position(k), pos.kind = "double",
         NEW b \in Blocks, Spare(e, b), e.ptrs[b] = NullPtrs
  PROVE  LET got == AddDouble(e, i, b, pos) IN Ends(e, got, i, k) /\ InTree(got.rd, i, b)
<1>1. CASE e.inodes[i].double # NULL
  <2>1. AddDouble(e, i, b, pos) = IntoDouble(InHand(b, e), e.inodes[i].double, pos)
    BY <1>1 DEF AddDouble
  <2>. QED  BY <1>1, <2>1, IntoDoubleEnds
<1>2. CASE e.inodes[i].double = NULL
  <2> DEFINE f == [e EXCEPT !.inodes[i].double = b]
  <2>2. Prepares(e, f, i, b) /\ f.inodes[i].double = b
    BY <1>2, PrepareDouble
  <2> DEFINE had == Allocate(f)
             got == IntoDouble(had, b, pos)
  <2>1. AddDouble(e, i, b, pos) = got
    BY <1>2 DEF AddDouble
  <2> HIDE DEF f
  <2>3. Sound(f) /\ FirstGap(f, i, k) /\ b # NULL
    BY <2>2, SameGap DEF Prepares, Blocks, NULL
  <2>4. TakenFor(f, had, i)
    BY <2>3, AllocateFor
  <2> HIDE DEF had
  <2>5. Ends(f, got, i, k)
    <3>1. CASE had.block = NULL
      BY <2>3, <2>4, <3>1, EndsWithout DEF IntoDouble
    <3>2. CASE had.block # NULL
      <4> DEFINE c == had.block
                 g == had.rd
      <4>1. /\ had = InHand(c, g) /\ Sound(g) /\ FirstGap(g, i, k) /\ b = g.inodes[i].double
            /\ c \in Blocks /\ Spare(g, c) /\ g.ptrs[c] = NullPtrs
            /\ SameBlks(f, g, i) /\ Tracks(f, g, i, c)
        BY <2>2, <2>3, <2>4, <3>2, SameGap DEF TakenFor
      <4> HIDE DEF c, g
      <4>2. Ends(g, got, i, k) /\ InTree(got.rd, i, c)
        BY <2>3, <4>1, IntoDoubleEnds
      <4> HIDE DEF got
      <4>. QED  BY <4>1, <4>2, EndsAfter
    <3>. QED  BY <3>1, <3>2
  <2> HIDE DEF got
  <2>6. Ends(e, got, i, k) /\ InTree(got.rd, i, b)
    BY <2>2, <2>5, EndsPrepared
  <2>. QED  BY <2>1, <2>6
<1>. QED  BY <1>1, <1>2

(* The block in the inode itself *)
LEMMA AddDirectEnds ==
  ASSUME NEW e, Sound(e), NEW i \in Inums, NEW k \in Nat, FirstGap(e, i, k),
         NEW pos, pos = Position(k), pos.kind = "direct", NEW b \in Blocks, Spare(e, b)
  PROVE  LET f == [e EXCEPT !.inodes[i].direct[pos.place] = b] IN
         Ends(e, InHand(b, f), i, k) /\ InTree(f, i, b)
<1> DEFINE f == [e EXCEPT !.inodes[i].direct[pos.place] = b]
           node == [e.inodes[i] EXCEPT !.direct[pos.place] = b]
<1>1. pos.place \in Directs /\ pos.place = k /\ Blk(e, i, k) = e.inodes[i].direct[k]
  BY PositionNumber, BlkIs
<1>2. Rooted(e, f, i, node, b)
  BY <1>1, RootedDirect
<1>3. e.inodes[i] \in Nodes /\ e.inodes[i].direct \in [Directs -> Ptr]
  BY DiskTypes DEF Sound
<1>4. /\ node.indirect = e.inodes[i].indirect /\ node.double = e.inodes[i].double
      /\ node.direct = [e.inodes[i].direct EXCEPT ![k] = b]
  BY <1>1, <1>3 DEF Nodes
<1> HIDE DEF node, f
<1>5. f.inodes[i] = node /\ f.ptrs = e.ptrs /\ InTree(f, i, b) /\ Allocated(f) = Allocated(e)
  BY <1>2 DEF Rooted
<1>6. \A l \in Directs : node.direct[l] = IF l = k THEN b ELSE e.inodes[i].direct[l]
  BY <1>1, <1>3, <1>4
<1>7. \A j \in Nat : Blk(f, i, j) = IF j = k THEN b ELSE Blk(e, i, j)
  <2>1. TAKE j \in Nat
  <2> DEFINE q == Position(j)
  <2>2. /\ q.kind = "direct" => Blk(e, i, j) = e.inodes[i].direct[q.place]
        /\ q.kind \in Tabled => Blk(e, i, j) = BlockAt(e, TableFor(e, i, q), q.place)
        /\ q.kind = "none" => Blk(e, i, j) = NULL
        /\ q.kind \in {"direct", "none"} \cup Tabled
    BY BlkIs
  <2>7. /\ q.kind = "direct" => Blk(f, i, j) = f.inodes[i].direct[q.place]
        /\ q.kind \in Tabled => Blk(f, i, j) = BlockAt(f, TableFor(f, i, q), q.place)
        /\ q.kind = "none" => Blk(f, i, j) = NULL
    BY BlkIs
  <2>3. q.kind = "direct" => q.place \in Directs /\ q.place = j
    BY PositionNumber
  <2>4. j = k => q.kind = "direct"
    OBVIOUS
  <2> HIDE DEF q
  <2>5. CASE q.kind = "direct"
    BY <1>5, <1>6, <2>2, <2>3, <2>5, <2>7
  <2>6. CASE q.kind # "direct"
    <3>1. TableFor(f, i, q) = TableFor(e, i, q)
      BY <1>4, <1>5 DEF TableFor, BlockAt
    <3>2. BlockAt(f, TableFor(f, i, q), q.place) = BlockAt(e, TableFor(e, i, q), q.place)
      BY <1>5, <3>1 DEF BlockAt
    <3>. QED  BY <2>2, <2>4, <2>6, <2>7, <3>2
  <2>. QED  BY <2>5, <2>6
<1>8. PointersStay(e, f, i)
  <2>1. \A l \in Directs : e.inodes[i].direct[l] \in {NULL, f.inodes[i].direct[l]}
    BY <1>1, <1>5, <1>6 DEF FirstGap
  <2>. QED  BY <1>4, <1>5, <2>1 DEF PointersStay
<1>9. Tracks(e, f, i, NULL)
  BY <1>5, <1>8, StayInTree DEF Tracks, Sound
<1>10. Ends(e, InHand(b, f), i, k)
  BY <1>5, <1>7, <1>9 DEF Ends, InHand
<1>. QED  BY <1>5, <1>10 DEF f

(***************************************************************************)
(* inode_add_block at the end of an inode: past what an inode can hold     *)
(* there is no block, and the one that was taken is lost.                  *)
(***************************************************************************)
LEMMA AddBlockEnds ==
  ASSUME NEW rd, Sound(rd), NEW i \in Inums, NEW k \in Nat,
         k = rd.inodes[i].size \div BLOCK_CELLS, FirstGap(rd, i, k)
  PROVE  LET got == AddBlock(rd, i) IN
         /\ \A j \in Nat : Blk(got.rd, i, j) = IF j = k THEN got.block ELSE Blk(rd, i, j)
         /\ Position(k).kind # "none" => Tracks(rd, got.rd, i, NULL)
<1> DEFINE had == Allocate(rd)
           e == had.rd
           b == had.block
           pos == Position(k)
           got == AddBlock(rd, i)
<1>1. TakenFor(rd, had, i)
  BY AllocateFor
<1>2. got = Attach(had, i, pos)
  BY DEF AddBlock
<1>3. pos.kind \in {"direct", "none"} \cup Tabled
  BY BlkIs
<1> HIDE DEF had, pos, got
<1>4. \/ Ends(rd, got, i, k)
      \/ pos.kind = "none" /\ got.block = NULL /\ SameBlks(rd, got.rd, i)
  <2>1. CASE b = NULL
    <3>1. got = had
      BY <1>2, <2>1 DEF Attach
    <3>. QED  BY <1>1, <2>1, <3>1, EndsWithout
  <2>2. CASE b # NULL
    <3>1. /\ had = InHand(b, e) /\ Sound(e) /\ SameBlks(rd, e, i) /\ Tracks(rd, e, i, b)
          /\ b \in Blocks /\ Spare(e, b) /\ e.ptrs[b] = NullPtrs /\ FirstGap(e, i, k)
      BY <1>1, <2>2, SameGap DEF TakenFor
    <3>2. ASSUME Ends(e, got, i, k), InTree(got.rd, i, b) PROVE Ends(rd, got, i, k)
      BY <3>1, <3>2, EndsAfter
    <3>3. CASE pos.kind = "direct"
      <4> DEFINE f == [e EXCEPT !.inodes[i].direct[pos.place] = b]
      <4>1. Ends(e, InHand(b, f), i, k) /\ InTree(f, i, b)
        BY <3>1, <3>3, AddDirectEnds DEF pos
      <4>2. got = InHand(b, f)
        BY <1>2, <2>2, <3>1, <3>3 DEF Attach, InHand
      <4>3. InHand(b, f).rd = f
        BY DEF InHand
      <4> HIDE DEF f
      <4>. QED  BY <3>2, <4>1, <4>2, <4>3
    <3>4. CASE pos.kind = "indirect"
      <4>1. got = AddIndirect(e, i, b, pos.place)
        BY <1>2, <2>2, <3>4 DEF Attach
      <4>. QED  BY <3>1, <3>2, <3>4, <4>1, AddIndirectEnds DEF pos
    <3>5. CASE pos.kind = "double"
      <4>1. got = AddDouble(e, i, b, pos)
        BY <1>2, <2>2, <3>5 DEF Attach
      <4>. QED  BY <3>1, <3>2, <3>5, <4>1, AddDoubleEnds DEF pos
    <3>6. CASE pos.kind = "none"
      <4>1. got = InHand(NULL, e)
        BY <1>2, <2>2, <3>6 DEF Attach
      <4>. QED  BY <3>1, <3>6, <4>1 DEF InHand
    <3>. QED  BY <1>3, <3>3, <3>4, <3>5, <3>6 DEF Tabled
  <2>. QED  BY <2>1, <2>2
<1>5. \A j \in Nat : Blk(got.rd, i, j) = IF j = k THEN got.block ELSE Blk(rd, i, j)
  BY <1>4 DEF Ends, SameBlks, FirstGap
<1>6. pos.kind # "none" => Tracks(rd, got.rd, i, NULL)
  BY <1>4 DEF Ends
<1>. QED  BY <1>5, <1>6 DEF pos, got

-----------------------------------------------------------------------------
(***************************************************************************)
(* A lost block is marked, and in no tree: no call can use it or give it   *)
(* back.                                                                   *)
(***************************************************************************)
Loose(rd, b) == b \in Allocated(rd) /\ \A i \in Inums : ~ InTree(rd, i, b)

NoneLost(rd, e) == \A b : Loose(e, b) => Loose(rd, b)

LEMMA NoneLostTransitive ==
  ASSUME NEW rd, NEW e, NEW f, NoneLost(rd, e), NoneLost(e, f)
  PROVE  NoneLost(rd, f)
BY DEF NoneLost

(* What is marked is in the tree of inode i, or was marked and not in it. *)
Keeps(rd, e, i) ==
  \A c \in Allocated(e) : InTree(e, i, c) \/ (c \in Allocated(rd) /\ ~ InTree(rd, i, c))

LEMMA KeepsTransitive ==
  ASSUME NEW rd, NEW e, NEW f, NEW i, Keeps(rd, e, i), Keeps(e, f, i)
  PROVE  Keeps(rd, f, i)
BY DEF Keeps

LEMMA TracksKeeps ==
  ASSUME NEW rd, NEW e, NEW i, Tracks(rd, e, i, NULL)
  PROVE  Keeps(rd, e, i)
BY AllocatedFinite DEF Tracks, Keeps

(* Neither cells nor the size of the inode matter. *)
LEMMA SameKeeps ==
  ASSUME NEW rd \in Disks, NEW e, NEW i \in Inums, Allocated(e) = Allocated(rd), e.ptrs = rd.ptrs,
         e.inodes[i].direct = rd.inodes[i].direct,
         e.inodes[i].indirect = rd.inodes[i].indirect,
         e.inodes[i].double = rd.inodes[i].double
  PROVE  Keeps(rd, e, i)
BY DEF Keeps, InTree, Under

(* Then, if the other trees are kept, none is lost. *)
LEMMA KeepsNoneLost ==
  ASSUME NEW rd \in Disks, NEW e \in Disks, NEW i \in Inums, OthersKept(rd, e, i), Keeps(rd, e, i)
  PROVE  NoneLost(rd, e)
<1> SUFFICES ASSUME NEW b, Loose(e, b) PROVE Loose(rd, b)
  BY DEF NoneLost
<1>1. b \in Allocated(rd) /\ ~ InTree(rd, i, b)
  BY DEF Loose, Keeps
<1>2. \A j \in Inums \ {i} : ~ InTree(rd, j, b)
  BY KeptTree DEF OthersKept, Loose
<1>. QED  BY <1>1, <1>2 DEF Loose

(* None is lost of a tree that is released, if it is tight. *)
LEMMA FreedNoneLost ==
  ASSUME NEW rd, Sound(rd), NEW e, NEW i \in Inums, NEW n, Freed(rd, e, i, n), Tight(rd, i)
  PROVE  NoneLost(rd, e)
<1>1. Keeps(rd, e, i)
  BY DEF Keeps, Freed
<1>. QED  BY <1>1, KeepsNoneLost DEF Freed, Sound

(* Directories have no double indirect table, and keep their blocks. *)
Tended(rd, e, d) ==
  rd.inodes[d].double = NULL => e.inodes[d].double = NULL /\ Keeps(rd, e, d)

LEMMA TendedTransitive ==
  ASSUME NEW rd, NEW e, NEW f, NEW d, Tended(rd, e, d), Tended(e, f, d)
  PROVE  Tended(rd, f, d)
BY KeepsTransitive DEF Tended

LEMMA SameTended ==
  ASSUME NEW rd \in Disks, NEW e, NEW d \in Inums, Allocated(e) = Allocated(rd), e.ptrs = rd.ptrs,
         e.inodes[d].direct = rd.inodes[d].direct,
         e.inodes[d].indirect = rd.inodes[d].indirect,
         e.inodes[d].double = rd.inodes[d].double
  PROVE  Tended(rd, e, d)
BY SameKeeps DEF Tended

(* The tree of an inode that has no double indirect table *)
LEMMA NearTree ==
  ASSUME NEW rd \in Disks, NEW i \in Inums, rd.inodes[i].double = NULL, NEW b, InTree(rd, i, b)
  PROVE  b = rd.inodes[i].indirect \/ \E j \in Near : Blk(rd, i, j) = b
<1>1. ASSUME NEW k \in Directs
      PROVE  k \in Near /\ Blk(rd, i, k) = rd.inodes[i].direct[k]
  <2>1. k \in Near /\ k < DIRECT_POINTERS
    BY InodeAssumption DEF Near, Directs
  <2>. QED  BY <2>1, NearBlk
<1>2. ASSUME NEW p \in Places
      PROVE  /\ DIRECT_POINTERS + p \in Near
             /\ Blk(rd, i, DIRECT_POINTERS + p) = BlockAt(rd, rd.inodes[i].indirect, p)
  <2>1. /\ DIRECT_POINTERS + p \in Near /\ ~ (DIRECT_POINTERS + p < DIRECT_POINTERS)
        /\ (DIRECT_POINTERS + p) - DIRECT_POINTERS = p
    BY InodeAssumption DEF Near, Places
  <2>. QED  BY <2>1, NearBlk
<1>3. Under(rd, rd.inodes[i].indirect, b)
        => \E p \in Places : BlockAt(rd, rd.inodes[i].indirect, p) = b
  BY DEF Under, BlockAt
<1>4. ~ Under(rd, NULL, b) /\ b # NULL
  BY DEF InTree, Under
<1>5. \A t \in Blocks : ~ Under(rd, NULL, t)
  BY DEF Under
<1>. QED  BY <1>1, <1>2, <1>3, <1>4, <1>5 DEF InTree

-----------------------------------------------------------------------------
(***************************************************************************)
(* The shape of a file's tree, whatever was written where: no pointer      *)
(* belongs to a block beyond the one in which the size of the file is, and *)
(* the pointers of a table are those of its first places.                  *)
(***************************************************************************)
Reaches(node) ==
  /\ \A k \in Directs : node.direct[k] # NULL => Slot(k, 0) <= node.size
  /\ node.indirect # NULL => Slot(DIRECT_POINTERS, 0) <= node.size
  /\ node.double # NULL => Slot(DIRECT_POINTERS + BLOCK_PTRS, 0) <= node.size

Formed(rd, i) == Reaches(rd.inodes[i]) /\ TablesFilled(rd, i)

(* It is the same where the pointers are. *)
LEMMA SameFilled ==
  ASSUME NEW rd \in Disks, NEW e, NEW i \in Inums,
         e.inodes[i].indirect = rd.inodes[i].indirect,
         e.inodes[i].double = rd.inodes[i].double,
         \A b \in Blocks : InTree(rd, i, b) => e.ptrs[b] = rd.ptrs[b],
         TablesFilled(rd, i)
  PROVE  TablesFilled(e, i)
<1> DEFINE indirect == rd.inodes[i].indirect
           double == rd.inodes[i].double
<1>1. /\ indirect # NULL => indirect \in Blocks /\ InTree(rd, i, indirect)
      /\ double # NULL => double \in Blocks /\ InTree(rd, i, double)
      /\ \A p \in Places : BlockAt(rd, double, p) # NULL
           => BlockAt(rd, double, p) \in Blocks /\ InTree(rd, i, BlockAt(rd, double, p))
  <2>1. /\ indirect \in Ptr /\ double \in Ptr
        /\ \A b \in Blocks : rd.ptrs[b] \in [Places -> Ptr]
    BY DiskTypes
  <2>. QED  BY <2>1, TreePlaces DEF Ptr, BlockAt
<1>2. \A p \in Places : BlockAt(e, double, p) = BlockAt(rd, double, p)
  BY <1>1 DEF BlockAt
<1>3. Filled(e, indirect) /\ Filled(e, double)
  BY <1>1 DEF TablesFilled, Filled
<1>4. \A p \in Places : Filled(e, BlockAt(rd, double, p))
  BY <1>1 DEF TablesFilled, Filled
<1>. QED  BY <1>2, <1>3, <1>4 DEF TablesFilled

LEMMA KeptFormed ==
  ASSUME NEW rd \in Disks, NEW e, NEW i \in Inums, Kept(rd, e, i), Formed(rd, i)
  PROVE  Formed(e, i)
<1>1. /\ e.inodes[i] = rd.inodes[i]
      /\ \A b \in Blocks : InTree(rd, i, b) => e.ptrs[b] = rd.ptrs[b]
  BY DEF Kept
<1>. QED  BY <1>1, SameFilled DEF Formed

(* A table that gets a block at its first free place, or is full *)
LEMMA AddedFilled ==
  ASSUME NEW e, Sound(e), NEW f, NEW i, NEW table \in Blocks, NEW b \in Blocks, b # table,
         e.ptrs[b] = NullPtrs, NEW added, Added(e, i, table, b, added), f = added.rd
  PROVE  Filled(f, b) /\ \A t : Filled(e, t) => Filled(f, t)
<1>1. e.ptrs \in [Blocks -> [Places -> Ptr]] /\ e.ptrs[table] \in [Places -> Ptr]
  BY DEF Sound, Disks
<1>2. CASE f = e
  BY <1>2 DEF Filled, NullPtrs
<1>3. CASE f # e
  <2> DEFINE p == added.place
  <2>1. /\ p \in Places /\ \A q \in Places : q < p => e.ptrs[table][q] # NULL
        /\ f.ptrs = [e.ptrs EXCEPT ![table][p] = b]
    BY <1>3 DEF Added
  <2>2. \A q \in Places : f.ptrs[table][q] = IF q = p THEN b ELSE e.ptrs[table][q]
    BY <1>1, <2>1
  <2>3. \A t : t # table => f.ptrs[t] = e.ptrs[t]
    BY <1>1, <2>1
  <2> HIDE DEF p
  <2>4. f.ptrs[b] = NullPtrs
    BY <2>3
  <2>5. Filled(f, b)
    BY <2>4 DEF Filled, NullPtrs
  <2>6. \A t : t # table /\ Filled(e, t) => Filled(f, t)
    BY <2>3 DEF Filled
  <2>7. b # NULL
    BY DEF Blocks, NULL
  <2>8. Filled(e, table) => Filled(f, table)
    BY <2>1, <2>2, <2>7 DEF Filled
  <2>. QED  BY <2>5, <2>6, <2>8
<1>. QED  BY <1>2, <1>3

(* add_block_to_indirect_storage *)
LEMMA AddToTableFormed ==
  ASSUME NEW e, Sound(e), NEW i \in Inums, Formed(e, i),
         NEW table, table = NULL \/ InTree(e, i, table),
         NEW b, Spare(e, b), e.ptrs[b] = NullPtrs
  PROVE  Formed(AddToTable(e, table, b).rd, i)
<1> DEFINE added == AddToTable(e, table, b)
           f == added.rd
           double == e.inodes[i].double
<1>1. CASE table = NULL
  BY <1>1 DEF AddToTable
<1>2. CASE table # NULL
  <2>1. e \in Disks /\ PlacedAllocated(e) /\ b \in Blocks /\ ~ InTree(e, i, b)
    BY SpareNotInTree DEF Sound, Spare, Allocated
  <2>2. table \in Blocks /\ b # table
    BY <1>2, <2>1, TreeAllocated DEF Allocated
  <2>3. Added(e, i, table, b, added)
    BY <1>2, AddToTableResult
  <2> HIDE DEF added
  <2>4. Filled(f, b) /\ \A t : Filled(e, t) => Filled(f, t)
    BY <2>1, <2>2, <2>3, AddedFilled
  <2>5. f.inodes = e.inodes
    BY <2>3 DEF Added
  <2>6. \A p \in Places : BlockAt(f, double, p) \in {b, BlockAt(e, double, p)}
    <3>1. e.ptrs \in [Blocks -> [Places -> Ptr]] /\ double \in Ptr
      BY <2>1, DiskTypes DEF Disks
    <3>2. \A t \in Blocks, p \in Places : f.ptrs[t][p] \in {b, e.ptrs[t][p]}
      BY <2>2, <2>3, <3>1 DEF Added
    <3>. QED  BY <3>1, <3>2 DEF BlockAt, Ptr
  <2> HIDE DEF f
  <2>7. \A p \in Places : Filled(f, BlockAt(f, double, p))
    BY <2>4, <2>6 DEF Formed, TablesFilled
  <2>. QED  BY <2>4, <2>5, <2>7 DEF Formed, TablesFilled, f, added
<1>. QED  BY <1>1, <1>2

(* A block taken from the bitmap *)
LEMMA AllocateFormed ==
  ASSUME NEW e, Sound(e), NEW i \in Inums, Formed(e, i)
  PROVE  Formed(Allocate(e).rd, i)
<1>1. Kept(e, Allocate(e).rd, i)
  BY AllocateResult DEF Obtains
<1>. QED  BY <1>1, KeptFormed DEF Sound

(* A spare block as one of the pointers of the inode itself *)
LEMMA RootedFormed ==
  ASSUME NEW e, Sound(e), NEW i \in Inums, Formed(e, i), NEW b \in Blocks, NEW f,
         e.ptrs[b] = NullPtrs, f.ptrs = e.ptrs,
         Reaches(f.inodes[i]),
         f.inodes[i].indirect \in {b, e.inodes[i].indirect},
         f.inodes[i].double \in {b, e.inodes[i].double}
  PROVE  Formed(f, i)
<1>1. \A t : Filled(e, t) => Filled(f, t)
  BY DEF Filled
<1>2. Filled(f, b) /\ \A p \in Places : BlockAt(f, b, p) = NULL
  BY DEF Filled, NullPtrs, BlockAt
<1>3. \A p \in Places : BlockAt(f, e.inodes[i].double, p) = BlockAt(e, e.inodes[i].double, p)
  BY DEF BlockAt
<1>4. Filled(f, NULL)
  BY DEF Filled
<1>5. Filled(f, f.inodes[i].indirect) /\ Filled(f, f.inodes[i].double)
  BY <1>1, <1>2 DEF Formed, TablesFilled
<1>6. \A p \in Places : Filled(f, BlockAt(f, f.inodes[i].double, p))
  BY <1>1, <1>2, <1>3, <1>4 DEF Formed, TablesFilled
<1>. QED  BY <1>5, <1>6 DEF Formed, TablesFilled

(* A block in hand, which is spare and empty, if there is one *)
InHandFor(got) ==
  /\ Sound(got.rd)
  /\ got.block # NULL =>
       got.block \in Blocks /\ Spare(got.rd, got.block) /\ got.rd.ptrs[got.block] = NullPtrs

LEMMA AllocateInHand ==
  ASSUME NEW e, Sound(e), NEW i \in Inums
  PROVE  /\ InHandFor(Allocate(e)) /\ Allocate(e).rd.inodes = e.inodes
         /\ \A b : InTree(Allocate(e).rd, i, b) <=> InTree(e, i, b)
<1>1. TakenFor(e, Allocate(e), i)
  BY AllocateFor
<1>2. Kept(e, Allocate(e).rd, i) /\ Allocate(e).rd \in Disks /\ e \in Disks
  BY <1>1, AllocateResult DEF Obtains, TakenFor, Sound
<1>. QED  BY <1>1, <1>2, KeptTree DEF TakenFor, InHandFor

(* Into a table of the tree, or into none *)
LEMMA IntoFormed ==
  ASSUME NEW got, InHandFor(got), NEW i \in Inums, Formed(got.rd, i),
         NEW table, table = NULL \/ InTree(got.rd, i, table), NEW place
  PROVE  /\ Formed(IntoTable(got, table).rd, i)
         /\ Formed(IntoIndirect(got, table, place).rd, i)
<1>1. CASE got.block = NULL
  BY <1>1 DEF IntoTable, IntoIndirect
<1>2. CASE got.block # NULL
  <2>1. Formed(AddToTable(got.rd, table, got.block).rd, i)
    BY <1>2, AddToTableFormed DEF InHandFor
  <2>. QED  BY <1>2, <2>1 DEF IntoTable, IntoIndirect, InHand
<1>. QED  BY <1>1, <1>2

(* The block in hand goes into the indirect table, or becomes it. *)
LEMMA AddIndirectFormed ==
  ASSUME NEW e, Sound(e), NEW i \in Inums, Formed(e, i),
         NEW b \in Blocks, Spare(e, b), e.ptrs[b] = NullPtrs,
         Slot(DIRECT_POINTERS, 0) <= e.inodes[i].size, NEW place
  PROVE  Formed(AddIndirect(e, i, b, place).rd, i)
<1>1. e \in Disks /\ e.inodes[i] \in Nodes
  BY DiskTypes DEF Sound
<1>2. CASE e.inodes[i].indirect # NULL
  <2>1. InTree(e, i, e.inodes[i].indirect)
    BY <1>1, <1>2, TreePlaces
  <2>2. InHandFor(InHand(b, e)) /\ InHand(b, e).rd = e
    BY DEF InHandFor, InHand
  <2>3. Formed(IntoIndirect(InHand(b, e), e.inodes[i].indirect, place).rd, i)
    BY <2>1, <2>2, IntoFormed
  <2>. QED  BY <1>2, <2>3 DEF AddIndirect
<1>3. CASE e.inodes[i].indirect = NULL
  <2> DEFINE f == [e EXCEPT !.inodes[i].indirect = b]
             node == [e.inodes[i] EXCEPT !.indirect = b]
  <2>1. AddIndirect(e, i, b, place) = IntoIndirect(Allocate(f), b, place)
    BY <1>3 DEF AddIndirect
  <2>2. Rooted(e, f, i, node, b)
    BY RootedIndirect
  <2>3. /\ node.size = e.inodes[i].size /\ node.direct = e.inodes[i].direct
        /\ node.indirect = b /\ node.double = e.inodes[i].double
    BY <1>1 DEF Nodes
  <2> HIDE DEF f, node
  <2>4. Reaches(node)
    BY <2>3 DEF Formed, Reaches
  <2>5. Sound(f) /\ f.inodes[i] = node /\ f.ptrs = e.ptrs /\ InTree(f, i, b)
    BY <2>2 DEF Rooted, Grows
  <2>6. Formed(f, i)
    BY <2>3, <2>4, <2>5, RootedFormed
  <2>7. /\ InHandFor(Allocate(f)) /\ InTree(Allocate(f).rd, i, b)
        /\ Formed(Allocate(f).rd, i)
    BY <2>5, <2>6, AllocateInHand, AllocateFormed
  <2>. QED  BY <2>1, <2>7, IntoFormed
<1>. QED  BY <1>2, <1>3

(* It goes into a table of the double indirect one, or becomes one. *)
LEMMA IntoDoubleFormed ==
  ASSUME NEW got, InHandFor(got), NEW i \in Inums, Formed(got.rd, i),
         NEW double, double = got.rd.inodes[i].double, double # NULL,
         NEW pos, pos.table \in Places
  PROVE  Formed(IntoDouble(got, double, pos).rd, i)
<1>1. Sound(got.rd) /\ got.rd \in Disks
  BY DEF InHandFor, Sound
<1>2. CASE got.block = NULL
  BY <1>2 DEF IntoDouble
<1>3. CASE got.block # NULL /\ BlockAt(got.rd, double, pos.table) # NULL
  <2>1. InTree(got.rd, i, BlockAt(got.rd, double, pos.table))
    BY <1>1, <1>3, TreePlaces
  <2>. QED  BY <1>3, <2>1, IntoFormed DEF IntoDouble
<1>4. CASE got.block # NULL /\ BlockAt(got.rd, double, pos.table) = NULL
  <2> DEFINE e == AddToTable(got.rd, double, got.block).rd
             t == BlockAt(e, double, pos.table)
  <2>1. IntoDouble(got, double, pos) = IntoTable(Allocate(e), t)
    BY <1>4 DEF IntoDouble, NewTable
  <2>2. InTree(got.rd, i, double)
    BY <1>1, TreePlaces
  <2>3. Spare(got.rd, got.block) /\ got.rd.ptrs[got.block] = NullPtrs
    BY <1>4 DEF InHandFor
  <2>4. Grows(got.rd, e, i) /\ e.inodes = got.rd.inodes
    BY <1>1, <2>2, <2>3, AddToTableGrows
  <2>5. Formed(e, i)
    BY <1>1, <2>2, <2>3, AddToTableFormed
  <2> HIDE DEF e
  <2>6. Sound(e) /\ e \in Disks
    BY <2>4 DEF Grows, Sound
  <2>7. t = NULL \/ InTree(e, i, t)
    BY <2>4, <2>6, TreePlaces
  <2> HIDE DEF t
  <2>8. /\ InHandFor(Allocate(e)) /\ Formed(Allocate(e).rd, i)
        /\ t = NULL \/ InTree(Allocate(e).rd, i, t)
    BY <2>5, <2>6, <2>7, AllocateInHand, AllocateFormed
  <2>. QED  BY <2>1, <2>8, IntoFormed
<1>. QED  BY <1>2, <1>3, <1>4

(* Or it becomes the double indirect table itself. *)
LEMMA AddDoubleFormed ==
  ASSUME NEW e, Sound(e), NEW i \in Inums, Formed(e, i),
         NEW b \in Blocks, Spare(e, b), e.ptrs[b] = NullPtrs,
         Slot(DIRECT_POINTERS + BLOCK_PTRS, 0) <= e.inodes[i].size,
         NEW pos, pos.table \in Places
  PROVE  Formed(AddDouble(e, i, b, pos).rd, i)
<1>1. e \in Disks /\ e.inodes[i] \in Nodes
  BY DiskTypes DEF Sound
<1>2. CASE e.inodes[i].double # NULL
  <2>1. InHandFor(InHand(b, e)) /\ InHand(b, e).rd = e
    BY DEF InHandFor, InHand
  <2>2. Formed(IntoDouble(InHand(b, e), e.inodes[i].double, pos).rd, i)
    BY <1>2, <2>1, IntoDoubleFormed
  <2>. QED  BY <1>2, <2>2 DEF AddDouble
<1>3. CASE e.inodes[i].double = NULL
  <2> DEFINE f == [e EXCEPT !.inodes[i].double = b]
             node == [e.inodes[i] EXCEPT !.double = b]
  <2>1. AddDouble(e, i, b, pos) = IntoDouble(Allocate(f), b, pos)
    BY <1>3 DEF AddDouble
  <2>2. Rooted(e, f, i, node, b)
    BY RootedDouble
  <2>3. /\ node.size = e.inodes[i].size /\ node.direct = e.inodes[i].direct
        /\ node.indirect = e.inodes[i].indirect /\ node.double = b
    BY <1>1 DEF Nodes
  <2> HIDE DEF f, node
  <2>4. Reaches(node)
    BY <2>3 DEF Formed, Reaches
  <2>5. Sound(f) /\ f.inodes[i] = node /\ f.ptrs = e.ptrs
    BY <2>2 DEF Rooted, Grows
  <2>6. Formed(f, i)
    BY <2>3, <2>4, <2>5, RootedFormed
  <2>7. /\ InHandFor(Allocate(f)) /\ Allocate(f).rd.inodes[i].double = b
        /\ Formed(Allocate(f).rd, i)
    BY <2>3, <2>5, <2>6, AllocateInHand, AllocateFormed
  <2>8. b # NULL
    BY DEF Blocks, NULL
  <2>. QED  BY <2>1, <2>7, <2>8, IntoDoubleFormed
<1>. QED  BY <1>2, <1>3

(***************************************************************************)
(* inode_add_block keeps the shape, wherever the size of the file is and   *)
(* however far it gets.                                                    *)
(***************************************************************************)
LEMMA AddBlockFormed ==
  ASSUME NEW rd, Sound(rd), NEW i \in Inums, Formed(rd, i)
  PROVE  Formed(AddBlock(rd, i).rd, i)
<1> DEFINE size == rd.inodes[i].size
           k == size \div BLOCK_CELLS
           pos == Position(k)
           got == Allocate(rd)
           e == got.rd
           b == got.block
<1>1. size \in Nat /\ k \in Nat /\ Slot(k, 0) \in Nat /\ Slot(k, 0) <= size
  <2> DEFINE o == size % BLOCK_CELLS
  <2>1. size \in Nat
    BY DiskTypes DEF Sound
  <2>2. k \in Nat /\ o \in Offs /\ size = Slot(k, o)
    BY <2>1, SlotOf
  <2>3. 0 \in Offs /\ o \in Nat
    BY <2>2, InodeAssumption DEF Offs
  <2> HIDE DEF k, o, size
  <2>4. Slot(k, 0) \in Nat /\ Slot(k, o) = Slot(k, 0) + o
    BY <2>2, <2>3, SlotOrder
  <2>. QED  BY <2>1, <2>2, <2>3, <2>4
<1>2. InHandFor(got) /\ e.inodes = rd.inodes /\ Formed(e, i)
  BY AllocateInHand, AllocateFormed
<1>3. got = InHand(b, e)
  BY AllocateFor DEF TakenFor
<1>4. AddBlock(rd, i) = Attach(got, i, pos)
  BY DEF AddBlock
<1> HIDE DEF got, e, b, k
<1>5. \A j \in Nat : j <= k => Slot(j, 0) <= size
  <2>1. SUFFICES ASSUME NEW j \in Nat, j < k
                 PROVE  Slot(j, 0) <= size
    BY <1>1
  <2>2. 0 \in Offs
    BY InodeAssumption DEF Offs
  <2>3. Slot(j, 0) \in Nat /\ Slot(j, 0) < Slot(k, 0)
    BY <1>1, <2>1, <2>2, SlotOrder
  <2>. QED  BY <1>1, <2>3
<1>6. DIRECT_POINTERS \in Nat /\ BLOCK_PTRS \in Nat
  BY InodeAssumption
<1>7. CASE b = NULL
  BY <1>2, <1>3, <1>4, <1>7 DEF Attach, InHand
<1>8. CASE b # NULL /\ pos.kind = "direct"
  <2> DEFINE f == [e EXCEPT !.inodes[i].direct[pos.place] = b]
             node == [e.inodes[i] EXCEPT !.direct[pos.place] = b]
  <2>1. pos.place \in Directs /\ pos.place = k
    BY <1>1, <1>8, PositionNumber
  <2>2. Attach(got, i, pos).rd = f
    BY <1>3, <1>8 DEF Attach, InHand, e, b
  <2>3. Rooted(e, f, i, node, b)
    BY <1>2, <1>8, <2>1, RootedDirect DEF InHandFor, e, b
  <2>4. /\ node.size = size /\ node.direct = [e.inodes[i].direct EXCEPT ![pos.place] = b]
        /\ node.indirect = e.inodes[i].indirect /\ node.double = e.inodes[i].double
        /\ e.inodes[i].direct \in [Directs -> Ptr] /\ size = e.inodes[i].size
    <3>1. e.inodes[i] \in Nodes
      BY <1>2, DiskTypes DEF InHandFor, Sound, e
    <3>. QED  BY <1>2, <3>1 DEF Nodes
  <2> HIDE DEF f, node
  <2>5. Reaches(node)
    BY <1>1, <1>2, <1>5, <2>1, <2>4 DEF Formed, Reaches
  <2>6. f.inodes[i] = node /\ f.ptrs = e.ptrs
    BY <2>3 DEF Rooted
  <2>7. Formed(f, i)
    BY <1>2, <1>8, <2>4, <2>5, <2>6, RootedFormed DEF InHandFor, e, b
  <2>. QED  BY <1>4, <2>2, <2>7
<1>9. CASE b # NULL /\ pos.kind = "indirect"
  <2>1. DIRECT_POINTERS <= k
    BY <1>1, <1>6, <1>9, PositionNumber DEF Places
  <2>2. Slot(DIRECT_POINTERS, 0) <= e.inodes[i].size
    BY <1>2, <1>5, <1>6, <2>1
  <2>3. Formed(AddIndirect(e, i, b, pos.place).rd, i)
    BY <1>2, <1>9, <2>2, AddIndirectFormed DEF InHandFor, e, b
  <2>. QED  BY <1>4, <1>9, <2>3 DEF Attach, e, b
<1>10. CASE b # NULL /\ pos.kind = "double"
  <2>1. pos.place \in Places /\ pos.table \in Places /\ k = Numbered(pos.table, pos.place)
    BY <1>1, <1>10, PositionNumber
  <2>2. DIRECT_POINTERS + BLOCK_PTRS <= k
    <3>1. BLOCK_PTRS \in Nat \ {0} /\ pos.table \in Nat /\ pos.place \in 0 .. BLOCK_PTRS - 1
      BY <2>1, InodeAssumption DEF Places
    <3>2. pos.table * BLOCK_PTRS + pos.place \in Nat
      BY <3>1, DividedIs
    <3>. QED  BY <1>1, <1>6, <2>1, <3>2 DEF Numbered
  <2>3. Slot(DIRECT_POINTERS + BLOCK_PTRS, 0) <= e.inodes[i].size
    BY <1>2, <1>5, <1>6, <2>2
  <2>4. Formed(AddDouble(e, i, b, pos).rd, i)
    BY <1>2, <1>10, <2>1, <2>3, AddDoubleFormed DEF InHandFor, e, b
  <2>. QED  BY <1>4, <1>10, <2>4 DEF Attach, e, b
<1>11. CASE b # NULL /\ pos.kind = "none"
  BY <1>2, <1>4, <1>11 DEF Attach, InHand, e, b
<1>. QED  BY <1>1, <1>7, <1>8, <1>9, <1>10, <1>11, PositionNumber

-----------------------------------------------------------------------------
(***************************************************************************)
(* inode_add_block, when block k is the first that is missing: it becomes  *)
(* the block returned, and no other of the near blocks changes.            *)
(***************************************************************************)
Appends(rd, got, i, k) ==
  \A j \in Near : Blk(got.rd, i, j) = IF j = k THEN got.block ELSE Blk(rd, i, j)

FirstMissing(rd, i, k) ==
  /\ Blk(rd, i, k) = NULL
  /\ \A j \in Near : j < k => Blk(rd, i, j) # NULL

(* This is what happens at the end of an inode, for the near blocks. *)
LEMMA AddBlockNear ==
  ASSUME NEW rd, Sound(rd), NEW i \in Inums, NEW k \in Near,
         k = rd.inodes[i].size \div BLOCK_CELLS, FirstMissing(rd, i, k)
  PROVE  Appends(rd, AddBlock(rd, i), i, k)
<1> DEFINE got == AddBlock(rd, i)
<1>1. k \in Nat /\ \A j \in Nat : j < k => j \in Near
  BY InodeAssumption DEF Near
<1>2. FirstGap(rd, i, k)
  BY <1>1 DEF FirstMissing, FirstGap
<1>3. \A j \in Nat : Blk(got.rd, i, j) = IF j = k THEN got.block ELSE Blk(rd, i, j)
  BY <1>1, <1>2, AddBlockEnds
<1> HIDE DEF got
<1>4. Appends(rd, got, i, k)
  BY <1>3, NearTypes DEF Appends
<1>. QED  BY <1>4 DEF got

(* It is never the double indirect table that is made there. *)
LEMMA AddBlockDouble ==
  ASSUME NEW rd, Sound(rd), NEW i \in Inums, NEW k \in Near,
         k = rd.inodes[i].size \div BLOCK_CELLS
  PROVE  AddBlock(rd, i).rd.inodes[i].double = rd.inodes[i].double
<1> DEFINE got == Allocate(rd)
           pos == Position(k)
<1>1. /\ InHandFor(got) /\ got.rd.inodes = rd.inodes
  BY AllocateInHand
<1>2. pos.kind = "direct" \/ pos.kind = "indirect"
  BY NearPosition
<1>3. AddBlock(rd, i) = Attach(got, i, pos)
  BY DEF AddBlock
<1>4. got = InHand(got.block, got.rd)
  BY DEF Allocate, Granted, InHand
<1> HIDE DEF got, pos
<1>5. CASE got.block = NULL
  BY <1>1, <1>3, <1>5 DEF Attach
<1>6. CASE got.block # NULL /\ pos.kind = "direct"
  <2>1. AddBlock(rd, i).rd = [got.rd EXCEPT !.inodes[i].direct[pos.place] = got.block]
    BY <1>3, <1>4, <1>6 DEF Attach, InHand
  <2>2. got.rd.inodes \in [Inums -> Nodes] /\ got.rd.inodes[i] \in Nodes
    BY <1>1 DEF InHandFor, Sound, Disks
  <2>. QED  BY <1>1, <2>1, <2>2 DEF InHandFor, Sound, Disks, Nodes
<1>7. CASE got.block # NULL /\ pos.kind = "indirect"
  <2> DEFINE g == got.rd
             b == got.block
             f == [g EXCEPT !.inodes[i].indirect = b]
  <2>1. AddBlock(rd, i) = AddIndirect(g, i, b, pos.place)
    BY <1>3, <1>7 DEF Attach
  <2>2. g.inodes \in [Inums -> Nodes] /\ g.inodes[i] \in Nodes /\ g \in Disks
    BY <1>1 DEF InHandFor, Sound, Disks
  <2>3. \A h, t, c, place : h.inodes[i].double = g.inodes[i].double =>
          IntoIndirect(InHand(c, h), t, place).rd.inodes[i].double = g.inodes[i].double
    <3>1. \A h, t, c : h.inodes[i].double = g.inodes[i].double =>
            AddToTable(h, t, c).rd.inodes[i].double = g.inodes[i].double
      BY DEF AddToTable
    <3>. QED  BY <3>1 DEF IntoIndirect, InHand
  <2>4. f \in Disks /\ f.inodes[i].double = g.inodes[i].double
    <3>1. b \in Ptr
      BY <1>1, <1>7 DEF InHandFor, Ptr
    <3>. QED  BY <2>2, <3>1 DEF Disks, Nodes
  <2>5. Allocate(f) = InHand(Allocate(f).block, Allocate(f).rd)
    BY DEF Allocate, Granted, InHand
  <2> HIDE DEF g, f, b
  <2>6. Allocate(f).rd.inodes = f.inodes
    BY <2>4 DEF Allocate, Granted, Disks
  <2>7. g.inodes[i].indirect = NULL =>
          AddIndirect(g, i, b, pos.place) = IntoIndirect(Allocate(f), b, pos.place)
    BY DEF AddIndirect, f
  <2>8. g.inodes[i].indirect # NULL =>
          AddIndirect(g, i, b, pos.place)
            = IntoIndirect(InHand(b, g), g.inodes[i].indirect, pos.place)
    BY DEF AddIndirect
  <2>9. AddIndirect(g, i, b, pos.place).rd.inodes[i].double = g.inodes[i].double
    BY <2>3, <2>4, <2>5, <2>6, <2>7, <2>8
  <2>. QED  BY <1>1, <2>1, <2>9 DEF g
<1>. QED  BY <1>2, <1>5, <1>6, <1>7

(* A directory that gets a block does not lose one. *)
LEMMA AddBlockTended ==
  ASSUME NEW rd, Sound(rd), NEW i \in Inums, NEW k \in Near,
         k = rd.inodes[i].size \div BLOCK_CELLS, FirstMissing(rd, i, k)
  PROVE  Tended(rd, AddBlock(rd, i).rd, i)
<1> DEFINE e == AddBlock(rd, i).rd
<1>1. k \in Nat /\ \A j \in Nat : j < k => j \in Near
  BY InodeAssumption DEF Near
<1>2. FirstGap(rd, i, k)
  BY <1>1 DEF FirstGap, FirstMissing
<1>3. Position(k).kind # "none"
  BY NearPosition
<1>4. Tracks(rd, e, i, NULL)
  BY <1>1, <1>2, <1>3, AddBlockEnds
<1>5. e.inodes[i].double = rd.inodes[i].double
  BY AddBlockDouble
<1> HIDE DEF e
<1>6. Tended(rd, e, i)
  BY <1>4, <1>5, TracksKeeps DEF Tended
<1>. QED  BY <1>6 DEF e

-----------------------------------------------------------------------------
(***************************************************************************)
(* inode_remove_block, for the last of the near blocks: no other changes.  *)
(***************************************************************************)
Drops(rd, e, i, k) ==
  \A j \in Near : Blk(e, i, j) = IF j = k THEN NULL ELSE Blk(rd, i, j)

LEMMA DeallocateFields ==
  ASSUME NEW rd \in Disks, NEW b
  PROVE  /\ Deallocate(rd, b) \in Disks
         /\ Deallocate(rd, b).inodes = rd.inodes
         /\ \A c \in Blocks \ {b} : Deallocate(rd, b).ptrs[c] = rd.ptrs[c]
<1>1. CASE b \notin Blocks
  BY <1>1 DEF Deallocate
<1>2. CASE b \in Blocks
  <2>1. rd.ptrs \in [Blocks -> [Places -> Ptr]]
    BY DEF Disks
  <2>. QED  BY <1>2, <2>1, DeallocateResult, SMTT(20), ZenonT(40)
<1>. QED  BY <1>1, <1>2

LEMMA RemoveDirectNear ==
  ASSUME NEW rd, Sound(rd), NEW i \in Inums, NEW k \in Near, k < DIRECT_POINTERS
  PROVE  Drops(rd, [Deallocate(rd, rd.inodes[i].direct[k]) EXCEPT !.inodes[i].direct[k] = NULL], i, k)
<1> DEFINE b == rd.inodes[i].direct[k]
           g == Deallocate(rd, b)
           t == rd.inodes[i].indirect
           node == [rd.inodes[i] EXCEPT !.direct[k] = NULL]
           f == [g EXCEPT !.inodes[i].direct[k] = NULL]
<1>1. rd \in Disks /\ OnePlace(rd) /\ k \in Directs /\ rd.inodes[i] \in Nodes
  BY NearTypes, DiskTypes DEF Sound
<1>2. g.inodes = rd.inodes /\ \A c \in Blocks \ {b} : g.ptrs[c] = rd.ptrs[c]
  BY <1>1, DeallocateFields
<1>3. t # NULL => t \in Blocks \ {b}
  <2>1. t \in Ptr
    BY <1>1, DiskTypes
  <2>2. t # NULL => t # b
    BY <1>1, InodePlaces DEF OnePlace
  <2>. QED  BY <2>1, <2>2 DEF Ptr
<1>4. /\ node.indirect = t
      /\ node.direct = [rd.inodes[i].direct EXCEPT ![k] = NULL]
  BY <1>1, NodeCleared
<1>5. g \in Disks
  BY <1>1, DeallocateFields
<1>6. f.inodes[i] = node /\ f.ptrs = g.ptrs
  BY <1>2, <1>5 DEF Disks
<1>7. rd.inodes[i].direct \in [Directs -> Ptr]
  BY <1>1, DiskTypes
<1> HIDE DEF f, g, node, t, b
<1>8. ASSUME NEW j \in Near
      PROVE  Blk(f, i, j) = IF j = k THEN NULL ELSE Blk(rd, i, j)
  <2>1. CASE j < DIRECT_POINTERS
    <3>1. j \in Directs
      BY <2>1, NearTypes
    <3>2. Blk(f, i, j) = node.direct[j] /\ Blk(rd, i, j) = rd.inodes[i].direct[j]
      BY <1>6, <2>1, NearBlk
    <3>. QED  BY <3>1, <3>2, <1>4, <1>7
  <2>2. CASE ~ (j < DIRECT_POINTERS)
    <3>1. j # k
      BY <2>2
    <3>2. /\ Blk(f, i, j) = BlockAt(f, t, j - DIRECT_POINTERS)
          /\ Blk(rd, i, j) = BlockAt(rd, t, j - DIRECT_POINTERS)
      BY <1>4, <1>6, <2>2, NearBlk DEF t
    <3>. QED  BY <3>1, <3>2, <1>2, <1>3, <1>6 DEF BlockAt
  <2>. QED  BY <2>1, <2>2
<1>. QED  BY <1>8 DEF Drops, f, g, b

LEMMA RemoveIndirectNear ==
  ASSUME NEW rd, Sound(rd), NEW i \in Inums, NEW k \in Near, ~ (k < DIRECT_POINTERS),
         \A j \in Near : k < j => Blk(rd, i, j) = NULL
  PROVE  Drops(rd, RemoveIndirect(rd, i, k - DIRECT_POINTERS), i, k)
<1> DEFINE place == k - DIRECT_POINTERS
           t == rd.inodes[i].indirect
           b == BlockAt(rd, t, place)
           g == Deallocate(rd, b)
           rd1 == ClearPlace(g, t, place)
           h == Deallocate(rd1, t)
           node == [rd.inodes[i] EXCEPT !.indirect = NULL]
           f == [h EXCEPT !.inodes[i].indirect = NULL]
<1>1. /\ rd \in Disks /\ OnePlace(rd) /\ place \in Places
      /\ rd.inodes[i] \in Nodes /\ t \in Ptr
  BY NearTypes, DiskTypes DEF Sound
<1>2. g \in Disks /\ g.inodes = rd.inodes /\ \A c \in Blocks \ {b} : g.ptrs[c] = rd.ptrs[c]
  BY <1>1, DeallocateFields
<1>3. t # NULL => t \in Blocks \ {b} /\ b = rd.ptrs[t][place]
  <2>1. SUFFICES ASSUME t # NULL PROVE t \in Blocks /\ t # b /\ b = rd.ptrs[t][place]
    OBVIOUS
  <2>2. t \in Blocks /\ b = rd.ptrs[t][place]
    BY <1>1, <2>1 DEF Ptr, BlockAt
  <2>3. t # b
    BY <1>1, <2>1, <2>2, InodePlaces DEF OnePlace
  <2>. QED  BY <2>2, <2>3
<1>4. RemoveIndirect(rd, i, place) = IF place # 0 THEN rd1 ELSE f
  BY DEF RemoveIndirect
<1>5. /\ rd1 \in Disks /\ rd1.inodes = rd.inodes
      /\ t # NULL => \A q \in Places : rd1.ptrs[t][q] = IF q = place THEN NULL ELSE rd.ptrs[t][q]
  <2>1. CASE t = NULL
    <3>1. rd1 = g
      BY <2>1 DEF ClearPlace
    <3>. QED  BY <2>1, <3>1, <1>2
  <2>2. CASE t # NULL
    <3>1. rd1 = [g EXCEPT !.ptrs[t][place] = NULL]
      BY <1>1, <2>2 DEF ClearPlace
    <3>2. NULL \in Ptr
      BY DEF Ptr
    <3> HIDE DEF g, rd1, place, t
    <3>3. /\ rd1 \in Disks /\ rd1.inodes = g.inodes
          /\ \A c \in Blocks, q \in Places :
               rd1.ptrs[c][q] = IF c = t /\ q = place THEN NULL ELSE g.ptrs[c][q]
      BY <1>1, <1>2, <1>3, <2>2, <3>1, <3>2, PtrReplaced
    <3>. QED  BY <1>2, <1>3, <2>2, <3>3
  <2>. QED  BY <2>1, <2>2
<1>6. h \in Disks /\ h.inodes = rd.inodes
  BY <1>5, DeallocateFields
<1>7. node.direct = rd.inodes[i].direct /\ node.indirect = NULL
  BY <1>1, NodeCleared
<1>8. f.inodes[i] = node
  BY <1>6 DEF Disks
<1>9. \A j \in Near : ~ (j < DIRECT_POINTERS) =>
        Blk(rd, i, j) = BlockAt(rd, t, j - DIRECT_POINTERS) /\ j - DIRECT_POINTERS \in Places
  BY NearBlk, NearTypes
<1> HIDE DEF f, h, node, rd1, g
<1>10. CASE place # 0
  <2>1. ASSUME NEW j \in Near
        PROVE  Blk(rd1, i, j) = IF j = k THEN NULL ELSE Blk(rd, i, j)
    <3>1. CASE j < DIRECT_POINTERS
      <4>1. j # k
        BY <3>1
      <4>. QED  BY <3>1, <4>1, <1>5, NearBlk
    <3>2. CASE ~ (j < DIRECT_POINTERS)
      <4>1. Blk(rd1, i, j) = BlockAt(rd1, t, j - DIRECT_POINTERS)
        BY <3>2, <1>5, NearBlk
      <4>2. j - DIRECT_POINTERS = place <=> j = k
        BY NearTypes
      <4> HIDE DEF t, place
      <4>3. CASE t = NULL
        BY <3>2, <4>1, <4>3, <1>9 DEF BlockAt
      <4>4. CASE t # NULL
        <5>1. rd1.ptrs[t][j - DIRECT_POINTERS]
                = IF j = k THEN NULL ELSE rd.ptrs[t][j - DIRECT_POINTERS]
          BY <3>2, <4>2, <4>4, <1>5, <1>9
        <5>. QED  BY <3>2, <4>1, <4>4, <5>1, <1>9 DEF BlockAt
      <4>. QED  BY <4>3, <4>4
    <3>. QED  BY <3>1, <3>2
  <2>. QED  BY <1>4, <1>10, <2>1 DEF Drops
<1>11. CASE place = 0
  <2>1. k = DIRECT_POINTERS
    BY <1>11, NearTypes
  <2>2. ASSUME NEW j \in Near
        PROVE  Blk(f, i, j) = IF j = k THEN NULL ELSE Blk(rd, i, j)
    <3>1. CASE j < DIRECT_POINTERS
      <4>1. j # k
        BY <3>1
      <4>. QED  BY <3>1, <4>1, <1>7, <1>8, NearBlk
    <3>2. CASE ~ (j < DIRECT_POINTERS)
      <4>1. Blk(f, i, j) = NULL
        BY <3>2, <1>7, <1>8, NearBlk DEF BlockAt
      <4>2. j # k => k < j
        BY <3>2, <2>1, NearTypes
      <4>. QED  BY <4>1, <4>2
    <3>. QED  BY <3>1, <3>2
  <2>. QED  BY <1>4, <1>11, <2>2 DEF Drops
<1>. QED  BY <1>10, <1>11

LEMMA RemoveBlockNear ==
  ASSUME NEW rd, Sound(rd), NEW i \in Inums, rd.inodes[i].size > 0,
         NEW k \in Near, k = (rd.inodes[i].size - 1) \div BLOCK_CELLS,
         \A j \in Near : k < j => Blk(rd, i, j) = NULL
  PROVE  /\ Drops(rd, RemoveBlock(rd, i), i, k)
         /\ Relinquishes(rd, RemoveBlock(rd, i), i, Blk(rd, i, k))
<1> DEFINE pos == Position(k)
<1>1. rd.inodes[i].size - 1 \in Nat
  BY DiskTypes DEF Sound
<1>2. Position(TruncDiv(rd.inodes[i].size - 1, BLOCK_CELLS)) = pos
  BY <1>1, SlotOf
<1>3. RemoveBlock(rd, i) =
        CASE pos.kind = "direct"   ->
         [Deallocate(rd, rd.inodes[i].direct[pos.place])
            EXCEPT !.inodes[i].direct[pos.place] = NULL]
        [] pos.kind = "indirect" -> RemoveIndirect(rd, i, pos.place)
        [] pos.kind = "double"   -> RemoveDouble(rd, i, pos)
        [] pos.kind = "none"     -> rd
  BY <1>2 DEF RemoveBlock
<1>4. k < DIRECT_POINTERS => pos.kind = "direct" /\ pos.place = k
  BY NearPosition
<1>5. ~ (k < DIRECT_POINTERS) => pos.kind = "indirect" /\ pos.place = k - DIRECT_POINTERS
  BY NearPosition
<1> HIDE DEF pos
<1>6. CASE k < DIRECT_POINTERS
  <2>1. RemoveBlock(rd, i) = [Deallocate(rd, rd.inodes[i].direct[k])
                                EXCEPT !.inodes[i].direct[k] = NULL]
    BY <1>3, <1>4, <1>6
  <2>2. Drops(rd, [Deallocate(rd, rd.inodes[i].direct[k])
                     EXCEPT !.inodes[i].direct[k] = NULL], i, k)
    BY <1>6, RemoveDirectNear
  <2>3. k \in Directs /\ Blk(rd, i, k) = rd.inodes[i].direct[k]
    BY <1>6, NearBlk, NearTypes
  <2>4. Relinquishes(rd, [Deallocate(rd, rd.inodes[i].direct[k])
                            EXCEPT !.inodes[i].direct[k] = NULL], i, rd.inodes[i].direct[k])
    BY <2>3, RemoveDirectTrims
  <2>. QED  BY <2>1, <2>2, <2>3, <2>4
<1>7. CASE ~ (k < DIRECT_POINTERS)
  <2>1. RemoveBlock(rd, i) = RemoveIndirect(rd, i, k - DIRECT_POINTERS)
    BY <1>3, <1>5, <1>7
  <2>2. /\ k - DIRECT_POINTERS \in Places
        /\ Blk(rd, i, k) = BlockAt(rd, rd.inodes[i].indirect, k - DIRECT_POINTERS)
    BY <1>7, NearBlk, NearTypes
  <2>3. Relinquishes(rd, RemoveIndirect(rd, i, k - DIRECT_POINTERS), i, Blk(rd, i, k))
    BY <2>2, RemoveIndirectTrims
  <2>. QED  BY <1>7, <2>1, <2>3, RemoveIndirectNear
<1>. QED  BY <1>6, <1>7

(* Position p is in block k. *)
LEMMA SlotBlock ==
  ASSUME NEW p \in Nat, NEW k \in Nat
  PROVE  (p \div BLOCK_CELLS = k) <=> (Slot(k, 0) <= p /\ p < Slot(k, 0) + BLOCK_CELLS)
<1> DEFINE l == p \div BLOCK_CELLS
           o == p % BLOCK_CELLS
<1>1. /\ BLOCK_CELLS \in Nat \ {0, 1} /\ 0 \in Offs /\ BLOCK_CELLS - 1 \in Offs
      /\ \A q \in Offs : q \in Nat /\ q < BLOCK_CELLS
  BY InodeAssumption DEF Offs
<1>2. l \in Nat /\ o \in Offs /\ p = Slot(l, o)
  BY SlotOf
<1> HIDE DEF l, o
<1>3. Slot(l, o) = Slot(l, 0) + o /\ Slot(l, 0) \in Nat
  BY <1>1, <1>2, SlotOrder
<1>4. Slot(k, BLOCK_CELLS - 1) = Slot(k, 0) + (BLOCK_CELLS - 1) /\ Slot(k, 0) \in Nat
  BY <1>1, SlotOrder
<1>5. l < k => p < Slot(k, 0)
  BY <1>1, <1>2, SlotOrder
<1>6. k < l => Slot(k, BLOCK_CELLS - 1) < p
  BY <1>1, <1>2, SlotOrder
<1>7. CASE l = k
  BY <1>1, <1>2, <1>3, <1>7 DEF l
<1>8. CASE l < k
  BY <1>2, <1>4, <1>5, <1>8 DEF l
<1>9. CASE k < l
  <2>1. Slot(k, 0) + BLOCK_CELLS <= p
    BY <1>1, <1>4, <1>6, <1>9
  <2>2. ~ (p < Slot(k, 0) + BLOCK_CELLS) /\ l # k
    BY <2>1, <1>1, <1>2, <1>4, <1>9
  <2>. QED  BY <2>2 DEF l
<1>. QED  BY <1>2, <1>7, <1>8, <1>9

-----------------------------------------------------------------------------
(***************************************************************************)
(* The blocks of a directory are those its size calls for, except that an  *)
(* empty one may have kept its first.                                      *)
(***************************************************************************)
BlocksInOrder(rd, d) ==
  \A k \in Near :
    /\ Slot(k, 0) < rd.inodes[d].size => Blk(rd, d, k) # NULL
    /\ rd.inodes[d].size <= Slot(k, 0) /\ k # 0 => Blk(rd, d, k) = NULL

(* A directory never has more entries than there are inodes but the root. *)
FewEntries(rd, d) == rd.inodes[d].size <= INODES - 1

LEMMA EntryNear ==
  ASSUME NEW p \in Nat, p < INODES - 1
  PROVE  p \div BLOCK_CELLS \in Near /\ p % BLOCK_CELLS \in Offs
<1>1. (DIRECT_POINTERS + BLOCK_PTRS) * BLOCK_CELLS \in Nat /\ INODES \in Nat
  BY InodeAssumption
<1>2. p < (DIRECT_POINTERS + BLOCK_PTRS) * BLOCK_CELLS
  <2> DEFINE m == (DIRECT_POINTERS + BLOCK_PTRS) * BLOCK_CELLS
  <2>1. m \in Nat /\ INODES - 1 <= m
    BY <1>1, DirectoryAssumption
  <2> HIDE DEF m
  <2>2. p < m
    BY <1>1, <2>1
  <2>. QED  BY <2>2 DEF m
<1>. QED  BY <1>2, SlotNear, SlotOf

(* Changing the size only *)
LEMMA SameBlk ==
  ASSUME NEW rd, NEW e, NEW i, e.ptrs = rd.ptrs,
         e.inodes[i].direct = rd.inodes[i].direct,
         e.inodes[i].indirect = rd.inodes[i].indirect, NEW k \in Near
  PROVE  Blk(e, i, k) = Blk(rd, i, k)
BY NearBlk DEF BlockAt

(***************************************************************************)
(* inode_reduce_size for one entry of a directory: its blocks stay in      *)
(* order, and what is not given back is not touched.                       *)
(***************************************************************************)
Shortens(rd, e, i) ==
  /\ Resizes(rd, e, i, rd.inodes[i].size - 1)
  /\ BlocksInOrder(e, i)
  /\ \A k \in Near : Blk(e, i, k) \in {NULL, Blk(rd, i, k)}
  /\ \A b \in Allocated(e) : e.data[b] = rd.data[b]
  /\ Tended(rd, e, i)

ShortensFrom(rd, rd1, i) ==
  \A k \in Near :
    /\ Slot(k, 0) < rd.inodes[i].size - 1 => Blk(rd1, i, k) # NULL
    /\ rd.inodes[i].size - 1 <= Slot(k, 0) /\ k # 0 => Blk(rd1, i, k) = NULL
    /\ Blk(rd1, i, k) \in {NULL, Blk(rd, i, k)}

(* All the blocks that the inode does not keep go back to the bitmap. *)
LEMMA DropsTended ==
  ASSUME NEW rd \in Disks, NEW e \in Disks, NEW i \in Inums, NEW k \in Near,
         Allocated(e) \subseteq Allocated(rd),
         Drops(rd, e, i, k), Relinquishes(rd, e, i, Blk(rd, i, k))
  PROVE  Tended(rd, e, i)
<1> SUFFICES ASSUME rd.inodes[i].double = NULL, NEW c \in Allocated(e), InTree(rd, i, c)
             PROVE  InTree(e, i, c)
  BY DEF Tended, Keeps, Relinquishes
<1>1. c # NULL
  BY DEF InTree
<1>2. CASE c = rd.inodes[i].indirect
  <2>1. e.inodes[i].indirect = c
    BY <1>2 DEF Relinquishes
  <2>. QED  BY <1>1, <2>1 DEF InTree
<1>3. CASE \E j \in Near : Blk(rd, i, j) = c
  <2>1. PICK j \in Near : Blk(rd, i, j) = c
    BY <1>3
  <2>2. j # k
    BY <2>1 DEF Relinquishes
  <2>3. Blk(e, i, j) = c
    BY <2>1, <2>2 DEF Drops
  <2>. QED  BY <1>1, <2>3, NearBlkTree
<1>. QED  BY <1>2, <1>3, NearTree

LEMMA ReduceKeepsBlock ==
  ASSUME NEW rd, Sound(rd), NEW i \in Inums, BlocksInOrder(rd, i), FewEntries(rd, i),
         rd.inodes[i].size > 0,
         GetBlock(rd, rd.inodes[i], rd.inodes[i].size - 1)
           = GetBlock(rd, rd.inodes[i], rd.inodes[i].size - 1 - 1)
  PROVE  ShortensFrom(rd, rd, i)
<1> DEFINE n == rd.inodes[i].size
<1>1. rd \in Disks /\ OnePlace(rd) /\ n \in Nat
  BY DiskTypes DEF Sound
<1>2. BLOCK_CELLS \in Nat \ {0, 1} /\ INODES \in Nat /\ 0 \in Offs
  BY InodeAssumption DEF Offs
<1>3. \A k \in Near : k \in Nat /\ Slot(k, 0) \in Nat
  BY <1>2, NearTypes, SlotOrder
<1>4. ASSUME NEW k \in Near, Slot(k, 0) = n - 1, k # 0
      PROVE  FALSE
  <2> DEFINE p == n - 1
             q == n - 1 - 1
             l == q \div BLOCK_CELLS
  <2>1. Slot(0, 0) < Slot(k, 0) /\ Slot(0, 0) \in Nat
    <3>1. 0 < k /\ k \in Nat
      BY <1>3, <1>4
    <3>. QED  BY <3>1, <1>2, SlotOrder
  <2>2. p \in Nat /\ q \in Nat /\ p = q + 1 /\ p < INODES - 1 /\ q < INODES - 1
    BY <1>1, <1>2, <1>3, <1>4, <2>1 DEF FewEntries
  <2>3. p \div BLOCK_CELLS = k
    BY <1>2, <1>3, <1>4, <2>2, SlotBlock
  <2>4. l \in Near
    BY <2>2, EntryNear
  <2>5. Slot(l, 0) <= q
    BY <1>3, <2>2, <2>4, SlotBlock
  <2>6. GetBlock(rd, rd.inodes[i], p) = Blk(rd, i, k) /\ GetBlock(rd, rd.inodes[i], q) = Blk(rd, i, l)
    BY <2>2, <2>3, GetBlockIsBlk
  <2> HIDE DEF l, q
  <2>7. Blk(rd, i, k) # NULL
    BY <1>1, <1>4 DEF BlocksInOrder
  <2>8. k = l
    BY <1>1, <2>4, <2>6, <2>7, NearBlkOnce DEF q
  <2>. QED  BY <1>3, <1>4, <2>2, <2>5, <2>8
<1>. QED  BY <1>1, <1>3, <1>4 DEF BlocksInOrder, ShortensFrom

LEMMA ReduceRemovesBlock ==
  ASSUME NEW rd, Sound(rd), NEW i \in Inums, BlocksInOrder(rd, i), FewEntries(rd, i),
         rd.inodes[i].size > 0,
         GetBlock(rd, rd.inodes[i], rd.inodes[i].size - 1)
           # GetBlock(rd, rd.inodes[i], rd.inodes[i].size - 1 - 1)
  PROVE  LET e == RemoveBlock(rd, i) IN
         /\ ShortensFrom(rd, e, i)
         /\ Tended(rd, e, i)
<1> DEFINE n == rd.inodes[i].size
           p == n - 1
           q == n - 1 - 1
           k == p \div BLOCK_CELLS
           e == RemoveBlock(rd, i)
<1>1. rd \in Disks /\ OnePlace(rd) /\ n \in Nat /\ p \in Nat
  BY DiskTypes DEF Sound
<1>2. BLOCK_CELLS \in Nat \ {0, 1} /\ INODES \in Nat /\ 0 \in Offs
  BY InodeAssumption DEF Offs
<1>3. \A j \in Near : j \in Nat /\ Slot(j, 0) \in Nat
  BY <1>2, NearTypes, SlotOrder
<1>4. p < INODES - 1 /\ k \in Near
  <2>1. p < INODES - 1
    BY <1>1, <1>2 DEF FewEntries
  <2>. QED  BY <1>1, <2>1, EntryNear
<1>5. p # 0
  <2>1. SUFFICES ASSUME p = 0 PROVE FALSE
    OBVIOUS
  <2>2. TruncDiv(0, BLOCK_CELLS) = 0 /\ TruncDiv(-1, BLOCK_CELLS) = 0
    BY <1>2 DEF TruncDiv
  <2>3. q = -1
    BY <2>1
  <2>. QED  BY <2>1, <2>2, <2>3 DEF GetBlock
<1>6. q \in Nat /\ p = q + 1
  BY <1>1, <1>5
<1>7. Slot(k, 0) <= p /\ p < Slot(k, 0) + BLOCK_CELLS
  BY <1>1, <1>4, <1>3, SlotBlock
<1>8. GetBlock(rd, rd.inodes[i], p) = Blk(rd, i, k)
      /\ GetBlock(rd, rd.inodes[i], q) = Blk(rd, i, q \div BLOCK_CELLS)
  BY <1>1, <1>6, GetBlockIsBlk
<1> HIDE DEF k
<1>9. ~ (Slot(k, 0) < p)
  <2>1. SUFFICES ASSUME Slot(k, 0) < p PROVE FALSE
    OBVIOUS
  <2>2. Slot(k, 0) <= q /\ q < Slot(k, 0) + BLOCK_CELLS
    BY <2>1, <1>2, <1>3, <1>4, <1>6, <1>7
  <2>3. q \div BLOCK_CELLS = k
    BY <2>2, <1>3, <1>4, <1>6, SlotBlock
  <2>. QED  BY <2>3, <1>8
<1>10. Slot(k, 0) = p
  BY <1>1, <1>3, <1>4, <1>7, <1>9
<1>11. \A j \in Near : k < j => Slot(k, 0) < Slot(j, 0)
  BY <1>2, <1>3, <1>4, SlotOrder
<1>12. \A j \in Near : k < j => Blk(rd, i, j) = NULL
  <2>1. TAKE j \in Near
  <2>2. HAVE k < j
  <2>3. n <= Slot(j, 0) /\ j # 0
    BY <1>1, <1>3, <1>4, <1>10, <1>11, <2>2
  <2>. QED  BY <2>3 DEF BlocksInOrder
<1>13. Drops(rd, e, i, k) /\ Relinquishes(rd, e, i, Blk(rd, i, k))
  BY <1>4, <1>12, RemoveBlockNear DEF k
<1>14. e \in Disks /\ Allocated(e) \subseteq Allocated(rd)
  BY RemoveBlockShrinks DEF Shrinks, Trims
<1> HIDE DEF e
<1>15. Tended(rd, e, i)
  BY <1>1, <1>4, <1>13, <1>14, DropsTended
<1>16. ASSUME NEW j \in Near
       PROVE  /\ Slot(j, 0) < n - 1 => Blk(e, i, j) # NULL
              /\ n - 1 <= Slot(j, 0) /\ j # 0 => Blk(e, i, j) = NULL
              /\ Blk(e, i, j) \in {NULL, Blk(rd, i, j)}
  <2>1. Blk(e, i, j) = IF j = k THEN NULL ELSE Blk(rd, i, j)
    BY <1>13 DEF Drops
  <2>2. Slot(j, 0) < n - 1 => Blk(rd, i, j) # NULL /\ j # k
    BY <1>1, <1>3, <1>10 DEF BlocksInOrder
  <2>3. n - 1 <= Slot(j, 0) /\ j # 0 /\ j # k => Blk(rd, i, j) = NULL
    <3>1. Slot(j, 0) = Slot(k, 0) => j = k
      BY <1>2, <1>3, <1>4, SlotOrder
    <3>2. n - 1 <= Slot(j, 0) /\ j # k => n <= Slot(j, 0)
      BY <1>1, <1>3, <1>10, <3>1
    <3>. QED  BY <3>2 DEF BlocksInOrder
  <2>. QED  BY <2>1, <2>2, <2>3
<1>. QED  BY <1>15, <1>16 DEF ShortensFrom, e

LEMMA ReduceSizeNear ==
  ASSUME NEW rd, Sound(rd), NEW i \in Inums, BlocksInOrder(rd, i), FewEntries(rd, i),
         rd.inodes[i].size > 0
  PROVE  Shortens(rd, ReduceSize(rd, i, 1), i)
<1> DEFINE node == rd.inodes[i]
           n    == node.size
           same == GetBlock(rd, node, n - 1) = GetBlock(rd, node, n - 1 - 1)
           rd1  == IF same THEN rd ELSE RemoveBlock(rd, i)
           e    == ReduceSize(rd, i, 1)
<1>1. rd \in Disks /\ n \in Nat /\ n - 1 \in Nat
  BY DiskTypes DEF Sound
<1>2. Resizes(rd, e, i, n - 1)
  BY <1>1, ReduceSizeResult
<1>3. ShortensFrom(rd, rd1, i) /\ Tended(rd, rd1, i)
  BY ReduceKeepsBlock, ReduceRemovesBlock DEF Tended, Keeps
<1>4. PICK given : Trims(rd, rd1, i, given, {})
  BY RemoveBlockShrinks, TrimsNothing DEF Shrinks
<1>5. e = [rd1 EXCEPT !.inodes[i].size = @ - 1]
  BY DEF ReduceSize
<1> HIDE DEF rd1
<1>6. Sound(rd1) /\ rd1.inodes[i].size = n
  BY <1>4, TrimsSound DEF Trims
<1>7. [rd1 EXCEPT !.inodes[i].size = @ - 1] = [rd1 EXCEPT !.inodes[i].size = n - 1]
  <2>1. [rd1 EXCEPT !.inodes[i].size = @ - 1] = [rd1 EXCEPT !.inodes[i].size = rd1.inodes[i].size - 1]
    OBVIOUS
  <2>. QED  BY <1>6, <2>1
<1>8. Retyped(rd1, e, i, [rd1.inodes[i] EXCEPT !.size = n - 1])
  BY <1>1, <1>5, <1>6, <1>7, SizeSet
<1> HIDE DEF e
<1>9. rd1.inodes[i] \in Nodes
  BY <1>6, DiskTypes DEF Sound
<1>10. /\ e.inodes[i].direct = rd1.inodes[i].direct
       /\ e.inodes[i].indirect = rd1.inodes[i].indirect
       /\ e.inodes[i].double = rd1.inodes[i].double
       /\ e.inodes[i].size = n - 1
       /\ e.ptrs = rd1.ptrs /\ e.data = rd1.data /\ Allocated(e) = Allocated(rd1)
  BY <1>1, <1>8, <1>9 DEF Retyped, Nodes
<1>11. \A k \in Near : Blk(e, i, k) = Blk(rd1, i, k)
  BY <1>10, SameBlk
<1>12. BlocksInOrder(e, i)
  BY <1>3, <1>10, <1>11 DEF BlocksInOrder, ShortensFrom
<1>13. \A b \in Allocated(e) : e.data[b] = rd.data[b]
  BY <1>4, <1>10, AllocatedFinite DEF Trims
<1>14. Tended(rd, e, i)
  <2>1. Tended(rd1, e, i)
    BY <1>6, <1>10, SameTended DEF Sound
  <2>. QED  BY <1>3, <2>1, TendedTransitive
<1>15. Shortens(rd, e, i)
  BY <1>2, <1>3, <1>11, <1>12, <1>13, <1>14 DEF Shortens, ShortensFrom
<1>. QED  BY <1>15 DEF e

-----------------------------------------------------------------------------
(***************************************************************************)
(* A directory in order: its entries are in a row, have different names,   *)
(* and are followed by free entries.                                       *)
(***************************************************************************)
Entries == {DirEntry(name, i) : name \in Names, i \in Inums}

CellsInOrder(rd, d) ==
  \A k \in Near, o \in Offs :
    Blk(rd, d, k) # NULL =>
      IF Slot(k, o) < rd.inodes[d].size THEN rd.data[Blk(rd, d, k)][o] \in Entries
      ELSE rd.data[Blk(rd, d, k)][o] = Zero

(* The entry at position p *)
DirCell(rd, d, p) == rd.data[Blk(rd, d, p \div BLOCK_CELLS)][p % BLOCK_CELLS]

NamesDiffer(rd, d) ==
  \A p, q \in 0 .. rd.inodes[d].size - 1 :
    DirCell(rd, d, p).name = DirCell(rd, d, q).name => p = q

InOrder(rd, d) ==
  FewEntries(rd, d) /\ BlocksInOrder(rd, d) /\ CellsInOrder(rd, d) /\ NamesDiffer(rd, d)

LEMMA EntryTypes ==
  /\ \A c \in Entries : c.name \in Names /\ c.data \in Inums /\ c # Zero /\ c \in Cells
  /\ NoName \notin Names /\ Zero \in Cells /\ Zero.name = NoName /\ Zero.data = Root
  /\ \A name \in Names, i \in Inums : /\ DirEntry(name, i) \in Entries
                                      /\ DirEntry(name, i).name = name
                                      /\ DirEntry(name, i).data = i
<1>1. NoName \notin Names
  BY NameAssumption
<1>2. Zero.name = NoName /\ Zero.data = Root /\ Zero \in Cells
  BY DEF NoName, Zero, Root, Cells
<1>3. \A name \in Names, i \in Inums : /\ DirEntry(name, i) \in Entries
                                       /\ DirEntry(name, i).name = name
                                       /\ DirEntry(name, i).data = i
  BY DEF Entries, DirEntry
<1>4. ASSUME NEW c \in Entries
      PROVE  c.name \in Names /\ c.data \in Inums /\ c # Zero /\ c \in Cells
  <2>1. PICK name \in Names, i \in Inums : c = DirEntry(name, i)
    BY DEF Entries
  <2>2. c.name = name /\ c.data = i
    BY <1>3, <2>1
  <2>3. c \in Cells
    BY <2>1 DEF Cells
  <2>. QED  BY <1>1, <1>2, <2>2, <2>3
<1>. QED  BY <1>1, <1>2, <1>3, <1>4

LEMMA SlotAtLeast ==
  ASSUME NEW k \in Nat
  PROVE  k * BLOCK_CELLS \in Nat /\ k <= k * BLOCK_CELLS /\ k * BLOCK_CELLS = Slot(k, 0)
<1>1. BLOCK_CELLS \in Nat \ {0, 1}
  BY InodeAssumption
<1>2. k * BLOCK_CELLS = k + k * (BLOCK_CELLS - 1) /\ k * (BLOCK_CELLS - 1) \in Nat
  BY <1>1
<1>3. Slot(k, 0) = k * BLOCK_CELLS
  BY <1>1 DEF Slot
<1>. QED  BY <1>2, <1>3

(* What an entry of a directory in order is, and where *)
LEMMA DirCellIs ==
  ASSUME NEW rd \in Disks, NEW d \in Inums, FewEntries(rd, d), BlocksInOrder(rd, d),
         NEW p \in 0 .. rd.inodes[d].size - 1
  PROVE  /\ p \in Nat /\ p < INODES - 1
         /\ p \div BLOCK_CELLS \in Near /\ p % BLOCK_CELLS \in Offs
         /\ p = Slot(p \div BLOCK_CELLS, p % BLOCK_CELLS)
         /\ Blk(rd, d, p \div BLOCK_CELLS) \in Blocks
         /\ InTree(rd, d, Blk(rd, d, p \div BLOCK_CELLS))
         /\ CellsInOrder(rd, d) => DirCell(rd, d, p) \in Entries
<1> DEFINE k == p \div BLOCK_CELLS
           o == p % BLOCK_CELLS
<1>1. rd.inodes[d].size \in Nat /\ INODES \in Nat
  BY DiskTypes, InodeAssumption
<1>2. p \in Nat /\ p < INODES - 1 /\ p < rd.inodes[d].size
  BY <1>1 DEF FewEntries
<1>3. k \in Near /\ o \in Offs /\ p = Slot(k, o)
  BY <1>2, EntryNear, SlotOf
<1>4. Slot(k, 0) <= p /\ Slot(k, 0) \in Nat
  BY <1>2, <1>3, SlotOf, SlotBlock, SlotAtLeast
<1> HIDE DEF k, o
<1>5. Blk(rd, d, k) # NULL
  BY <1>1, <1>2, <1>3, <1>4 DEF BlocksInOrder
<1>6. Blk(rd, d, k) \in Blocks /\ InTree(rd, d, Blk(rd, d, k))
  BY <1>3, <1>5, NearBlkTree
<1>7. CellsInOrder(rd, d) => rd.data[Blk(rd, d, k)][o] \in Entries
  BY <1>2, <1>3, <1>5 DEF CellsInOrder
<1>. QED  BY <1>2, <1>3, <1>6, <1>7 DEF k, o, DirCell

LEMMA DirCellSlot ==
  ASSUME NEW rd, NEW d, NEW k \in Near, NEW o \in Offs
  PROVE  DirCell(rd, d, Slot(k, o)) = rd.data[Blk(rd, d, k)][o]
BY SlotParts, NearTypes DEF DirCell

(***************************************************************************)
(* _ramdisk_find_directory_entry                                           *)
(***************************************************************************)
Finds(rd, d, name, found, p) ==
  /\ p \in 0 .. rd.inodes[d].size - 1
  /\ DirCell(rd, d, p).name = name
  /\ found = [inum |-> DirCell(rd, d, p).data,
              block |-> Blk(rd, d, p \div BLOCK_CELLS), off |-> p % BLOCK_CELLS]

Stops(rd, d, name) ==
  LET node == rd.inodes[d] IN
  {k \in 0 .. node.size - 1 :
     /\ k * BLOCK_CELLS < node.size
     /\ \/ GetBlock(rd, node, k * BLOCK_CELLS) = NULL
        \/ EntriesNamed(rd, GetBlock(rd, node, k * BLOCK_CELLS), name) # {}}

LEMMA StopsAt ==
  ASSUME NEW rd \in Disks, NEW d \in Inums, FewEntries(rd, d), BlocksInOrder(rd, d),
         NEW name, NEW k \in Stops(rd, d, name)
  PROVE  /\ k \in Near /\ GetBlock(rd, rd.inodes[d], k * BLOCK_CELLS) = Blk(rd, d, k)
         /\ Blk(rd, d, k) \in Blocks /\ EntriesNamed(rd, Blk(rd, d, k), name) # {}
<1> DEFINE n == rd.inodes[d].size
           b == GetBlock(rd, rd.inodes[d], k * BLOCK_CELLS)
<1>1. n \in Nat /\ INODES \in Nat /\ 0 \in Offs
  BY DiskTypes, InodeAssumption DEF Offs
<1>2. k \in 0 .. n - 1 /\ k * BLOCK_CELLS < n /\ (b = NULL \/ EntriesNamed(rd, b, name) # {})
  BY DEF Stops
<1>3. k \in Nat /\ k * BLOCK_CELLS \in Nat /\ k * BLOCK_CELLS = Slot(k, 0)
  BY <1>1, <1>2, SlotAtLeast
<1>4. Slot(k, 0) \in Nat /\ Slot(k, 0) < INODES - 1 /\ Slot(k, 0) < n
  BY <1>1, <1>2, <1>3 DEF FewEntries
<1>5. Slot(k, 0) \div BLOCK_CELLS = k
  BY <1>1, <1>3, SlotParts
<1>6. k \in Near
  BY <1>4, <1>5, EntryNear
<1>7. b = Blk(rd, d, k)
  BY <1>3, <1>5, GetBlockIsBlk
<1>8. b # NULL
  BY <1>4, <1>6, <1>7 DEF BlocksInOrder
<1>. QED  BY <1>2, <1>6, <1>7, <1>8, NearBlkTree

LEMMA StopsIfNamed ==
  ASSUME NEW rd \in Disks, NEW d \in Inums, FewEntries(rd, d), BlocksInOrder(rd, d),
         NEW p \in 0 .. rd.inodes[d].size - 1
  PROVE  Stops(rd, d, DirCell(rd, d, p).name) # {}
<1> DEFINE n == rd.inodes[d].size
           k == p \div BLOCK_CELLS
           o == p % BLOCK_CELLS
           name == DirCell(rd, d, p).name
<1>1. n \in Nat /\ 0 \in Offs
  BY DiskTypes, InodeAssumption DEF Offs
<1>2. p \in Nat /\ k \in Near /\ o \in Offs /\ p = Slot(k, o) /\ p < n
  BY <1>1, DirCellIs
<1>3. Slot(k, 0) <= p
  BY <1>2, SlotBlock, NearTypes
<1>4. k * BLOCK_CELLS \in Nat /\ k <= k * BLOCK_CELLS /\ k * BLOCK_CELLS = Slot(k, 0) /\ k \in Nat
  BY <1>2, SlotAtLeast, NearTypes
<1>5. GetBlock(rd, rd.inodes[d], k * BLOCK_CELLS) = Blk(rd, d, k)
  BY <1>1, <1>4, GetBlockIsBlk, SlotParts
<1>6. o \in EntriesNamed(rd, Blk(rd, d, k), name)
  BY <1>2 DEF EntriesNamed, DirCell
<1> HIDE DEF k, o, name
<1>7. k \in 0 .. n - 1 /\ k * BLOCK_CELLS < n
  BY <1>1, <1>2, <1>3, <1>4
<1>8. k \in Stops(rd, d, name)
  BY <1>5, <1>6, <1>7 DEF Stops
<1>. QED  BY <1>8 DEF name

LEMMA FindEntryStops ==
  ASSUME NEW rd \in Disks, NEW d \in Inums, FewEntries(rd, d), BlocksInOrder(rd, d), NEW name
  PROVE  \/ /\ FindEntry(rd, rd.inodes[d], name) = NotFound
            /\ rd.inodes[d].type # DIR \/ Stops(rd, d, name) = {}
         \/ /\ rd.inodes[d].type = DIR
            /\ \E k \in Near, o \in Offs :
               /\ Blk(rd, d, k) \in Blocks /\ rd.data[Blk(rd, d, k)][o].name = name
               /\ FindEntry(rd, rd.inodes[d], name)
                    = [inum |-> rd.data[Blk(rd, d, k)][o].data, block |-> Blk(rd, d, k), off |-> o]
               /\ rd.inodes[d].size > 0
<1> DEFINE node == rd.inodes[d]
           stops == Stops(rd, d, name)
           k == Min(stops)
           b == Blk(rd, d, k)
           o == Min(EntriesNamed(rd, b, name))
<1>1. FindEntry(rd, node, name) = IF node.type # DIR \/ stops = {} THEN NotFound
                                  ELSE EntryIn(rd, GetBlock(rd, node, Min(stops) * BLOCK_CELLS), name)
  BY DEF FindEntry, Stops
<1>2. node.size \in Nat
  BY DiskTypes
<1>3. CASE node.type # DIR \/ stops = {}
  BY <1>1, <1>3
<1>4. CASE node.type = DIR /\ stops # {}
  <2>1. stops \in SUBSET Nat /\ stops \subseteq 0 .. node.size - 1
    BY <1>2 DEF Stops
  <2>2. k \in stops
    BY <1>4, <2>1, MinIsLeast
  <2> HIDE DEF k
  <2>3. /\ k \in Near /\ GetBlock(rd, node, k * BLOCK_CELLS) = b
        /\ b \in Blocks /\ EntriesNamed(rd, b, name) # {}
    BY <2>2, StopsAt
  <2>4. EntriesNamed(rd, b, name) \in SUBSET Nat
    BY InodeAssumption DEF EntriesNamed, Offs
  <2>5. o \in EntriesNamed(rd, b, name)
    BY <2>3, <2>4, MinIsLeast
  <2>6. FindEntry(rd, node, name) = EntryIn(rd, b, name)
    BY <1>1, <1>4, <2>3 DEF k
  <2>7. b # NULL
    BY <2>3 DEF Blocks, NULL
  <2>8. EntryIn(rd, b, name) = [inum |-> rd.data[b][o].data, block |-> b, off |-> o]
    BY <2>7 DEF EntryIn
  <2>9. node.size > 0
    BY <1>2, <2>1, <2>2
  <2> HIDE DEF o, b
  <2>10. o \in Offs /\ rd.data[b][o].name = name
    BY <2>5 DEF EntriesNamed
  <2>. QED  BY <1>4, <2>3, <2>6, <2>8, <2>9, <2>10 DEF b
<1>. QED  BY <1>3, <1>4

LEMMA FindEntryResult ==
  ASSUME NEW rd \in Disks, NEW d \in Inums, rd.inodes[d].type = DIR => InOrder(rd, d),
         NEW name \in Names
  PROVE  LET found == FindEntry(rd, rd.inodes[d], name) IN
         \/ /\ found = NotFound
            /\ rd.inodes[d].type # DIR
               \/ \A p \in 0 .. rd.inodes[d].size - 1 : DirCell(rd, d, p).name # name
         \/ rd.inodes[d].type = DIR /\ \E p : Finds(rd, d, name, found, p)
<1> DEFINE found == FindEntry(rd, rd.inodes[d], name)
           n == rd.inodes[d].size
<1>1. CASE rd.inodes[d].type # DIR
  BY <1>1 DEF FindEntry
<1>2. CASE rd.inodes[d].type = DIR
  <2>1. FewEntries(rd, d) /\ BlocksInOrder(rd, d) /\ CellsInOrder(rd, d) /\ n \in Nat
    BY <1>2, DiskTypes DEF InOrder
  <2>2. CASE found = NotFound /\ Stops(rd, d, name) = {}
    BY <2>1, <2>2, StopsIfNamed
  <2>3. CASE \E k \in Near, o \in Offs :
               /\ Blk(rd, d, k) \in Blocks /\ rd.data[Blk(rd, d, k)][o].name = name
               /\ found = [inum |-> rd.data[Blk(rd, d, k)][o].data, block |-> Blk(rd, d, k), off |-> o]
    <3>1. PICK k \in Near, o \in Offs :
               /\ Blk(rd, d, k) \in Blocks /\ rd.data[Blk(rd, d, k)][o].name = name
               /\ found = [inum |-> rd.data[Blk(rd, d, k)][o].data, block |-> Blk(rd, d, k), off |-> o]
      BY <2>3
    <3> HIDE DEF found
    <3>2. Blk(rd, d, k) # NULL
      BY <3>1 DEF Blocks, NULL
    <3>3. rd.data[Blk(rd, d, k)][o] # Zero
      BY <3>1, EntryTypes
    <3>4. Slot(k, o) < n /\ Slot(k, o) \in Nat
      BY <2>1, <3>2, <3>3, SlotOrder, NearTypes DEF CellsInOrder
    <3>5. DirCell(rd, d, Slot(k, o)) = rd.data[Blk(rd, d, k)][o]
      BY DirCellSlot
    <3>6. Slot(k, o) \div BLOCK_CELLS = k /\ Slot(k, o) % BLOCK_CELLS = o
      BY SlotParts, NearTypes
    <3>7. Slot(k, o) \in 0 .. n - 1
      BY <2>1, <3>4
    <3>8. Finds(rd, d, name, found, Slot(k, o))
      BY <3>1, <3>5, <3>6, <3>7 DEF Finds
    <3>. QED  BY <1>2, <3>8 DEF found
  <2>. QED  BY <1>2, <2>1, <2>2, <2>3, FindEntryStops
<1>. QED  BY <1>1, <1>2

(* The empty name is that of the free entries, whose inode number is 0. *)
LEMMA FindNoName ==
  ASSUME NEW rd \in Disks, NEW d \in Inums, rd.inodes[d].type = DIR => InOrder(rd, d)
  PROVE  LET found == FindEntry(rd, rd.inodes[d], NoName) IN
         \/ found = NotFound
         \/ rd.inodes[d].type = DIR /\ rd.inodes[d].size > 0 /\ found.inum = Root
<1> DEFINE found == FindEntry(rd, rd.inodes[d], NoName)
           n == rd.inodes[d].size
<1>1. CASE rd.inodes[d].type # DIR
  BY <1>1 DEF FindEntry
<1>2. CASE rd.inodes[d].type = DIR
  <2>1. FewEntries(rd, d) /\ BlocksInOrder(rd, d) /\ CellsInOrder(rd, d) /\ n \in Nat
    BY <1>2, DiskTypes DEF InOrder
  <2>2. CASE found = NotFound
    BY <2>2
  <2>3. CASE \E k \in Near, o \in Offs :
               /\ Blk(rd, d, k) \in Blocks /\ rd.data[Blk(rd, d, k)][o].name = NoName
               /\ found = [inum |-> rd.data[Blk(rd, d, k)][o].data, block |-> Blk(rd, d, k), off |-> o]
               /\ n > 0
    <3>1. PICK k \in Near, o \in Offs :
               /\ Blk(rd, d, k) \in Blocks /\ rd.data[Blk(rd, d, k)][o].name = NoName
               /\ found = [inum |-> rd.data[Blk(rd, d, k)][o].data, block |-> Blk(rd, d, k), off |-> o]
               /\ n > 0
      BY <2>3
    <3> HIDE DEF found
    <3>2. Blk(rd, d, k) # NULL
      BY <3>1 DEF Blocks, NULL
    <3>3. rd.data[Blk(rd, d, k)][o] \notin Entries
      BY <3>1, EntryTypes
    <3>4. rd.data[Blk(rd, d, k)][o] = Zero
      BY <2>1, <3>2, <3>3 DEF CellsInOrder
    <3>5. found.inum = Root
      BY <3>1, <3>4, EntryTypes
    <3>. QED  BY <1>2, <3>1, <3>5 DEF found
  <2>. QED  BY <2>1, <2>2, <2>3, FindEntryStops
<1>. QED  BY <1>1, <1>2

-----------------------------------------------------------------------------
(***************************************************************************)
(* The directories of two disks: directory d is the same on both, or has   *)
(* an entry more on the second.                                            *)
(***************************************************************************)
DirKept(rd, e, d) ==
  /\ InOrder(e, d)
  /\ e.inodes[d].size = rd.inodes[d].size
  /\ \A p \in 0 .. rd.inodes[d].size - 1 : DirCell(e, d, p) = DirCell(rd, d, p)

DirExtended(rd, e, d, name, c) ==
  /\ InOrder(e, d)
  /\ e.inodes[d].size = rd.inodes[d].size + 1
  /\ \A p \in 0 .. rd.inodes[d].size - 1 : DirCell(e, d, p) = DirCell(rd, d, p)
  /\ DirCell(e, d, rd.inodes[d].size) = DirEntry(name, c)

(* Whether a directory is in order shows in its size, blocks and cells. *)
LEMMA SameInOrder ==
  ASSUME NEW rd \in Disks, NEW e, NEW d \in Inums, InOrder(rd, d),
         e.inodes[d].size = rd.inodes[d].size,
         \A k \in Near : Blk(e, d, k) = Blk(rd, d, k),
         \A k \in Near : Blk(rd, d, k) # NULL => e.data[Blk(rd, d, k)] = rd.data[Blk(rd, d, k)]
  PROVE  DirKept(rd, e, d)
<1>1. FewEntries(rd, d) /\ BlocksInOrder(rd, d) /\ CellsInOrder(rd, d) /\ NamesDiffer(rd, d)
  BY DEF InOrder
<1>2. FewEntries(e, d) /\ BlocksInOrder(e, d) /\ CellsInOrder(e, d)
  BY <1>1 DEF FewEntries, BlocksInOrder, CellsInOrder
<1>3. \A p \in 0 .. rd.inodes[d].size - 1 : DirCell(e, d, p) = DirCell(rd, d, p)
  <2>1. TAKE p \in 0 .. rd.inodes[d].size - 1
  <2>2. p \div BLOCK_CELLS \in Near /\ Blk(rd, d, p \div BLOCK_CELLS) \in Blocks
    BY <1>1, DirCellIs
  <2>3. Blk(rd, d, p \div BLOCK_CELLS) # NULL
    BY <2>2 DEF Blocks, NULL
  <2>. QED  BY <2>2, <2>3 DEF DirCell
<1>4. NamesDiffer(e, d)
  BY <1>1, <1>3 DEF NamesDiffer
<1>. QED  BY <1>2, <1>3, <1>4 DEF DirKept, InOrder

LEMMA KeptInOrder ==
  ASSUME NEW rd \in Disks, NEW e, NEW d \in Inums, InOrder(rd, d), Kept(rd, e, d)
  PROVE  DirKept(rd, e, d)
<1>1. e.inodes[d].size = rd.inodes[d].size
  BY DEF Kept
<1>2. /\ \A k \in Near : Blk(e, d, k) = Blk(rd, d, k)
      /\ \A k \in Near : Blk(rd, d, k) # NULL => e.data[Blk(rd, d, k)] = rd.data[Blk(rd, d, k)]
  BY KeptBlk
<1>. QED  BY <1>1, <1>2, SameInOrder

LEMMA DirKeptTransitive ==
  ASSUME NEW rd, NEW e, NEW f, NEW d, DirKept(rd, e, d), DirKept(e, f, d)
  PROVE  DirKept(rd, f, d)
BY DEF DirKept

-----------------------------------------------------------------------------
(***************************************************************************)
(* Writing the cells of a block, and the size, of inode i                  *)
(***************************************************************************)
Writes(rd, e, i, b, cells, n) ==
  /\ Sound(e) /\ Allocated(e) = Allocated(rd) /\ e.free_inodes = rd.free_inodes
  /\ OthersKept(rd, e, i)
  /\ e.inodes[i] = [rd.inodes[i] EXCEPT !.size = n]
  /\ e.ptrs = rd.ptrs /\ e.data = [rd.data EXCEPT ![b] = cells]

LEMMA WritesResult ==
  ASSUME NEW rd, Sound(rd), NEW i \in Inums, NEW b, InTree(rd, i, b),
         NEW cells \in [Offs -> Cells], NEW n \in Nat
  PROVE  Writes(rd, [[rd EXCEPT !.data[b] = cells] EXCEPT !.inodes[i].size = n], i, b, cells, n)
<1> DEFINE f == [rd EXCEPT !.data[b] = cells]
           e == [f EXCEPT !.inodes[i].size = n]
<1>1. rd \in Disks /\ OnePlace(rd) /\ b \in Blocks
  BY TreeAllocated, AllocatedFinite DEF Sound
<1>2. Rewritten(rd, f, b, cells)
  BY <1>1, CellsSet
<1> HIDE DEF f
<1>3. Retyped(f, e, i, [f.inodes[i] EXCEPT !.size = n])
  BY <1>2, SizeSet DEF Rewritten
<1> HIDE DEF e
<1>4. ASSUME NEW j \in Inums \ {i}
      PROVE  Kept(rd, e, j)
  <2>1. e.inodes[j] = rd.inodes[j]
    BY <1>2, <1>3 DEF Rewritten, Retyped
  <2>2. ~ InTree(rd, j, b)
    BY <1>1, TreesDisjoint
  <2>3. rd.data \in [Blocks -> [Offs -> Cells]]
    BY <1>1 DEF Disks
  <2>4. \A c \in Blocks : InTree(rd, j, c) => e.data[c] = rd.data[c] /\ e.ptrs[c] = rd.ptrs[c]
    BY <1>2, <1>3, <2>2, <2>3 DEF Rewritten, Retyped
  <2>. QED  BY <2>1, <2>4 DEF Kept
<1>5. Writes(rd, e, i, b, cells, n)
  BY <1>2, <1>3, <1>4 DEF Rewritten, Retyped, Writes, OthersKept
<1>. QED  BY <1>5 DEF e, f

-----------------------------------------------------------------------------
(***************************************************************************)
(* The entry that add_directory_entry writes to the block its position is  *)
(* in, and the size that counts it                                         *)
(***************************************************************************)
BlocksFor(rd, d, n) ==
  \A k \in Near :
    /\ Slot(k, 0) < n => Blk(rd, d, k) # NULL
    /\ n <= Slot(k, 0) /\ k # 0 => Blk(rd, d, k) = NULL

Extends(rd, e, d, name, c) ==
  /\ Sound(e) /\ OthersKept(rd, e, d) /\ e.free_inodes = rd.free_inodes
  /\ e.inodes[d].type = rd.inodes[d].type
  /\ DirExtended(rd, e, d, name, c)
  /\ Tended(rd, e, d)

PutsAt(rd, d, k, o, b, name, c) ==
  /\ k \in Near /\ o \in Offs /\ Slot(k, o) = rd.inodes[d].size
  /\ b \in Blocks /\ InTree(rd, d, b)
  /\ FreeEntries(rd, b) # {}
  /\ PutEntry(rd, b, name, c)
       = [rd EXCEPT !.data[b] = [rd.data[b] EXCEPT ![o] = DirEntry(name, c)]]

LEMMA PutEntryResult ==
  ASSUME NEW rd, Sound(rd), NEW d \in Inums, rd.inodes[d].size < INODES - 1,
         NEW k, k = rd.inodes[d].size \div BLOCK_CELLS,
         BlocksFor(rd, d, rd.inodes[d].size + 1),
         CellsInOrder(rd, d), NEW name, NEW c
  PROVE  PutsAt(rd, d, k, rd.inodes[d].size % BLOCK_CELLS, Blk(rd, d, k), name, c)
<1> DEFINE n == rd.inodes[d].size
           b == Blk(rd, d, k)
           o == n % BLOCK_CELLS
           free == FreeEntries(rd, b)
<1>1. rd \in Disks /\ n \in Nat
  BY DiskTypes DEF Sound
<1>2. k \in Near /\ o \in Offs /\ Slot(k, o) = n
  BY <1>1, EntryNear, SlotOf
<1>3. k \in Nat /\ Slot(k, 0) \in Nat /\ Slot(k, 0) <= n
  BY <1>1, <1>2, NearTypes, SlotBlock, SlotAtLeast
<1> HIDE DEF o
<1>4. b # NULL
  BY <1>1, <1>2, <1>3 DEF BlocksFor
<1>5. b \in Blocks /\ InTree(rd, d, b)
  BY <1>1, <1>2, <1>4, NearBlkTree
<1>6. \A q \in Offs : (rd.data[b][q] = Zero) <=> ~ (Slot(k, q) < n)
  BY <1>2, <1>4, EntryTypes DEF CellsInOrder
<1>7. o \in free
  <2>1. ~ (Slot(k, o) < n)
    BY <1>1, <1>2
  <2>2. rd.data[b][o] = Zero
    BY <1>2, <1>6, <2>1
  <2>. QED  BY <1>2, <2>2 DEF FreeEntries
<1>8. free \in SUBSET Nat /\ free \subseteq Offs
  <2>1. Offs \subseteq Nat
    BY InodeAssumption DEF Offs
  <2>2. free \subseteq Offs
    BY DEF FreeEntries
  <2>. QED  BY <2>1, <2>2
<1>9. Min(free) \in free /\ \A q \in free : Min(free) <= q
  BY <1>7, <1>8, MinIsLeast
<1>10. \A q \in Offs : Slot(k, q) = Slot(k, 0) + q /\ q \in Nat
  BY <1>3, SlotOrder, InodeAssumption DEF Offs
<1>11. \A q \in free : o <= q
  <2>1. TAKE q \in free
  <2>2. q \in Offs /\ ~ (Slot(k, q) < n)
    BY <1>6 DEF FreeEntries
  <2>3. Slot(k, q) = Slot(k, 0) + q /\ n = Slot(k, 0) + o /\ q \in Nat /\ o \in Nat
    BY <1>2, <1>10, <2>2
  <2>. QED  BY <1>3, <2>2, <2>3
<1>12. Min(free) = o
  <2> DEFINE m == Min(free)
  <2>1. m \in free /\ m <= o
    BY <1>7, <1>9
  <2> HIDE DEF m, free
  <2>2. m = o
    BY <2>1, <1>8, <1>10, <1>11, <1>2
  <2>. QED  BY <2>2 DEF m
<1>13. PutEntry(rd, b, name, c) = [rd EXCEPT !.data[b][o] = DirEntry(name, c)]
  BY <1>7, <1>12 DEF PutEntry
<1>14. rd.data \in [Blocks -> [Offs -> Cells]]
  BY <1>1 DEF Disks
<1>15. [rd EXCEPT !.data[b][o] = DirEntry(name, c)]
         = [rd EXCEPT !.data[b] = [rd.data[b] EXCEPT ![o] = DirEntry(name, c)]]
  BY <1>14
<1>16. PutsAt(rd, d, k, o, b, name, c)
  BY <1>2, <1>5, <1>7, <1>13, <1>15 DEF PutsAt
<1>. QED  BY <1>16 DEF o

LEMMA InsertResult ==
  ASSUME NEW rd, Sound(rd), NEW d \in Inums, rd.inodes[d].size < INODES - 1,
         NEW k, k = rd.inodes[d].size \div BLOCK_CELLS,
         BlocksFor(rd, d, rd.inodes[d].size + 1),
         CellsInOrder(rd, d), NamesDiffer(rd, d),
         NEW name \in Names, NEW c \in Inums,
         \A p \in 0 .. rd.inodes[d].size - 1 : DirCell(rd, d, p).name # name
  PROVE  Extends(rd, [PutEntry(rd, Blk(rd, d, k), name, c) EXCEPT !.inodes[d].size = @ + 1],
                 d, name, c)
<1> DEFINE n == rd.inodes[d].size
           b == Blk(rd, d, k)
           o == n % BLOCK_CELLS
           x == DirEntry(name, c)
           cells == [rd.data[b] EXCEPT ![o] = x]
           f == [rd EXCEPT !.data[b] = cells]
           e == [f EXCEPT !.inodes[d].size = n + 1]
<1>1. rd \in Disks /\ OnePlace(rd) /\ n \in Nat /\ n + 1 \in Nat /\ INODES \in Nat
  BY DiskTypes, InodeAssumption DEF Sound
<1>0. PutsAt(rd, d, k, o, b, name, c)
  BY PutEntryResult
<1>2. /\ k \in Near /\ o \in Offs /\ Slot(k, o) = n
      /\ b \in Blocks /\ InTree(rd, d, b)
      /\ PutEntry(rd, b, name, c) = f
  BY <1>0 DEF PutsAt
<1>3. rd.data \in [Blocks -> [Offs -> Cells]] /\ rd.data[b] \in [Offs -> Cells]
  BY <1>1, <1>2, DiskTypes DEF Disks
<1>4. x \in Entries /\ x \in Cells /\ x.name = name
  BY EntryTypes
<1>5. cells \in [Offs -> Cells]
  BY <1>3, <1>4
<1>7. [PutEntry(rd, b, name, c) EXCEPT !.inodes[d].size = @ + 1] = e
  <2>1. f.inodes = rd.inodes
    BY <1>1 DEF Disks
  <2>2. [f EXCEPT !.inodes[d].size = @ + 1] = [f EXCEPT !.inodes[d].size = f.inodes[d].size + 1]
    OBVIOUS
  <2>. QED  BY <1>2, <2>1, <2>2
<1>8. Writes(rd, e, d, b, cells, n + 1)
  BY <1>1, <1>2, <1>5, WritesResult
<1>9. rd.inodes[d] \in Nodes
  BY <1>1, DiskTypes
<1> HIDE DEF e, f
<1>10. /\ e.inodes[d].direct = rd.inodes[d].direct
       /\ e.inodes[d].indirect = rd.inodes[d].indirect
       /\ e.inodes[d].double = rd.inodes[d].double
       /\ e.inodes[d].type = rd.inodes[d].type
       /\ e.inodes[d].size = n + 1
       /\ e.ptrs = rd.ptrs /\ e.data = [rd.data EXCEPT ![b] = cells]
  BY <1>1, <1>8, <1>9 DEF Writes, Nodes
<1>11. \A j \in Near : Blk(e, d, j) = Blk(rd, d, j)
  <2>1. /\ e.ptrs = rd.ptrs
        /\ e.inodes[d].direct = rd.inodes[d].direct
        /\ e.inodes[d].indirect = rd.inodes[d].indirect
    BY <1>10
  <2>. QED  BY <2>1, SameBlk
<1> HIDE DEF o, x
<1>12. ASSUME NEW j \in Near, NEW q \in Offs, Blk(rd, d, j) # NULL
       PROVE  e.data[Blk(rd, d, j)][q] = IF Slot(j, q) = n THEN x ELSE rd.data[Blk(rd, d, j)][q]
  <2>1. Blk(rd, d, j) \in Blocks
    BY <1>1, <1>12, NearBlkTree
  <2>2. e.data[Blk(rd, d, j)][q]
          = IF Blk(rd, d, j) = b /\ q = o THEN x ELSE rd.data[Blk(rd, d, j)][q]
    <3>1. cells[q] = IF q = o THEN x ELSE rd.data[b][q]
      BY <1>2, <1>3
    <3> HIDE DEF cells
    <3>2. e.data[Blk(rd, d, j)] = IF Blk(rd, d, j) = b THEN cells ELSE rd.data[Blk(rd, d, j)]
      BY <1>2, <1>3, <1>10, <2>1
    <3>. QED  BY <3>1, <3>2
  <2>3. Blk(rd, d, j) = b => j = k
    BY <1>1, <1>2, <1>12, NearBlkOnce
  <2>4. Slot(j, q) = n <=> j = k /\ q = o
    BY <1>2, NearTypes, SlotOrder
  <2>. QED  BY <2>2, <2>3, <2>4
<1>13. FewEntries(e, d) /\ BlocksInOrder(e, d)
  <2>1. n + 1 <= INODES - 1
    BY <1>1
  <2>. QED  BY <1>10, <1>11, <2>1 DEF FewEntries, BlocksInOrder, BlocksFor
<1>14. CellsInOrder(e, d)
  <2>0. SUFFICES ASSUME NEW j \in Near, NEW q \in Offs, Blk(e, d, j) # NULL
                 PROVE  IF Slot(j, q) < e.inodes[d].size THEN e.data[Blk(e, d, j)][q] \in Entries
                        ELSE e.data[Blk(e, d, j)][q] = Zero
    BY DEF CellsInOrder
  <2>1. Blk(e, d, j) = Blk(rd, d, j) /\ Blk(rd, d, j) # NULL /\ e.inodes[d].size = n + 1
    BY <1>10, <1>11, <2>0
  <2>2. Slot(j, q) \in Nat
    BY SlotOrder, NearTypes
  <2>3. IF Slot(j, q) < n THEN rd.data[Blk(rd, d, j)][q] \in Entries
        ELSE rd.data[Blk(rd, d, j)][q] = Zero
    BY <2>1 DEF CellsInOrder
  <2>4. e.data[Blk(rd, d, j)][q] = IF Slot(j, q) = n THEN x ELSE rd.data[Blk(rd, d, j)][q]
    BY <1>12, <2>1
  <2>5. Slot(j, q) < n + 1 <=> Slot(j, q) < n \/ Slot(j, q) = n
    BY <2>2, <1>1
  <2>. QED  BY <1>1, <1>4, <2>1, <2>2, <2>3, <2>4, <2>5
<1>15. ASSUME NEW p \in 0 .. n
       PROVE  DirCell(e, d, p) = IF p = n THEN x ELSE DirCell(rd, d, p)
  <2> DEFINE j == p \div BLOCK_CELLS
             q == p % BLOCK_CELLS
  <2>0. e.inodes[d].size = n + 1
    BY <1>10
  <2>1. p \in 0 .. e.inodes[d].size - 1
    BY <1>1, <2>0
  <2>2. e \in Disks
    BY <1>8 DEF Writes, Sound
  <2>3. j \in Near /\ q \in Offs /\ p = Slot(j, q) /\ Blk(e, d, j) \in Blocks
    BY <1>13, <2>1, <2>2, DirCellIs
  <2> HIDE DEF j, q
  <2>4. Blk(rd, d, j) # NULL
    BY <1>11, <2>3 DEF Blocks, NULL
  <2>5. DirCell(e, d, p) = e.data[Blk(rd, d, j)][q] /\ DirCell(rd, d, p) = rd.data[Blk(rd, d, j)][q]
    BY <1>11, <2>3 DEF DirCell, j, q
  <2>. QED  BY <1>12, <2>3, <2>4, <2>5
<1>16. /\ \A p \in 0 .. n - 1 : DirCell(e, d, p) = DirCell(rd, d, p)
       /\ DirCell(e, d, n) = x
  BY <1>1, <1>15
<1>17. NamesDiffer(e, d)
  <2>1. e.inodes[d].size - 1 = n
    <3>1. e.inodes[d].size = n + 1
      BY <1>10
    <3>2. n \in Nat
      BY <1>1
    <3> HIDE DEF n
    <3>. QED  BY <3>1, <3>2
  <2>2. \A r \in 0 .. n : r # n => r \in 0 .. n - 1
    <3>1. n \in Nat
      BY <1>1
    <3> HIDE DEF n
    <3>. QED  BY <3>1
  <2>3. ASSUME NEW p \in 0 .. n, NEW q \in 0 .. n, DirCell(e, d, p).name = DirCell(e, d, q).name
        PROVE  p = q
    <3>1. CASE p = n \/ q = n
      BY <1>4, <1>15, <2>2, <2>3, <3>1
    <3>2. CASE p # n /\ q # n
      BY <1>15, <2>2, <2>3, <3>2 DEF NamesDiffer
    <3>. QED  BY <3>1, <3>2
  <2> HIDE DEF n
  <2>4. \A p, q \in 0 .. n : DirCell(e, d, p).name = DirCell(e, d, q).name => p = q
    BY <2>3
  <2>. QED  BY <2>1, <2>4 DEF NamesDiffer
<1>18. Tended(rd, e, d)
  <2>1. Allocated(e) = Allocated(rd)
    BY <1>8 DEF Writes
  <2>. QED  BY <1>1, <1>10, <2>1, SameTended
<1>19. Extends(rd, e, d, name, c)
  BY <1>8, <1>10, <1>13, <1>14, <1>16, <1>17, <1>18 DEF Writes, Extends, DirExtended, InOrder, x
<1>. QED  BY <1>7, <1>19

-----------------------------------------------------------------------------
(***************************************************************************)
(* _ramdisk_add_directory_entry with the new inode at hand: the directory  *)
(* gets the entry, or there was no block for it and nothing that can be    *)
(* seen has changed.                                                       *)
(***************************************************************************)
Stalls(rd, e, d) == Grows(rd, e, d) /\ DirKept(rd, e, d) /\ Tended(rd, e, d)

GrowsDirectory(rd, made, d, name, c) ==
  \/ made.inum = c /\ Extends(rd, made.rd, d, name, c)
  \/ made.inum = -1 /\ Stalls(rd, made.rd, d)

(* The block that the next entry belongs in *)
LEMMA NextBlock ==
  ASSUME NEW rd \in Disks, NEW d \in Inums, InOrder(rd, d), rd.inodes[d].size < INODES - 1,
         NEW k, k = rd.inodes[d].size \div BLOCK_CELLS
  PROVE  /\ rd.inodes[d].size \in Nat /\ k \in Near
         /\ Slot(k, 0) \in Nat /\ Slot(k, 0) <= rd.inodes[d].size
         /\ GetLastBlock(rd, rd.inodes[d]) = Blk(rd, d, k)
         /\ \A j \in Near : j # k =>
              /\ Slot(j, 0) < rd.inodes[d].size + 1 => Blk(rd, d, j) # NULL
              /\ rd.inodes[d].size + 1 <= Slot(j, 0) /\ j # 0 => Blk(rd, d, j) = NULL
         /\ Blk(rd, d, k) = NULL => Slot(k, 0) = rd.inodes[d].size /\ FirstMissing(rd, d, k)
<1> DEFINE n == rd.inodes[d].size
<1>1. n \in Nat /\ BlocksInOrder(rd, d) /\ BLOCK_CELLS \in Nat \ {0, 1} /\ 0 \in Offs
  BY DiskTypes, InodeAssumption DEF InOrder, Offs
<1>2. k \in Near
  BY <1>1, EntryNear
<1>3. \A j \in Near : j \in Nat /\ Slot(j, 0) \in Nat
  BY NearTypes, SlotAtLeast
<1>4. Slot(k, 0) <= n /\ n < Slot(k, 0) + BLOCK_CELLS
  BY <1>1, <1>2, <1>3, SlotBlock
<1>5. GetLastBlock(rd, rd.inodes[d]) = Blk(rd, d, k)
  BY <1>1, GetBlockIsBlk DEF GetLastBlock
<1>6. ASSUME NEW j \in Near, j # k
      PROVE  /\ Slot(j, 0) < n + 1 => Blk(rd, d, j) # NULL
             /\ n + 1 <= Slot(j, 0) /\ j # 0 => Blk(rd, d, j) = NULL
  <2>1. Slot(j, 0) # n
    <3>1. SUFFICES ASSUME Slot(j, 0) = n PROVE FALSE
      OBVIOUS
    <3>2. Slot(j, 0) \div BLOCK_CELLS = j
      BY <1>1, <1>3, SlotParts
    <3>. QED  BY <3>1, <3>2, <1>6
  <2>2. (Slot(j, 0) < n + 1 => Slot(j, 0) < n) /\ (n + 1 <= Slot(j, 0) => n <= Slot(j, 0))
    BY <1>1, <1>3, <2>1
  <2>. QED  BY <1>1, <2>2 DEF BlocksInOrder
<1>7. Blk(rd, d, k) = NULL => Slot(k, 0) = n
  BY <1>1, <1>2, <1>3, <1>4 DEF BlocksInOrder
<1>8. \A j \in Near : j < k => Blk(rd, d, j) # NULL
  <2>1. TAKE j \in Near
  <2>2. HAVE j < k
  <2>3. Slot(j, 0) < Slot(k, 0)
    BY <1>1, <1>2, <1>3, <2>2, SlotOrder
  <2>4. Slot(j, 0) < n
    BY <1>1, <1>2, <1>3, <1>4, <2>3
  <2>. QED  BY <1>1, <2>4 DEF BlocksInOrder
<1>. QED  BY <1>1, <1>2, <1>3, <1>4, <1>5, <1>6, <1>7, <1>8 DEF FirstMissing

LEMMA GrowIntoLast ==
  ASSUME NEW rd, Sound(rd), NEW d \in Inums, InOrder(rd, d), rd.inodes[d].size < INODES - 1,
         NEW name \in Names, NEW c \in Inums,
         \A p \in 0 .. rd.inodes[d].size - 1 : DirCell(rd, d, p).name # name,
         GetLastBlock(rd, rd.inodes[d]) # NULL
  PROVE  GrowsDirectory(rd, Grow([inum |-> c, rd |-> rd], d, name), d, name, c)
<1> DEFINE n == rd.inodes[d].size
           k == n \div BLOCK_CELLS
           b == Blk(rd, d, k)
           e == [PutEntry(rd, b, name, c) EXCEPT !.inodes[d].size = @ + 1]
<1>1. rd \in Disks /\ CellsInOrder(rd, d) /\ NamesDiffer(rd, d)
  BY DEF Sound, InOrder
<1>2. /\ k \in Near /\ GetLastBlock(rd, rd.inodes[d]) = b
      /\ \A j \in Near : j # k =>
              /\ Slot(j, 0) < n + 1 => Blk(rd, d, j) # NULL
              /\ n + 1 <= Slot(j, 0) /\ j # 0 => Blk(rd, d, j) = NULL
      /\ n \in Nat /\ Slot(k, 0) \in Nat /\ Slot(k, 0) <= n
  BY <1>1, NextBlock
<1>3. BlocksFor(rd, d, n + 1)
  <2> HIDE DEF k, n
  <2>1. ASSUME NEW j \in Near
        PROVE  /\ Slot(j, 0) < n + 1 => Blk(rd, d, j) # NULL
               /\ n + 1 <= Slot(j, 0) /\ j # 0 => Blk(rd, d, j) = NULL
    BY <1>2
  <2>. QED  BY <2>1 DEF BlocksFor
<1>4. PutsAt(rd, d, k, n % BLOCK_CELLS, b, name, c)
  BY <1>1, <1>3, PutEntryResult
<1>5. Extends(rd, e, d, name, c)
  BY <1>1, <1>3, InsertResult
<1> HIDE DEF k, n
<1>6. LastOrNew(rd, d) = InHand(b, rd)
  BY <1>2 DEF LastOrNew
<1>7. WithRoom(InHand(b, rd), d) = InHand(b, rd)
  BY <1>4 DEF WithRoom, InHand, PutsAt
<1>8. Insert(InHand(b, rd), d, name, c) = [inum |-> c, rd |-> e]
  BY <1>2 DEF Insert, InHand
<1> HIDE DEF e
<1>9. Grow([inum |-> c, rd |-> rd], d, name) = [inum |-> c, rd |-> e]
  BY <1>6, <1>7, <1>8 DEF Grow
<1>. QED  BY <1>5, <1>9 DEF GrowsDirectory

LEMMA GrowByBlock ==
  ASSUME NEW rd, Sound(rd), NEW d \in Inums, InOrder(rd, d), rd.inodes[d].size < INODES - 1,
         NEW name \in Names, NEW c \in Inums,
         \A p \in 0 .. rd.inodes[d].size - 1 : DirCell(rd, d, p).name # name,
         GetLastBlock(rd, rd.inodes[d]) = NULL
  PROVE  GrowsDirectory(rd, Grow([inum |-> c, rd |-> rd], d, name), d, name, c)
<1> DEFINE n == rd.inodes[d].size
           k == n \div BLOCK_CELLS
           got == AddBlock(rd, d)
           g == got.rd
           b == got.block
           e == [PutEntry(g, b, name, c) EXCEPT !.inodes[d].size = @ + 1]
<1>1. /\ rd \in Disks /\ CellsInOrder(rd, d) /\ NamesDiffer(rd, d) /\ BlocksInOrder(rd, d)
      /\ FewEntries(rd, d)
  BY DEF Sound, InOrder
<1>2. /\ k \in Near /\ Slot(k, 0) = n /\ n \in Nat /\ FirstMissing(rd, d, k)
      /\ \A j \in Near : j # k =>
              /\ Slot(j, 0) < n + 1 => Blk(rd, d, j) # NULL
              /\ n + 1 <= Slot(j, 0) /\ j # 0 => Blk(rd, d, j) = NULL
  BY <1>1, NextBlock
<1>3. Fresh(rd, got, d) /\ Appends(rd, got, d, k) /\ Tended(rd, g, d)
  BY <1>2, AddBlockFresh, AddBlockNear, AddBlockTended
<1>4. LastOrNew(rd, d) = got
  BY DEF LastOrNew
<1>5. Grow([inum |-> c, rd |-> rd], d, name) = Insert(WithRoom(got, d), d, name, c)
  BY <1>4 DEF Grow
<1> HIDE DEF got
<1>6. /\ Sound(g) /\ g \in Disks /\ g.inodes[d].size = n /\ g.inodes[d].type = rd.inodes[d].type
      /\ OthersKept(rd, g, d) /\ g.free_inodes = rd.free_inodes
      /\ \A x \in Allocated(rd) : g.data[x] = rd.data[x]
  BY <1>3 DEF Fresh, Grows, Sound
<1>7. \A j \in Near : Blk(rd, d, j) # NULL => g.data[Blk(rd, d, j)] = rd.data[Blk(rd, d, j)]
  BY <1>1, <1>6, NearBlkTree, TreeAllocated DEF Sound
<1>8. CASE b = NULL
  <2>1. \A j \in Near : Blk(g, d, j) = Blk(rd, d, j)
    BY <1>2, <1>3, <1>8 DEF Appends, FirstMissing
  <2>2. DirKept(rd, g, d)
    BY <1>1, <1>6, <1>7, <2>1, SameInOrder
  <2>3. Insert(WithRoom(got, d), d, name, c) = [inum |-> -1, rd |-> g]
    BY <1>8 DEF Insert, WithRoom
  <2>. QED  BY <1>3, <1>5, <2>2, <2>3 DEF GrowsDirectory, Stalls, Fresh
<1>9. CASE b # NULL
  <2>0. b = Blk(g, d, k) /\ b \in Allocated(g) /\ g.data[b] = ZeroCells
    BY <1>2, <1>3, <1>9 DEF Appends, Fresh
  <2>1. \A j \in Near : Blk(g, d, j) = IF j = k THEN b ELSE Blk(rd, d, j)
    BY <1>3 DEF Appends
  <2> HIDE DEF k, n, b, g
  <2>2. BlocksFor(g, d, n + 1)
    <3>1. ASSUME NEW j \in Near
          PROVE  /\ Slot(j, 0) < n + 1 => Blk(g, d, j) # NULL
                 /\ n + 1 <= Slot(j, 0) /\ j # 0 => Blk(g, d, j) = NULL
      BY <1>2, <1>9, <2>1
    <3>. QED  BY <3>1 DEF BlocksFor
  <2>3. CellsInOrder(g, d)
    <3>1. SUFFICES ASSUME NEW j \in Near, NEW q \in Offs, Blk(g, d, j) # NULL
                   PROVE  IF Slot(j, q) < n THEN g.data[Blk(g, d, j)][q] \in Entries
                          ELSE g.data[Blk(g, d, j)][q] = Zero
      BY <1>6 DEF CellsInOrder
    <3>2. CASE j = k
      <4>1. ~ (Slot(j, q) < n)
        <5>1. Slot(k, q) = Slot(k, 0) + q /\ q \in Nat
          BY <1>2, NearTypes, SlotOrder, InodeAssumption DEF Offs
        <5>. QED  BY <1>2, <3>2, <5>1
      <4>2. g.data[Blk(g, d, j)][q] = Zero
        BY <2>0, <2>1, <3>2 DEF ZeroCells
      <4>. QED  BY <4>1, <4>2
    <3>3. CASE j # k
      <4>1. Blk(g, d, j) = Blk(rd, d, j) /\ g.data[Blk(rd, d, j)] = rd.data[Blk(rd, d, j)]
        BY <1>7, <2>1, <3>1, <3>3
      <4>. QED  BY <1>1, <3>1, <4>1 DEF CellsInOrder, n
    <3>. QED  BY <3>2, <3>3
  <2>4. ASSUME NEW p \in 0 .. n - 1
        PROVE  DirCell(g, d, p) = DirCell(rd, d, p)
    <3> DEFINE j == p \div BLOCK_CELLS
    <3>1. p \in 0 .. rd.inodes[d].size - 1
      BY DEF n
    <3>2. j \in Near /\ Blk(rd, d, j) \in Blocks
      BY <1>1, <3>1, DirCellIs
    <3>3. Blk(rd, d, j) # NULL
      BY <3>2 DEF Blocks, NULL
    <3>4. Blk(g, d, j) = Blk(rd, d, j)
      BY <1>2, <2>1, <3>2, <3>3 DEF FirstMissing
    <3>. QED  BY <1>7, <3>2, <3>3, <3>4 DEF DirCell
  <2>5. NamesDiffer(g, d)
    BY <1>1, <1>6, <2>4 DEF NamesDiffer, n
  <2>6. /\ \A p \in 0 .. g.inodes[d].size - 1 : DirCell(g, d, p).name # name
        /\ g.inodes[d].size < INODES - 1 /\ k = g.inodes[d].size \div BLOCK_CELLS
    BY <1>6, <2>4 DEF n, k
  <2>7. PutsAt(g, d, k, g.inodes[d].size % BLOCK_CELLS, b, name, c)
    BY <1>6, <2>0, <2>2, <2>3, <2>6, PutEntryResult
  <2>8. Extends(g, e, d, name, c)
    BY <1>6, <2>0, <2>2, <2>3, <2>5, <2>6, InsertResult
  <2>9. WithRoom(got, d) = got
    BY <1>9, <2>7 DEF WithRoom, PutsAt, g, b
  <2>10. Insert(got, d, name, c) = [inum |-> c, rd |-> e]
    BY <1>9 DEF Insert, g, b
  <2> HIDE DEF e
  <2>11. Sound(e) /\ OthersKept(g, e, d)
    BY <2>8 DEF Extends
  <2>12. OthersKept(rd, e, d)
    BY <1>1, <1>6, <2>11, KeptTransitive DEF OthersKept, Sound
  <2>13. Tended(rd, e, d)
    BY <1>3, <2>8, TendedTransitive DEF Extends
  <2>14. Extends(rd, e, d, name, c)
    BY <1>6, <2>4, <2>8, <2>12, <2>13 DEF Extends, DirExtended, n
  <2>. QED  BY <1>5, <2>9, <2>10, <2>14 DEF GrowsDirectory
<1>. QED  BY <1>8, <1>9

LEMMA GrowResult ==
  ASSUME NEW rd, Sound(rd), NEW d \in Inums, InOrder(rd, d), rd.inodes[d].size < INODES - 1,
         NEW name \in Names, NEW c \in Inums,
         \A p \in 0 .. rd.inodes[d].size - 1 : DirCell(rd, d, p).name # name
  PROVE  GrowsDirectory(rd, Grow([inum |-> c, rd |-> rd], d, name), d, name, c)
BY GrowIntoLast, GrowByBlock

-----------------------------------------------------------------------------
(***************************************************************************)
(* The inode table: the inodes that are not allocated are as r_inode_init  *)
(* leaves them, and the superblock counts them.                            *)
(***************************************************************************)
Unallocated(rd) == {i \in Inums : rd.inodes[i].type = UNALLOCATED}

Counted(rd) ==
  /\ Sound(rd)
  /\ rd.free_inodes = Cardinality(Unallocated(rd))
  /\ \A i \in Unallocated(rd) : rd.inodes[i] = InitialInode

(* All inodes but c are as they were, as far as the inode table goes. *)
SameTable(rd, e, c) ==
  \A j \in Inums \ {c} : /\ e.inodes[j].type = rd.inodes[j].type
                         /\ j \in Unallocated(rd) => e.inodes[j] = rd.inodes[j]

LEMMA UnallocatedFinite ==
  ASSUME NEW rd
  PROVE  IsFiniteSet(Unallocated(rd)) /\ Cardinality(Unallocated(rd)) \in Nat
<1>1. IsFiniteSet(Inums)
  BY FS_Interval, InodeAssumption DEF Inums
<1>2. Unallocated(rd) \subseteq Inums
  BY DEF Unallocated
<1>3. IsFiniteSet(Unallocated(rd))
  BY <1>1, <1>2, FS_Subset
<1>. QED  BY <1>3, FS_CardinalityType

LEMMA CountedSame ==
  ASSUME NEW rd, NEW e, Counted(rd), Sound(e), e.free_inodes = rd.free_inodes,
         NEW d \in Inums, SameTable(rd, e, d), rd.inodes[d].type # UNALLOCATED,
         e.inodes[d].type = rd.inodes[d].type
  PROVE  Counted(e)
<1>1. Unallocated(e) = Unallocated(rd)
  BY DEF Unallocated, SameTable
<1>2. \A i \in Unallocated(e) : i # d
  BY DEF Unallocated
<1>. QED  BY <1>1, <1>2 DEF Counted, SameTable, Unallocated

LEMMA CountedTaken ==
  ASSUME NEW rd, NEW e, Counted(rd), Sound(e), NEW c \in Unallocated(rd),
         e.free_inodes = rd.free_inodes - 1, SameTable(rd, e, c),
         e.inodes[c].type # UNALLOCATED
  PROVE  Counted(e)
<1>1. Unallocated(e) = Unallocated(rd) \ {c}
  BY DEF Unallocated, SameTable
<1>2. Cardinality(Unallocated(e)) = Cardinality(Unallocated(rd)) - 1
  BY <1>1, UnallocatedFinite, FS_RemoveElement
<1>. QED  BY <1>1, <1>2 DEF Counted, SameTable, Unallocated

LEMMA CountedFreed ==
  ASSUME NEW rd, NEW e, Counted(rd), Sound(e), NEW c \in Inums, c \notin Unallocated(rd),
         e.free_inodes = rd.free_inodes + 1, SameTable(rd, e, c), e.inodes[c] = InitialInode
  PROVE  Counted(e)
<1>0. InitialInode.type = UNALLOCATED
  BY DEF InitialInode
<1>1. Unallocated(e) = Unallocated(rd) \cup {c}
  BY <1>0 DEF Unallocated, SameTable
<1>2. Cardinality(Unallocated(e)) = Cardinality(Unallocated(rd)) + 1
  BY <1>1, UnallocatedFinite, FS_AddElement
<1>3. \A i \in Unallocated(e) : e.inodes[i] = InitialInode
  <2>1. TAKE i \in Unallocated(e)
  <2>2. CASE i = c
    BY <2>2
  <2>3. CASE i # c
    BY <1>1, <2>3 DEF Counted, SameTable, Unallocated
  <2>. QED  BY <2>2, <2>3
<1>. QED  BY <1>2, <1>3 DEF Counted

(* The counter of inodes has no influence on the blocks. *)
Recounted(rd, e, n) ==
  /\ Sound(e) /\ Allocated(e) = Allocated(rd)
  /\ e.inodes = rd.inodes /\ e.data = rd.data /\ e.ptrs = rd.ptrs
  /\ e.free_inodes = n

LEMMA CountSet ==
  ASSUME NEW rd, Sound(rd), NEW n \in Int
  PROVE  Recounted(rd, [rd EXCEPT !.free_inodes = n], n)
<1> DEFINE e == [rd EXCEPT !.free_inodes = n]
<1>1. rd \in Disks
  BY DEF Sound
<1>2. /\ e.pool = rd.pool /\ e.free_inodes = n /\ e.inodes = rd.inodes
      /\ e.data = rd.data /\ e.ptrs = rd.ptrs /\ e \in Disks
  BY <1>1 DEF Disks
<1> HIDE DEF e
<1>3. \A x, a, k : IsPlace(x, a, k) => PtrAt(e, x, a, k) = PtrAt(rd, x, a, k)
  BY <1>2 DEF PtrAt, NodePtr
<1>4. Sound(e) /\ Allocated(e) = Allocated(rd)
  BY <1>2, <1>3, SamePointers
<1>5. Recounted(rd, e, n)
  BY <1>2, <1>4 DEF Recounted
<1>. QED  BY <1>5 DEF e

(***************************************************************************)
(* _ramdisk_allocate_inode                                                 *)
(***************************************************************************)
Takes(rd, e, c, type) ==
  /\ c \in Unallocated(rd)
  /\ Sound(e) /\ Allocated(e) = Allocated(rd)
  /\ e.inodes[c] = [InitialInode EXCEPT !.type = type]
  /\ \A j \in Inums \ {c} : e.inodes[j] = rd.inodes[j]
  /\ e.data = rd.data /\ e.ptrs = rd.ptrs
  /\ e.free_inodes = rd.free_inodes - 1

LEMMA AllocateInodeResult ==
  ASSUME NEW rd, Counted(rd), NEW type \in {FILE, DIR}
  PROVE  LET got == AllocateInode(rd, type) IN
         \/ got = [inum |-> -1, rd |-> rd] /\ Unallocated(rd) = {}
         \/ got.inum \in Inums /\ Takes(rd, got.rd, got.inum, type)
<1> DEFINE c == Min(Unallocated(rd))
           f == [rd EXCEPT !.inodes[c].type = type]
           n == rd.free_inodes - 1
           e == [f EXCEPT !.free_inodes = n]
<1>1. rd \in Disks /\ Sound(rd) /\ rd.free_inodes \in Int /\ n \in Int
  BY DiskTypes DEF Counted, Sound
<1>2. CASE Unallocated(rd) = {}
  BY <1>2 DEF AllocateInode, Unallocated
<1>3. CASE Unallocated(rd) # {}
  <2>1. rd.free_inodes # 0
    BY <1>3, UnallocatedFinite, FS_EmptySet DEF Counted
  <2>2. c \in Unallocated(rd) /\ c \in Inums
    BY <1>3, MinIsLeast, InodeAssumption DEF Unallocated, Inums
  <2>3. AllocateInode(rd, type)
          = [inum |-> c, rd |-> [rd EXCEPT !.inodes[c].type = type, !.free_inodes = @ - 1]]
    BY <1>3, <2>1 DEF AllocateInode, Unallocated
  <2>4. [rd EXCEPT !.inodes[c].type = type, !.free_inodes = @ - 1] = e
    <3> HIDE DEF c
    <3>. QED  BY <1>1 DEF Disks
  <2>5. Retyped(rd, f, c, [rd.inodes[c] EXCEPT !.type = type])
    BY <1>1, <2>2, TypeSet
  <2>6. rd.inodes[c] = InitialInode
    BY <2>2 DEF Counted
  <2> HIDE DEF c, f
  <2>7. Recounted(f, e, n)
    BY <1>1, <2>5, CountSet DEF Retyped
  <2> HIDE DEF n, e
  <2>8. Takes(rd, e, c, type)
    BY <2>2, <2>5, <2>6, <2>7 DEF Takes, Retyped, Recounted, n
  <2>. QED  BY <2>2, <2>3, <2>4, <2>8
<1>. QED  BY <1>2, <1>3

LEMMA TakesKept ==
  ASSUME NEW rd, NEW e, NEW c, NEW type, NEW j \in Inums \ {c}, Takes(rd, e, c, type)
  PROVE  Kept(rd, e, j)
BY DEF Takes, Kept

-----------------------------------------------------------------------------
(***************************************************************************)
(* The shapes of all the trees, and what keeps them and loses no block     *)
(***************************************************************************)
Shapes(rd) ==
  \A i \in Inums : /\ rd.inodes[i].type = FILE => Formed(rd, i)
                   /\ rd.inodes[i].type = DIR => rd.inodes[i].double = NULL

Tends(rd, e) == Shapes(rd) => Shapes(e) /\ NoneLost(rd, e)

LEMMA TendsTransitive ==
  ASSUME NEW rd, NEW e, NEW f, Tends(rd, e), Tends(e, f)
  PROVE  Tends(rd, f)
BY NoneLostTransitive DEF Tends

(* All trees but that of inode c are kept. *)
LEMMA KeptShapes ==
  ASSUME NEW rd \in Disks, Shapes(rd), NEW e, NEW c \in Inums, OthersKept(rd, e, c),
         e.inodes[c].type = FILE => Formed(e, c),
         e.inodes[c].type = DIR => e.inodes[c].double = NULL
  PROVE  Shapes(e)
<1>1. \A i \in Inums \ {c} : e.inodes[i] = rd.inodes[i] /\ (Formed(rd, i) => Formed(e, i))
  BY KeptFormed DEF OthersKept, Kept
<1>. QED  BY <1>1 DEF Shapes

(* A directory that is tended *)
LEMMA TendedTends ==
  ASSUME NEW rd \in Disks, NEW e \in Disks, NEW d \in Inums, OthersKept(rd, e, d),
         rd.inodes[d].type = DIR, e.inodes[d].type = DIR, Tended(rd, e, d)
  PROVE  Tends(rd, e)
<1> SUFFICES ASSUME Shapes(rd) PROVE Shapes(e) /\ NoneLost(rd, e)
  BY DEF Tends
<1>1. e.inodes[d].double = NULL /\ Keeps(rd, e, d)
  BY DEF Shapes, Tended
<1>2. e.inodes[d].type # FILE
  BY DEF FILE, DIR
<1>. QED  BY <1>1, <1>2, KeptShapes, KeepsNoneLost

(* An inode that is taken has no tree. *)
LEMMA TakesTends ==
  ASSUME NEW rd, Counted(rd), NEW e, NEW c, NEW type \in {FILE, DIR}, Takes(rd, e, c, type)
  PROVE  Tends(rd, e)
<1> SUFFICES ASSUME Shapes(rd) PROVE Shapes(e) /\ NoneLost(rd, e)
  BY DEF Tends
<1>1. /\ rd \in Disks /\ e \in Disks /\ c \in Inums /\ rd.inodes[c] = InitialInode
      /\ Allocated(e) = Allocated(rd) /\ e.ptrs = rd.ptrs
  BY DEF Counted, Sound, Takes, Unallocated
<1>2. /\ e.inodes[c].direct = [k \in Directs |-> NULL]
      /\ e.inodes[c].indirect = NULL /\ e.inodes[c].double = NULL
  BY DEF Takes, InitialInode
<1>3. OthersKept(rd, e, c)
  BY TakesKept DEF OthersKept
<1>4. Formed(e, c)
  BY <1>2 DEF Formed, Reaches, TablesFilled, Filled, BlockAt
<1>5. Keeps(rd, e, c)
  BY <1>1, <1>2, SameKeeps DEF InitialInode
<1>. QED  BY <1>1, <1>2, <1>3, <1>4, <1>5, KeptShapes, KeepsNoneLost

(* An inode whose tree is released and whose entry in the table is cleared *)
LEMMA FreedTends ==
  ASSUME NEW rd, Sound(rd), NEW e, NEW c \in Inums, NEW n, Freed(rd, e, c, n), Shapes(rd)
  PROVE  Shapes(e) /\ (Tight(rd, c) => NoneLost(rd, e))
<1>1. e.inodes[c].type = UNALLOCATED
  BY DEF Freed, InitialInode
<1>2. Shapes(e)
  BY <1>1, KeptShapes DEF Freed, Sound, UNALLOCATED, FILE, DIR
<1>. QED  BY <1>2, FreedNoneLost

-----------------------------------------------------------------------------
(***************************************************************************)
(* _ramdisk_add_directory_entry.  Either nothing happens; or inode c is    *)
(* taken, and the parent has an entry for it; or inode c is taken and the  *)
(* directories stay as they are, for want of a block.                      *)
(***************************************************************************)
AllInOrder(rd) == \A d \in Inums : rd.inodes[d].type = DIR => InOrder(rd, d)

(* The blocks and cells of the files other than inode c *)
FilesKept(rd, e, c) == \A j \in Inums \ {c} : rd.inodes[j].type = FILE => Kept(rd, e, j)

Created(rd, e, c, type) ==
  /\ Counted(e)
  /\ FilesKept(rd, e, c)
  /\ c \in Unallocated(rd)
  /\ e.inodes[c] = [InitialInode EXCEPT !.type = type]
  /\ e.inodes[c].type = type /\ e.inodes[c].size = 0
  /\ type = DIR => InOrder(e, c)
  /\ \A j \in Inums \ {c} : e.inodes[j].type = rd.inodes[j].type
  /\ Tends(rd, e)

DirsKept(rd, e, S) ==
  \A d \in Inums \ S : rd.inodes[d].type = DIR => DirKept(rd, e, d)

Refused(rd, made) == made.inum = -1 /\ made.rd = rd

Orphaned(rd, made, type) ==
  made.inum = -1 /\ \E c : Created(rd, made.rd, c, type) /\ DirsKept(rd, made.rd, {})

Entered(rd, made, d, name, type) ==
  /\ made.inum \in Inums
  /\ rd.inodes[d].type = DIR
  /\ Created(rd, made.rd, made.inum, type)
  /\ DirExtended(rd, made.rd, d, name, made.inum)
  /\ DirsKept(rd, made.rd, {d})

(* Free inodes are there only if no directory has an entry for each. *)
RoomLeft(rd) ==
  Unallocated(rd) # {} =>
    \A d \in Inums : rd.inodes[d].type = DIR => rd.inodes[d].size < INODES - 1

(* An inode as it is when it has just been taken is an empty directory. *)
LEMMA NewInOrder ==
  ASSUME NEW rd \in Disks, NEW c \in Inums, NEW type,
         rd.inodes[c] = [InitialInode EXCEPT !.type = type]
  PROVE  rd.inodes[c].type = type /\ rd.inodes[c].size = 0 /\ InOrder(rd, c)
<1>1. /\ rd.inodes[c].type = type /\ rd.inodes[c].size = 0
      /\ rd.inodes[c].direct = [k \in Directs |-> NULL] /\ rd.inodes[c].indirect = NULL
  BY DEF InitialInode
<1>2. \A k \in Near : Blk(rd, c, k) = NULL
  BY <1>1, NearBlk, NearTypes DEF BlockAt
<1>3. \A k \in Near : Slot(k, 0) \in Nat
  BY NearTypes, SlotAtLeast
<1>4. BlocksInOrder(rd, c)
  BY <1>1, <1>2, <1>3 DEF BlocksInOrder
<1>5. FewEntries(rd, c)
  BY <1>1, InodeAssumption DEF FewEntries
<1>6. CellsInOrder(rd, c) /\ NamesDiffer(rd, c)
  BY <1>1, <1>2 DEF CellsInOrder, NamesDiffer
<1>. QED  BY <1>1, <1>4, <1>5, <1>6 DEF InOrder

(* What the search says of a name that is not in the directory *)
LEMMA NotThere ==
  ASSUME NEW rd \in Disks, NEW d \in Inums, InOrder(rd, d), rd.inodes[d].type = DIR,
         NEW name \in Names, FindEntry(rd, rd.inodes[d], name).inum = -1
  PROVE  \A p \in 0 .. rd.inodes[d].size - 1 : DirCell(rd, d, p).name # name
<1> DEFINE found == FindEntry(rd, rd.inodes[d], name)
<1>1. \/ \A p \in 0 .. rd.inodes[d].size - 1 : DirCell(rd, d, p).name # name
      \/ \E p : Finds(rd, d, name, found, p)
  BY FindEntryResult
<1> HIDE DEF found
<1>2. ASSUME NEW p, Finds(rd, d, name, found, p) PROVE FALSE
  <2>1. p \in 0 .. rd.inodes[d].size - 1 /\ found.inum = DirCell(rd, d, p).data
    BY <1>2 DEF Finds
  <2>2. DirCell(rd, d, p) \in Entries
    BY <2>1, DirCellIs DEF InOrder
  <2>3. found.inum \in Inums
    BY <2>1, <2>2, EntryTypes
  <2>. QED  BY <2>3, InodeAssumption DEF found, Inums
<1>. QED  BY <1>1, <1>2

LEMMA CountedGrown ==
  ASSUME NEW rd, NEW g, NEW e, Counted(rd), NEW c, NEW type \in {FILE, DIR},
         Takes(rd, g, c, type), NEW d \in Inums \ {c}, rd.inodes[d].type = DIR,
         Sound(e), OthersKept(g, e, d), e.free_inodes = g.free_inodes,
         e.inodes[d].type = g.inodes[d].type, Tended(g, e, d)
  PROVE  Created(rd, e, c, type)
<1>1. c \in Inums /\ c \in Unallocated(rd) /\ g \in Disks
  BY DEF Takes, Unallocated, Sound
<1>2. g.inodes[c].type = type /\ g.inodes[c].size = 0 /\ InOrder(g, c)
  BY <1>1, NewInOrder DEF Takes
<1>3. Kept(g, e, c)
  BY <1>1 DEF OthersKept
<1>4. /\ e.inodes[c] = [InitialInode EXCEPT !.type = type]
      /\ e.inodes[c].type = type /\ e.inodes[c].size = 0
  BY <1>2, <1>3 DEF Kept, Takes
<1>5. InOrder(e, c)
  BY <1>1, <1>2, <1>3, KeptInOrder DEF DirKept
<1>6. \A j \in Inums \ {c, d} : e.inodes[j] = rd.inodes[j]
  BY DEF OthersKept, Kept, Takes
<1>7. e.inodes[d].type = rd.inodes[d].type
  BY DEF Takes
<1>8. d \notin Unallocated(rd) /\ type # UNALLOCATED
  BY DEF Unallocated, FILE, DIR, UNALLOCATED
<1>9. SameTable(rd, e, c)
  BY <1>6, <1>7, <1>8 DEF SameTable
<1>10. Counted(e)
  BY <1>1, <1>4, <1>8, <1>9, CountedTaken DEF Takes
<1>11. Tends(rd, e)
  <2>1. Tends(rd, g)
    BY TakesTends
  <2>2. e \in Disks /\ g.inodes[d].type = DIR /\ e.inodes[d].type = DIR
    BY DEF Takes, Sound
  <2>3. Tends(g, e)
    BY <1>1, <2>2, TendedTends
  <2>. QED  BY <2>1, <2>3, TendsTransitive
<1>12. FilesKept(rd, e, c)
  <2>1. SUFFICES ASSUME NEW j \in Inums \ {c}, rd.inodes[j].type = FILE
                 PROVE  Kept(rd, e, j)
    BY DEF FilesKept
  <2>2. j # d
    BY <2>1 DEF FILE, DIR
  <2>3. Kept(rd, g, j) /\ Kept(g, e, j)
    BY <2>2, TakesKept DEF OthersKept
  <2>. QED  BY <2>3, KeptTransitive, <1>1 DEF Counted, Sound
<1>. QED  BY <1>1, <1>4, <1>5, <1>9, <1>10, <1>11, <1>12 DEF Created, SameTable

LEMMA AddEntryResult ==
  ASSUME NEW rd, Counted(rd), AllInOrder(rd), RoomLeft(rd), NEW d \in Inums,
         NEW name \in Names \cup {NoName}, NEW type \in {FILE, DIR}
  PROVE  LET made == AddEntry(rd, d, name, type) IN
         \/ Refused(rd, made)
         \/ Orphaned(rd, made, type)
         \/ Entered(rd, made, d, name, type) /\ name \in Names
<1> DEFINE got == AllocateInode(rd, type)
           made == AddEntry(rd, d, name, type)
<1>1. rd \in Disks
  BY DEF Counted, Sound
<1>2. CASE CannotAdd(rd, d, name) \/ got.inum < 0
  BY <1>2 DEF AddEntry, Refused
<1>3. CASE ~ (CannotAdd(rd, d, name) \/ got.inum < 0)
  <2> DEFINE c == got.inum
             g == got.rd
  <2>1. rd.inodes[d].type = DIR /\ name \in Names /\ FindEntry(rd, rd.inodes[d], name).inum = -1
    BY <1>3 DEF CannotAdd
  <2>2. got = [inum |-> -1, rd |-> rd] \/ (c \in Inums /\ Takes(rd, g, c, type))
    BY AllocateInodeResult
  <2>3. c \in Inums /\ Takes(rd, g, c, type)
    BY <1>3, <2>2
  <2>4. made = Grow(got, d, name)
    BY <1>3 DEF AddEntry
  <2>5. Grow(got, d, name) = Grow([inum |-> c, rd |-> g], d, name)
    BY DEF Grow
  <2> HIDE DEF c, g, made, got
  <2>6. Sound(g) /\ g \in Disks /\ c \in Unallocated(rd) /\ c # d
    BY <2>1, <2>3 DEF Takes, Sound, Unallocated, DIR, UNALLOCATED
  <2>7. InOrder(rd, d) /\ rd.inodes[d].size < INODES - 1
    BY <2>1, <2>6 DEF AllInOrder, RoomLeft
  <2>8. \A x \in Inums : rd.inodes[x].type = DIR => x # c /\ DirKept(rd, g, x)
    <3>1. TAKE x \in Inums
    <3>2. HAVE rd.inodes[x].type = DIR
    <3>3. x # c
      BY <2>6, <3>2 DEF Unallocated, DIR, UNALLOCATED
    <3>4. Kept(rd, g, x)
      BY <2>3, <3>3, TakesKept
    <3>. QED  BY <1>1, <3>2, <3>3, <3>4, KeptInOrder DEF AllInOrder
  <2>9. DirKept(rd, g, d) /\ g.inodes[d] = rd.inodes[d]
    BY <2>1, <2>3, <2>6, <2>8 DEF Takes
  <2>10. \A p \in 0 .. rd.inodes[d].size - 1 : DirCell(rd, d, p).name # name
    BY <1>1, <2>1, <2>7, NotThere
  <2>11. \A p \in 0 .. g.inodes[d].size - 1 : DirCell(g, d, p).name # name
    BY <2>9, <2>10 DEF DirKept
  <2>12. GrowsDirectory(g, Grow([inum |-> c, rd |-> g], d, name), d, name, c)
    BY <2>1, <2>3, <2>6, <2>7, <2>9, <2>11, GrowResult DEF DirKept
  <2>13. GrowsDirectory(g, made, d, name, c)
    BY <2>4, <2>5, <2>12
  <2>14. ASSUME NEW e, OthersKept(g, e, d), NEW x \in Inums \ {d}, rd.inodes[x].type = DIR
         PROVE  DirKept(rd, e, x)
    <3>1. DirKept(rd, g, x) /\ InOrder(g, x)
      BY <2>8, <2>14 DEF DirKept
    <3>2. DirKept(g, e, x)
      BY <2>6, <2>14, <3>1, KeptInOrder DEF OthersKept
    <3>. QED  BY <3>1, <3>2, DirKeptTransitive
  <2>15. CASE made.inum = c /\ Extends(g, made.rd, d, name, c)
    <3>1. Created(rd, made.rd, c, type)
      BY <2>1, <2>3, <2>6, <2>15, CountedGrown DEF Extends
    <3>2. DirExtended(rd, made.rd, d, name, c)
      BY <2>9, <2>15 DEF Extends, DirExtended, DirKept
    <3>3. DirsKept(rd, made.rd, {d})
      BY <2>14, <2>15 DEF Extends, DirsKept
    <3>. QED  BY <2>1, <2>3, <2>15, <3>1, <3>2, <3>3 DEF Entered, made
  <2>16. CASE made.inum = -1 /\ Stalls(g, made.rd, d)
    <3>1. Created(rd, made.rd, c, type)
      BY <2>1, <2>3, <2>6, <2>16, CountedGrown, SMTT(20), ZenonT(40) DEF Stalls, Grows
    <3>2. DirKept(rd, made.rd, d)
      BY <2>9, <2>16, DirKeptTransitive DEF Stalls
    <3>3. DirsKept(rd, made.rd, {})
      BY <2>14, <2>16, <3>2 DEF Stalls, Grows, DirsKept
    <3>. QED  BY <2>16, <3>1, <3>3 DEF Orphaned, made
  <2>. QED  BY <2>13, <2>15, <2>16 DEF GrowsDirectory, made
<1>. QED  BY <1>2, <1>3

-----------------------------------------------------------------------------
(***************************************************************************)
(* The end of rd_unlink, for the entry at position p: the last entry comes *)
(* into its place, and the directory is one entry shorter.                 *)
(***************************************************************************)
LastEntry(rd, d) == rd.inodes[d].size - 1

MovedCell(rd, d, p, k, o) ==
  IF Slot(k, o) = LastEntry(rd, d) THEN Zero
  ELSE IF Slot(k, o) = p THEN DirCell(rd, d, LastEntry(rd, d))
  ELSE rd.data[Blk(rd, d, k)][o]

Moves(rd, e, d, p) ==
  /\ Sound(e) /\ OthersKept(rd, e, d) /\ Allocated(e) = Allocated(rd)
  /\ e.inodes = rd.inodes /\ e.free_inodes = rd.free_inodes /\ e.ptrs = rd.ptrs
  /\ \A k \in Near, o \in Offs :
       Blk(rd, d, k) # NULL => e.data[Blk(rd, d, k)][o] = MovedCell(rd, d, p, k, o)

(* One cell of a block is written. *)
CellWritten(rd, e, b, o, cell) ==
  /\ Sound(e) /\ Allocated(e) = Allocated(rd)
  /\ e.inodes = rd.inodes /\ e.free_inodes = rd.free_inodes /\ e.ptrs = rd.ptrs
  /\ \A t \in Blocks \ {b} : e.data[t] = rd.data[t]
  /\ \A t \in Blocks, q \in Offs :
       e.data[t][q] = IF t = b /\ q = o THEN cell ELSE rd.data[t][q]

LEMMA WriteCell ==
  ASSUME NEW rd, Sound(rd), NEW b \in Blocks, NEW o \in Offs, NEW cell \in Cells
  PROVE  CellWritten(rd, [rd EXCEPT !.data[b][o] = cell], b, o, cell)
<1> DEFINE cells == [rd.data[b] EXCEPT ![o] = cell]
           e == [rd EXCEPT !.data[b] = cells]
<1>1. rd.data \in [Blocks -> [Offs -> Cells]]
  BY DEF Sound, Disks
<1>2. rd.data[b] \in [Offs -> Cells]
  BY <1>1
<1>3. cells \in [Offs -> Cells]
  BY <1>2
<1>4. [rd EXCEPT !.data[b][o] = cell] = e
  BY <1>1
<1>5. \A q \in Offs : cells[q] = IF q = o THEN cell ELSE rd.data[b][q]
  BY <1>2
<1> HIDE DEF cells
<1>6. Rewritten(rd, e, b, cells)
  BY <1>3, CellsSet
<1> HIDE DEF e
<1>7. e.data = [rd.data EXCEPT ![b] = cells]
  BY <1>6 DEF Rewritten
<1>8. \A t \in Blocks : e.data[t] = IF t = b THEN cells ELSE rd.data[t]
  BY <1>1, <1>7
<1>9. CellWritten(rd, e, b, o, cell)
  BY <1>5, <1>6, <1>8 DEF CellWritten, Rewritten
<1>. QED  BY <1>4, <1>9

LEMMA WrittenOthersKept ==
  ASSUME NEW rd, Sound(rd), NEW d \in Inums, NEW e, NEW f, NEW b, NEW c, NEW x, NEW y,
         NEW o, NEW q, InTree(rd, d, b), InTree(rd, d, c),
         CellWritten(rd, e, b, o, x), CellWritten(e, f, c, q, y)
  PROVE  OthersKept(rd, f, d)
<1>1. SUFFICES ASSUME NEW j \in Inums \ {d}, NEW t \in Blocks, InTree(rd, j, t)
               PROVE  f.data[t] = rd.data[t] /\ f.ptrs[t] = rd.ptrs[t]
  BY DEF OthersKept, Kept, CellWritten
<1>2. t # b /\ t # c
  BY <1>1, TreesDisjoint DEF Sound
<1>. QED  BY <1>2 DEF CellWritten

LEMMA MovesResult ==
  ASSUME NEW rd, Sound(rd), NEW d \in Inums, InOrder(rd, d),
         NEW p \in 0 .. rd.inodes[d].size - 1,
         NEW kp, kp = p \div BLOCK_CELLS, NEW op, op = p % BLOCK_CELLS,
         NEW l, l = LastEntry(rd, d), NEW k, k = l \div BLOCK_CELLS, NEW o, o = l % BLOCK_CELLS,
         NEW e, CellWritten(rd, e, Blk(rd, d, kp), op, DirCell(rd, d, l)),
         NEW f, CellWritten(e, f, Blk(rd, d, k), o, Zero)
  PROVE  Moves(rd, f, d, p)
<1> DEFINE b == Blk(rd, d, k)
           bp == Blk(rd, d, kp)
<1>1. /\ rd \in Disks /\ OnePlace(rd) /\ FewEntries(rd, d) /\ BlocksInOrder(rd, d)
      /\ rd.inodes[d].size \in Nat
  BY DiskTypes DEF Sound, InOrder
<1>2. l \in 0 .. rd.inodes[d].size - 1
  BY <1>1 DEF LastEntry
<1>3. /\ k \in Near /\ o \in Offs /\ l = Slot(k, o) /\ b \in Blocks /\ InTree(rd, d, b)
  BY <1>1, <1>2, DirCellIs
<1>4. /\ kp \in Near /\ op \in Offs /\ p = Slot(kp, op) /\ bp \in Blocks /\ InTree(rd, d, bp)
  BY <1>1, DirCellIs
<1>5. b # NULL /\ bp # NULL
  BY <1>3, <1>4 DEF Blocks, NULL
<1>6. OthersKept(rd, f, d)
  BY <1>3, <1>4, WrittenOthersKept
<1>7. ASSUME NEW j \in Near, NEW q \in Offs, Blk(rd, d, j) # NULL
      PROVE  f.data[Blk(rd, d, j)][q] = MovedCell(rd, d, p, j, q)
  <2> DEFINE t == Blk(rd, d, j)
  <2>1. t \in Blocks
    BY <1>1, <1>7, NearBlkTree
  <2>2. (t = b <=> j = k) /\ (t = bp <=> j = kp)
    BY <1>1, <1>3, <1>4, <1>5, <1>7, NearBlkOnce
  <2>3. j \in Nat /\ k \in Nat /\ kp \in Nat
    BY <1>3, <1>4, NearTypes
  <2>4. (Slot(j, q) = Slot(k, o) <=> j = k /\ q = o)
    BY <1>3, <2>3, SlotOrder, SMTT(30)
  <2>5. (Slot(j, q) = Slot(kp, op) <=> j = kp /\ q = op)
    BY <1>4, <2>3, SlotOrder
  <2>6. f.data[t][q] = IF t = b /\ q = o THEN Zero
                       ELSE IF t = bp /\ q = op THEN DirCell(rd, d, l)
                       ELSE rd.data[t][q]
    BY <2>1 DEF CellWritten
  <2> HIDE DEF t, b, bp
  <2>7. MovedCell(rd, d, p, j, q)
          = IF Slot(j, q) = l THEN Zero
            ELSE IF Slot(j, q) = p THEN DirCell(rd, d, l)
            ELSE rd.data[t][q]
    BY DEF MovedCell, t
  <2>8. (Slot(j, q) = l <=> t = b /\ q = o) /\ (Slot(j, q) = p <=> t = bp /\ q = op)
    BY <1>3, <1>4, <2>2, <2>4, <2>5
  <2>9. f.data[t][q] = MovedCell(rd, d, p, j, q)
    BY <2>6, <2>7, <2>8
  <2>. QED  BY <2>9 DEF t
<1>. QED  BY <1>6, <1>7 DEF Moves, CellWritten

Removes(rd, e, d, p) ==
  /\ Sound(e) /\ OthersKept(rd, e, d) /\ e.free_inodes = rd.free_inodes
  /\ Tended(rd, e, d)
  /\ e.inodes[d].type = rd.inodes[d].type
  /\ InOrder(e, d)
  /\ e.inodes[d].size = LastEntry(rd, d)
  /\ \A q \in 0 .. LastEntry(rd, d) - 1 :
       DirCell(e, d, q) = DirCell(rd, d, IF q = p THEN LastEntry(rd, d) ELSE q)

LEMMA ShortensAfterMove ==
  ASSUME NEW rd, Sound(rd), NEW d \in Inums, InOrder(rd, d), rd.inodes[d].size > 0,
         NEW p \in 0 .. rd.inodes[d].size - 1,
         NEW f, Moves(rd, f, d, p), NEW e, Shortens(f, e, d)
  PROVE  Removes(rd, e, d, p)
<1> DEFINE n == rd.inodes[d].size
           l == LastEntry(rd, d)
<1>1. /\ rd \in Disks /\ FewEntries(rd, d) /\ BlocksInOrder(rd, d) /\ CellsInOrder(rd, d)
      /\ NamesDiffer(rd, d) /\ f \in Disks /\ Sound(f) /\ f.inodes = rd.inodes
  BY DEF Sound, InOrder, Moves
<1>2. n \in Nat /\ l \in Nat /\ l = n - 1 /\ p \in Nat /\ p <= l /\ l \in 0 .. n - 1
  BY <1>1, DiskTypes DEF LastEntry
<1>3. /\ Sound(e) /\ e \in Disks /\ OthersKept(f, e, d) /\ e.free_inodes = f.free_inodes
      /\ e.inodes[d].type = rd.inodes[d].type /\ e.inodes[d].size = l
      /\ BlocksInOrder(e, d)
  BY <1>1, <1>2 DEF Shortens, Resizes, Sound
<1>4. OthersKept(rd, e, d)
  BY <1>1, <1>3, KeptTransitive DEF OthersKept, Moves
<1>5. \A k \in Near : Blk(f, d, k) = Blk(rd, d, k)
  BY <1>1, SameBlk DEF Moves
<1>6. ASSUME NEW k \in Near, NEW o \in Offs, Blk(e, d, k) # NULL
      PROVE  /\ Blk(rd, d, k) # NULL
             /\ e.data[Blk(e, d, k)][o] = MovedCell(rd, d, p, k, o)
  <2>1. Blk(e, d, k) = Blk(rd, d, k)
    BY <1>5, <1>6 DEF Shortens
  <2>2. Blk(e, d, k) \in Allocated(e)
    BY <1>3, <1>6, NearBlkTree, TreeAllocated DEF Sound
  <2>3. e.data[Blk(e, d, k)] = f.data[Blk(e, d, k)]
    BY <2>2 DEF Shortens
  <2>. QED  BY <1>6, <2>1, <2>3 DEF Moves
<1>7. \A k \in Near, o \in Offs : Slot(k, o) \in Nat
  <2>1. \A k \in Near : k \in Nat
    BY NearTypes
  <2>2. 0 \in Offs
    BY InodeAssumption DEF Offs
  <2>. QED  BY <2>1, <2>2, SlotOrder
<1>8. DirCell(rd, d, l) \in Entries
  BY <1>1, <1>2, DirCellIs
<1>9. CellsInOrder(e, d)
  <2>1. SUFFICES ASSUME NEW k \in Near, NEW o \in Offs, Blk(e, d, k) # NULL
                 PROVE  IF Slot(k, o) < l THEN e.data[Blk(e, d, k)][o] \in Entries
                        ELSE e.data[Blk(e, d, k)][o] = Zero
    BY <1>3 DEF CellsInOrder
  <2>2. Blk(rd, d, k) # NULL /\ e.data[Blk(e, d, k)][o] = MovedCell(rd, d, p, k, o)
    BY <1>6, <2>1
  <2>3. IF Slot(k, o) < n THEN rd.data[Blk(rd, d, k)][o] \in Entries
        ELSE rd.data[Blk(rd, d, k)][o] = Zero
    BY <1>1, <2>2 DEF CellsInOrder
  <2> HIDE DEF n, l
  <2>4. CASE Slot(k, o) < l
    <3>1. Slot(k, o) < n /\ Slot(k, o) # l
      BY <1>2, <1>7, <2>4
    <3>. QED  BY <1>8, <2>2, <2>3, <2>4, <3>1 DEF MovedCell, l
  <2>5. CASE ~ (Slot(k, o) < l)
    <3>1. Slot(k, o) = l \/ (Slot(k, o) # p /\ ~ (Slot(k, o) < n))
      BY <1>2, <1>7, <2>5
    <3>. QED  BY <2>2, <2>3, <2>5, <3>1 DEF MovedCell, l
  <2>. QED  BY <2>4, <2>5
<1>10. FewEntries(e, d)
  <2>1. n <= INODES - 1
    BY <1>1 DEF FewEntries
  <2>. QED  BY <1>2, <1>3, <2>1, InodeAssumption DEF FewEntries
<1>11. ASSUME NEW q \in 0 .. l - 1
       PROVE  DirCell(e, d, q) = DirCell(rd, d, IF q = p THEN l ELSE q)
  <2> DEFINE k == q \div BLOCK_CELLS
             o == q % BLOCK_CELLS
  <2>1. /\ k \in Near /\ o \in Offs /\ q = Slot(k, o) /\ Blk(e, d, k) \in Blocks
    BY <1>3, <1>10, DirCellIs
  <2>2. Blk(e, d, k) # NULL
    BY <2>1 DEF Blocks, NULL
  <2>3. DirCell(e, d, q) = MovedCell(rd, d, p, k, o)
    BY <1>6, <2>1, <2>2 DEF DirCell
  <2>4. DirCell(rd, d, q) = rd.data[Blk(rd, d, k)][o]
    BY DEF DirCell
  <2>5. q # l
    BY <1>2
  <2> HIDE DEF k, o
  <2>. QED  BY <2>1, <2>3, <2>4, <2>5 DEF MovedCell
<1>12. NamesDiffer(e, d)
  <2>1. SUFFICES ASSUME NEW q \in 0 .. l - 1, NEW r \in 0 .. l - 1,
                        DirCell(e, d, q).name = DirCell(e, d, r).name
                 PROVE  q = r
    BY <1>3 DEF NamesDiffer
  <2> DEFINE qo == IF q = p THEN l ELSE q
             ro == IF r = p THEN l ELSE r
  <2>2. qo \in 0 .. n - 1 /\ ro \in 0 .. n - 1
    BY <1>2
  <2>3. DirCell(rd, d, qo).name = DirCell(rd, d, ro).name
    BY <1>11, <2>1
  <2>4. qo = ro
    BY <1>1, <2>2, <2>3 DEF NamesDiffer
  <2>. QED  BY <1>2, <2>4
<1>13. InOrder(e, d)
  BY <1>3, <1>9, <1>10, <1>12 DEF InOrder
<1>14. Tended(rd, e, d)
  <2>1. Tended(rd, f, d)
    BY <1>1, SameTended DEF Moves
  <2>. QED  BY <2>1, TendedTransitive DEF Shortens
<1>. QED  BY <1>3, <1>4, <1>11, <1>13, <1>14 DEF Removes, Moves

LEMMA RemoveEntryResult ==
  ASSUME NEW rd, Sound(rd), NEW d \in Inums, InOrder(rd, d), rd.inodes[d].type = DIR,
         NEW name, NEW found, NEW p, Finds(rd, d, name, found, p)
  PROVE  Removes(rd, RemoveEntry(rd, d, found), d, p)
<1> DEFINE l == rd.inodes[d].size - 1
           b == GetBlock(rd, rd.inodes[d], l)
           o == l % BLOCK_CELLS
           k == l \div BLOCK_CELLS
           kp == p \div BLOCK_CELLS
           op == p % BLOCK_CELLS
           cell == rd.data[b][o]
           rd1 == [rd EXCEPT !.data[found.block][found.off] = cell]
           rd2 == [rd1 EXCEPT !.data[b][o] = Zero]
<1>1. RemoveEntry(rd, d, found) = ReduceSize(rd2, d, 1)
  BY DEF RemoveEntry
<1>2. /\ rd \in Disks /\ FewEntries(rd, d) /\ BlocksInOrder(rd, d) /\ CellsInOrder(rd, d)
      /\ p \in 0 .. rd.inodes[d].size - 1 /\ rd.inodes[d].size \in Nat
      /\ found.block = Blk(rd, d, kp) /\ found.off = op
  BY DiskTypes DEF InOrder, Finds, Sound
<1> HIDE DEF rd1, rd2
<1>3. rd.inodes[d].size > 0 /\ l = LastEntry(rd, d) /\ l \in 0 .. rd.inodes[d].size - 1
  BY <1>2 DEF LastEntry
<1>4. /\ kp \in Near /\ op \in Offs /\ Blk(rd, d, kp) \in Blocks
  BY <1>2, DirCellIs
<1>5. /\ k \in Near /\ o \in Offs /\ Blk(rd, d, k) \in Blocks /\ DirCell(rd, d, l) \in Entries
  BY <1>2, <1>3, DirCellIs
<1>6. b = Blk(rd, d, k)
  BY <1>3, GetBlockIsBlk
<1>7. cell = DirCell(rd, d, l)
  BY <1>6 DEF DirCell
<1>8. cell \in Cells
  BY <1>5, <1>7, EntryTypes
<1>9. CellWritten(rd, rd1, found.block, found.off, cell)
  <2> HIDE DEF cell, kp, op
  <2>. QED  BY <1>2, <1>4, <1>8, WriteCell DEF rd1
<1>10. Sound(rd1)
  BY <1>9 DEF CellWritten
<1>11. CellWritten(rd1, rd2, b, o, Zero)
  <2> HIDE DEF b, o, k
  <2>. QED  BY <1>5, <1>6, <1>10, EntryTypes, WriteCell DEF rd2
<1>12. Moves(rd, rd2, d, p)
  BY <1>2, <1>3, <1>6, <1>7, <1>9, <1>11, MovesResult
<1> HIDE DEF l, b, o, k, kp, op, cell
<1>13. \A j \in Near : Blk(rd2, d, j) = Blk(rd, d, j)
  BY <1>12, SameBlk DEF Moves
<1>14. Sound(rd2) /\ BlocksInOrder(rd2, d) /\ FewEntries(rd2, d) /\ rd2.inodes[d].size > 0
  BY <1>2, <1>3, <1>12, <1>13 DEF Moves, BlocksInOrder, FewEntries
<1>15. Shortens(rd2, ReduceSize(rd2, d, 1), d)
  BY <1>14, ReduceSizeNear
<1>. QED  BY <1>1, <1>2, <1>3, <1>12, <1>15, ShortensAfterMove

(***************************************************************************)
(* All that rd_unlink does to the disk for the entry at position p of      *)
(* directory d: the inode it leads to is released and freed, and the entry *)
(* goes.                                                                   *)
(***************************************************************************)
Unlinked(rd, e, d, p, c) ==
  /\ Counted(e)
  /\ FilesKept(rd, e, c)
  /\ Shapes(rd) => Shapes(e) /\ (Tight(rd, c) => NoneLost(rd, e))
  /\ e.inodes[c].type = UNALLOCATED
  /\ \A j \in Inums \ {c} : e.inodes[j].type = rd.inodes[j].type
  /\ DirsKept(rd, e, {c, d})
  /\ InOrder(e, d)
  /\ e.inodes[d].size = LastEntry(rd, d)
  /\ \A q \in 0 .. LastEntry(rd, d) - 1 :
       DirCell(e, d, q) = DirCell(rd, d, IF q = p THEN LastEntry(rd, d) ELSE q)

LEMMA DeallocateReleased ==
  ASSUME NEW rd, Sound(rd), NEW c \in Inums, rd.inodes[c].type # UNALLOCATED
  PROVE  Freed(rd, DeallocateInode(Release(rd, c), c), c, rd.free_inodes + 1)
<1> DEFINE e == Release(rd, c)
           n == rd.free_inodes + 1
<1>1. Released(rd, e, c, ToSet(ReleaseOrder(rd, rd.inodes[c])))
  BY ReleaseResult
<1>2. n \in Int
  BY DiskTypes DEF Sound
<1> HIDE DEF e
<1>3. e.inodes = rd.inodes /\ e.free_inodes = rd.free_inodes
  BY <1>1 DEF Released, Trims
<1>4. DeallocateInode(e, c) = [e EXCEPT !.inodes[c] = InitialInode, !.free_inodes = @ + 1]
  BY <1>3 DEF DeallocateInode
<1>5. [e EXCEPT !.inodes[c] = InitialInode, !.free_inodes = @ + 1]
        = [e EXCEPT !.inodes[c] = InitialInode, !.free_inodes = n]
  BY <1>3
<1>6. Freed(rd, [e EXCEPT !.inodes[c] = InitialInode, !.free_inodes = n], c, n)
  <2> HIDE DEF n
  <2>. QED  BY <1>2, FreedResult DEF e
<1>. QED  BY <1>4, <1>5, <1>6 DEF e

LEMMA UnlinkedResult ==
  ASSUME NEW rd, Counted(rd), AllInOrder(rd), NEW d \in Inums, rd.inodes[d].type = DIR,
         NEW name, NEW found, NEW p, Finds(rd, d, name, found, p),
         NEW c \in Inums \ {d}, c = found.inum, rd.inodes[c].type # UNALLOCATED
  PROVE  Unlinked(rd, RemoveEntry(DeallocateInode(Release(rd, c), c), d, found), d, p, c)
<1> DEFINE g == DeallocateInode(Release(rd, c), c)
           e == RemoveEntry(g, d, found)
<1>1. Sound(rd) /\ rd \in Disks
  BY DEF Counted, Sound
<1>2. Freed(rd, g, c, rd.free_inodes + 1)
  BY <1>1, DeallocateReleased
<1> HIDE DEF g
<1>3. Sound(g) /\ g \in Disks /\ \A x \in Inums \ {c} : g.inodes[x] = rd.inodes[x] /\ Kept(rd, g, x)
  BY <1>2 DEF Freed, Sound, OthersKept
<1>4. \A x \in Inums \ {c} : rd.inodes[x].type = DIR => DirKept(rd, g, x) /\ InOrder(g, x)
  BY <1>1, <1>3, KeptInOrder DEF AllInOrder, DirKept
<1>5. Finds(g, d, name, found, p)
  <2>1. /\ p \in 0 .. rd.inodes[d].size - 1 /\ DirCell(rd, d, p).name = name
        /\ found = [inum |-> DirCell(rd, d, p).data,
                    block |-> Blk(rd, d, p \div BLOCK_CELLS), off |-> p % BLOCK_CELLS]
    BY DEF Finds
  <2>2. p \div BLOCK_CELLS \in Near
    BY <1>1, <2>1, DirCellIs DEF AllInOrder, InOrder
  <2>3. Blk(g, d, p \div BLOCK_CELLS) = Blk(rd, d, p \div BLOCK_CELLS)
    BY <1>1, <1>3, <2>2, KeptBlk
  <2>4. g.inodes[d].size = rd.inodes[d].size /\ DirCell(g, d, p) = DirCell(rd, d, p)
    BY <1>4, <2>1 DEF DirKept
  <2>. QED  BY <2>1, <2>3, <2>4 DEF Finds
<1>6. g.inodes[d].type = DIR /\ InOrder(g, d) /\ DirKept(rd, g, d)
  BY <1>3, <1>4
<1>7. Removes(g, e, d, p)
  BY <1>3, <1>5, <1>6, RemoveEntryResult
<1> HIDE DEF e
<1>8. Sound(e) /\ OthersKept(g, e, d)
  BY <1>7 DEF Removes
<1>9. e.inodes[c] = InitialInode /\ \A j \in Inums \ {c, d} : e.inodes[j] = rd.inodes[j]
  BY <1>2, <1>3, <1>8 DEF OthersKept, Kept, Freed
<1>10. e.inodes[d].type = rd.inodes[d].type
  BY <1>3, <1>7 DEF Removes
<1>11. \A j \in Inums \ {c} : e.inodes[j].type = rd.inodes[j].type
  BY <1>9, <1>10
<1>12. Counted(e)
  <2>1. SameTable(rd, e, c)
    BY <1>9, <1>11 DEF SameTable, Unallocated, DIR, UNALLOCATED
  <2>2. c \notin Unallocated(rd)
    BY DEF Unallocated
  <2>3. e.free_inodes = rd.free_inodes + 1
    BY <1>2, <1>7 DEF Removes, Freed
  <2>. QED  BY <1>8, <1>9, <2>1, <2>2, <2>3, CountedFreed
<1>13. DirsKept(rd, e, {c, d})
  <2>1. SUFFICES ASSUME NEW x \in Inums \ {c, d}, rd.inodes[x].type = DIR
                 PROVE  DirKept(rd, e, x)
    BY DEF DirsKept
  <2>2. DirKept(g, e, x)
    BY <1>3, <1>4, <1>8, <2>1, KeptInOrder DEF OthersKept
  <2>. QED  BY <1>4, <2>1, <2>2, DirKeptTransitive
<1>14. \A q \in 0 .. LastEntry(rd, d) - 1 :
         DirCell(e, d, q) = DirCell(rd, d, IF q = p THEN LastEntry(rd, d) ELSE q)
  <2>1. LastEntry(g, d) = LastEntry(rd, d) /\ rd.inodes[d].size \in Nat
    BY <1>1, <1>3, DiskTypes DEF LastEntry
  <2>2. \A q \in 0 .. rd.inodes[d].size - 1 : DirCell(g, d, q) = DirCell(rd, d, q)
    BY <1>6 DEF DirKept
  <2>3. TAKE q \in 0 .. LastEntry(rd, d) - 1
  <2>4. q \in 0 .. rd.inodes[d].size - 1 /\ LastEntry(rd, d) \in 0 .. rd.inodes[d].size - 1
    BY <2>1 DEF LastEntry
  <2>5. DirCell(e, d, q) = DirCell(g, d, IF q = p THEN LastEntry(rd, d) ELSE q)
    BY <1>7, <2>1 DEF Removes
  <2>. QED  BY <2>2, <2>4, <2>5
<1>15. InOrder(e, d) /\ e.inodes[d].size = LastEntry(rd, d)
  BY <1>3, <1>7 DEF Removes, LastEntry
<1>16. e.inodes[c].type = UNALLOCATED
  BY <1>9 DEF InitialInode
<1>17. ASSUME Shapes(rd) PROVE Shapes(e) /\ (Tight(rd, c) => NoneLost(rd, e))
  <2>1. Shapes(g) /\ (Tight(rd, c) => NoneLost(rd, g))
    BY <1>1, <1>2, <1>17, FreedTends
  <2>2. e \in Disks /\ e.inodes[d].type = DIR /\ Tended(g, e, d)
    BY <1>7, <1>8, <1>10 DEF Removes, Sound
  <2>3. Tends(g, e)
    BY <1>3, <1>6, <1>8, <2>2, TendedTends
  <2>. QED  BY <2>1, <2>3, NoneLostTransitive DEF Tends
<1>18. FilesKept(rd, e, c)
  <2>1. SUFFICES ASSUME NEW j \in Inums \ {c}, rd.inodes[j].type = FILE
                 PROVE  Kept(rd, e, j)
    BY DEF FilesKept
  <2>2. j # d
    BY <2>1 DEF FILE, DIR
  <2>3. Kept(rd, g, j) /\ Kept(g, e, j)
    BY <1>3, <1>8, <2>2 DEF OthersKept
  <2>. QED  BY <1>1, <1>3, <1>8, <2>3, KeptTransitive DEF Sound
<1>19. Unlinked(rd, e, d, p, c)
  BY <1>11, <1>12, <1>13, <1>14, <1>15, <1>16, <1>17, <1>18 DEF Unlinked
<1>. QED  BY <1>19 DEF e, g

=============================================================================

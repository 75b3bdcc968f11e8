----------------------------- MODULE BitmapRuns -----------------------------
(***************************************************************************)
(* The functions of bitmap.c for runs of several blocks, which the RAM     *)
(* disk does not call, as operators on a pool; and what they do to it, on  *)
(* every bitmap with the overhead marked.                                  *)
(***************************************************************************)
EXTENDS BlockPool

(* The wrap around case comes one bit early: the last index is never used. *)
Wrapped(index) == IF index < 0 THEN index ELSE index % (TOTAL_BLOCKS - 1)

(***************************************************************************)
(* bitmap_findemptyblockofsize: the scan sees TOTAL_BLOCKS bits, bit 0 at  *)
(* its end again, and stops when consecutive[k], the number of clear bits  *)
(* it has just seen in a row, is the size asked for.                       *)
(***************************************************************************)
bitmap_findemptyblockofsize(size, pool) ==
  LET consecutive[k \in Bits] ==
        IF Wrapped(k) \in pool.used THEN 0
        ELSE IF k = 0 THEN 1 ELSE consecutive[k - 1] + 1
      found == {k \in Bits : consecutive[k] = size}
  IN  IF pool.num_empty = 0 \/ found = {} THEN -1
      ELSE Wrapped(Min(found) - size + 1)

(* The loops go round for count = 0 .. size, once more than size says. *)
Visited(index, size) == {Wrapped(index + count) : count \in 0 .. size}

(* bitmap_setatindex on each of them: the ones that are set, and index -1, *)
(* are refused.  The result is where the loop stood at its end.            *)
bitmap_setblockofsize(size, pool) ==
  LET index == bitmap_findemptyblockofsize(size, pool)
      newly == (Visited(index, size) \cap Bits) \ pool.used
  IN  IF pool.num_empty = 0 THEN [index |-> -1, pool |-> pool]
      ELSE [index |-> Wrapped(index + size),
            pool  |-> [pool EXCEPT !.used = @ \cup newly,
                                   !.num_empty = @ - Cardinality(newly) + size]]

(* bitmap_removeatindex counts each visit, whether the bit was set or not. *)
bitmap_removeblockofsize(index, size, pool) ==
  [pool EXCEPT !.used = @ \ Visited(index, size),
               !.num_empty = @ + (size + 1) + size]

-----------------------------------------------------------------------------
Pools == {[InitialPool EXCEPT !.used = Overhead \cup more, !.num_empty = count] :
            more \in SUBSET (Bits \ Overhead), count \in {-1, 1}}
Sizes == 1 .. FS_BLOCKS - 2

(* "Finds first empty block of given size": it does, among the bits below  *)
(* the last.  The wrap does no harm because the first bit is always set.   *)
ASSUME FindsTheFirstRun ==
  \A pool \in Pools, size \in Sizes :
    LET runs == {s \in Scanned(pool.used) : s .. s + size - 1 \subseteq Scanned(pool.used)}
    IN  bitmap_findemptyblockofsize(size, pool) = IF runs = {} THEN -1 ELSE Min(runs)

(* With runs of one block it is the search that the allocator uses.        *)
ASSUME RunOfOne ==
  \A pool \in Pools : bitmap_findemptyblockofsize(1, pool) = FindEmptyBlock(pool)

(* "Sets the next size bites in the bitmap, return block index": it marks  *)
(* the run and the bit behind it, returns the end of the run instead of    *)
(* its beginning, and the counter hardly moves.                            *)
ASSUME MarksOneMore ==
  \A pool \in Pools, size \in Sizes :
    LET start == bitmap_findemptyblockofsize(size, pool)
        set   == bitmap_setblockofsize(size, pool)
    IN  start >= 0 =>
          /\ set.pool.used = pool.used \cup start .. start + size - 1 \cup {Wrapped(start + size)}
          /\ set.index # start
          /\ set.pool.num_empty - pool.num_empty \in {-1, 0}

(* Removing the run from where it began gives back all of its bits, and    *)
(* another one that may have been taken before: the overhead loses its     *)
(* first bit when the run ended below the last bit of the bitmap.          *)
ASSUME RemovesOneMore ==
  \A pool \in Pools, size \in Sizes :
    LET start == bitmap_findemptyblockofsize(size, pool)
        back  == bitmap_removeblockofsize(start, size, bitmap_setblockofsize(size, pool).pool)
    IN  start >= 0 => back.used = pool.used \ {Wrapped(start + size)}

=============================================================================

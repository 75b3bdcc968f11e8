-------------------------- MODULE MCBlockAllocator --------------------------
(* Small instances of the block allocator for TLC.                          *)
EXTENDS BlockAllocator, TLC

(* Callers are interchangeable: no definition names one. *)
CallerSymmetry == Permutations(Callers)

=============================================================================

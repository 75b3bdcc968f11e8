------------------------- MODULE MCDescriptorTables -------------------------
(***************************************************************************)
(* Three processes compete for two tables of two entries; descriptor       *)
(* numbers reach below and above the table.                                *)
(***************************************************************************)
EXTENDS DescriptorTables, TLC

MCInodes  == 0 .. 1
MCFds     == -1 .. 2
MCOffsets == {5}

(* Processes are interchangeable: no definition names one. *)
PidSymmetry == Permutations(Pids)

=============================================================================

----------------------------- MODULE MCRamdisk -----------------------------
(* Small instances of the RAM disk for TLC.                                 *)
EXTENDS Ramdisk

CONSTANTS foo, bar, baz  \* names

(***************************************************************************)
(* Names: one process, a root directory that may need two blocks, and      *)
(* every shape of path: the root, one name, two names, a trailing          *)
(* delimiter, a doubled one, and a path that is not absolute.  Directories *)
(* are made in the root and in one of its directories.                     *)
(***************************************************************************)
NamesPaths ==
  {<<>>, <<NoName>>, <<foo>>, <<bar>>, <<baz>>, <<foo, bar>>, <<foo, NoName>>,
   <<NoName, bar>>}
NamesMkdirPaths == {<<>>, <<foo>>, <<foo, bar>>, <<foo, NoName>>}

(***************************************************************************)
(* Sharing: two processes with one descriptor each, so that every entry of *)
(* every table may be in use, on a directory in the root that may need two *)
(* blocks; and two more ways to it, through empty names.                   *)
(***************************************************************************)
SharedPaths ==
  {<<foo>>, <<foo, foo>>, <<foo, bar>>, <<foo, baz>>, <<NoName, foo>>,
   <<foo, NoName, foo>>}
SharedMkdirPaths == {<<foo>>}

(* Processes are interchangeable: no definition names one. *)
PidSymmetry == Permutations(Pids)

(***************************************************************************)
(* Data: two files in the root, transfers that cross block boundaries.     *)
(* The files and the values written are interchangeable.                   *)
(***************************************************************************)
DataPaths == {<<foo>>, <<bar>>}
DataSeeks == {-1, 3}
DataSymmetry == {f @@ g : f \in Permutations(Names), g \in Permutations(Data)}

(***************************************************************************)
(* Deep: one file that grows through the three kinds of pointers to the    *)
(* largest size there is, on a disk that just holds it.                    *)
(***************************************************************************)
DeepPaths == {<<foo>>}

(***************************************************************************)
(* Stranded: a directory in the root that may grow from its direct blocks  *)
(* to the indirect table, and shrink again, when no block is left.         *)
(***************************************************************************)
StrandedPaths == {<<foo>>} \cup {<<foo, name>> : name \in Names}
StrandedMkdirPaths == {<<foo>>}
StrandedSymmetry == Permutations(Names \ {foo})
=============================================================================

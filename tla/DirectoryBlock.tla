--------------------------- MODULE DirectoryBlock ---------------------------
(***************************************************************************)
(* remove_directory_entry of block.c, which the RAM disk does not call, on *)
(* the entries of one directory block.                                     *)
(***************************************************************************)
EXTENDS Directory

(* str_equals, on names *)
StrEquals(name1, name2) == IF name1 = name2 THEN 1 ELSE -1

(* _index_of_directory_with_name: "if (str_equals(...))", and both answers *)
(* of str_equals are true in C.                                            *)
IndexOfName(entries, name) ==
  LET hits == {o \in Offs : StrEquals(entries[o].name, name) # 0} IN
  IF hits = {} THEN -1 ELSE Min(hits)

RemoveDirectoryEntry(entries, name) ==
  LET index == IndexOfName(entries, name) IN
  IF index = -1 THEN [ret |-> -1, entries |-> entries]
  ELSE [ret |-> 1, entries |-> [entries EXCEPT ![index] = Zero]]

-----------------------------------------------------------------------------
BlocksOfEntries ==
  [Offs -> {Zero} \cup {DirEntry(name, i) : name \in Names, i \in Inums \ {Root}}]

(* "remove the directory entry with specified name", "return -1 if there   *)
(* is no such entry in this block" (block.h:82-84): it does the first only *)
(* if the entry is in the first place, and the second never.               *)
ASSUME RemovesTheFirst ==
  \A entries \in BlocksOfEntries, name \in Names :
    LET removed == RemoveDirectoryEntry(entries, name) IN
    /\ removed.ret = 1
    /\ (\A o \in Offs : removed.entries[o].name # name) <=>
         \A o \in Offs \ {0} : entries[o].name # name

=============================================================================

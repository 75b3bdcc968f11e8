---------------------------- MODULE FileSystem ----------------------------
(***************************************************************************)
(* What the RAM disk promises to the processes that use it, without        *)
(* blocks, bitmaps, pointer tables or positions of entries: a tree of      *)
(* directories that map names to nodes, files that are rows of cells, and  *)
(* the descriptors of OpenFiles.  Where the program promises little, so    *)
(* does this module, and the comment says so.                              *)
(***************************************************************************)
EXTENDS Integers, FiniteSets, FiniteSetsExt, Sequences, SequencesExt

CONSTANTS
  Processes, Places, MaxKnown, Fds,   \* of OpenFiles
  Nodes,        \* identities of files and directories
  Root,         \* the one that "/" leads to
  NoName,       \* the empty name: a path is a sequence of names
  Paths,        \* paths the processes use
  MkdirPaths,   \* those that rd_mkdir is called with
  ReadLens, WriteLens, SeekOffsets,
  Values,       \* what a process may write to a cell
  Gaps          \* what a cell nobody wrote may hold

VARIABLES
  nodes,  \* nodes[i]: what node i is
  known,  \* the processes that have opened something
  open,   \* open[p][fd]: what descriptor fd of process p stands for
  ret     \* the answer of the last call

vars == <<nodes, known, open, ret>>

D == INSTANCE OpenFiles WITH
  Inodes <- Nodes, Offsets <- Int, result <- ret, call <- "any"

(* A file is whole unless a write from beyond its end may have broken it.  *)
Absent == [kind |-> "absent"]
EmptyDir  == [kind |-> "dir", entries |-> <<>>]
EmptyFile == [kind |-> "file", size |-> 0, whole |-> TRUE, cells |-> <<>>]

EmptyTree == [i \in Nodes |-> IF i = Root THEN EmptyDir ELSE Absent]

Init ==
  /\ nodes = EmptyTree
  /\ known = {}
  /\ open = D!AllClosed
  /\ ret = 1

Refuse == ret' = -1 /\ UNCHANGED <<nodes, known, open>>

-----------------------------------------------------------------------------
(***************************************************************************)
(* Names and paths.  A directory may take the empty name for a free entry, *)
(* and a free entry leads to the root: a path with an empty name in it may *)
(* lead there or nowhere.  Nowhere is -1.                                  *)
(***************************************************************************)
Step(tree, i, name) ==
  IF i < 0 \/ tree[i].kind # "dir"           THEN {-1}
  ELSE IF name = NoName                      THEN {Root, -1}
  ELSE IF name \in DOMAIN tree[i].entries    THEN {tree[i].entries[name]}
  ELSE {-1}

(* Where the first n names of a path may lead *)
Ways(tree, path) ==
  LET ways[n \in 0 .. Len(path)] ==
        IF n = 0 THEN {Root} ELSE UNION {Step(tree, i, path[n]) : i \in ways[n - 1]}
  IN  ways

Leads(tree, path) ==
  IF path = <<>>             THEN {-1}
  ELSE IF path = <<NoName>>  THEN {Root}
  ELSE Ways(tree, path)[Len(path)]

Parents(tree, path) ==
  IF path = <<>> THEN {-1}
  ELSE IF Len(path) = 1 THEN {Root}
  ELSE Leads(tree, Front(path))

NodeNamed(tree, parent, name) ==
  IF name \in DOMAIN tree[parent].entries THEN tree[parent].entries[name] ELSE -1

WithEntry(dir, name, i) ==
  [dir EXCEPT !.entries = [n \in DOMAIN @ \cup {name} |-> IF n = name THEN i ELSE @[n]]]

WithoutEntry(dir, name) ==
  [dir EXCEPT !.entries = [n \in DOMAIN @ \ {name} |-> @[n]]]

-----------------------------------------------------------------------------
Reset ==
  /\ ret' = 1
  /\ nodes' = EmptyTree
  /\ known' = {}
  /\ open' = D!AllClosed

Test == ret' = 1 /\ UNCHANGED <<nodes, known, open>>

(* Making something may fail for want of room.  It gets a name that was    *)
(* free in its directory, and a node that is in no directory.              *)
Make(path, new) ==
  \/ Refuse
  \/ /\ ret' = 0
     /\ UNCHANGED <<known, open>>
     /\ \E parent \in Parents(nodes, path) \ {-1}, i \in Nodes :
          /\ nodes[parent].kind = "dir"
          /\ nodes[i].kind = "absent"
          /\ Last(path) \notin DOMAIN nodes[parent].entries \cup {NoName}
          /\ nodes' = [nodes EXCEPT ![parent] = WithEntry(@, Last(path), i),
                                    ![i] = new]

(***************************************************************************)
(* What nobody has open and is not a directory with entries can be         *)
(* removed.  A path with an empty name may reach something to remove       *)
(* although it leads nowhere; that it is open then only counts while some  *)
(* descriptor, of any process, is closed.                                  *)
(***************************************************************************)
AllOpen ==
  /\ Cardinality(known) = MaxKnown
  /\ \A p \in known : D!Vacant(p) = {}

Held(i) ==
  IF i < 0 THEN ~AllOpen ELSE \E p \in known : D!WithInode(p, i) # {}

Removable(i) ==
  /\ i \notin {-1, Root}
  /\ nodes[i].kind = "dir" => DOMAIN nodes[i].entries = {}

Unlink(path) ==
  \/ /\ ret' = 0
     /\ UNCHANGED <<known, open>>
     /\ \E idx \in Leads(nodes, path) : ~Held(idx)
     /\ \E parent \in Parents(nodes, path) \ {-1} :
          /\ nodes[parent].kind = "dir"
          /\ Removable(NodeNamed(nodes, parent, Last(path)))
          /\ nodes' = [nodes EXCEPT
                         ![NodeNamed(nodes, parent, Last(path))] = Absent,
                         ![parent] = WithoutEntry(@, Last(path))]
  \/ /\ Refuse
     /\ \/ \E idx \in Leads(nodes, path) : Held(idx)
        \/ \E parent \in Parents(nodes, path) :
             \/ parent = -1
             \/ nodes[parent].kind # "dir"
             \/ Last(path) = NoName
             \/ ~Removable(NodeNamed(nodes, parent, Last(path)))

OpenPath(p, path) ==
  \/ Refuse /\ -1 \in Leads(nodes, path)
  \/ UNCHANGED nodes /\ \E i \in Leads(nodes, path) \ {-1} : D!Open(p, i)

Close(p, fd) == D!Close(p, fd) /\ UNCHANGED nodes

-----------------------------------------------------------------------------
(* Transfers: the answer, and where the descriptor stands afterwards       *)
MoveTo(p, fd, offset) ==
  /\ open' = [open EXCEPT ![p][fd].offset = offset]
  /\ UNCHANGED known

Stands(p, fd, kind) ==
  /\ D!IsOpen(p, fd)
  /\ open[p][fd].offset >= 0
  /\ nodes[open[p][fd].inode].kind = kind

(* A descriptor whose node was removed all the same promises nothing, but  *)
(* it does no harm to what is there.                                       *)
Astray(p, fd) ==
  /\ D!IsOpen(p, fd)
  /\ nodes[open[p][fd].inode].kind = "absent"
  /\ MoveTo(p, fd, open'[p][fd].offset)
  /\ UNCHANGED nodes

(* The end is recognised only by a reader that stands right at it.         *)
ReadDir(p, fd) ==
  \/ Refuse /\ ~Stands(p, fd, "dir")
  \/ /\ Stands(p, fd, "dir")
     /\ LET pos  == open[p][fd].offset
            size == Cardinality(DOMAIN nodes[open[p][fd].inode].entries)
        IN  \/ pos # size /\ ret' = 1 /\ MoveTo(p, fd, pos + 1) /\ UNCHANGED nodes
            \/ pos = size /\ ret' = 0 /\ UNCHANGED <<nodes, known, open>>
            \/ pos > size /\ Refuse

(* Moving always succeeds, and has no effect on a descriptor that is not   *)
(* open, even where the end of its file is asked for.                      *)
SizeOf(i) ==
  CASE nodes[i].kind = "dir"  -> {Cardinality(DOMAIN nodes[i].entries)}
    [] nodes[i].kind = "file" -> {nodes[i].size}
    [] OTHER                  -> Int

Seek(p, fd, offset) ==
  /\ ret' = 0
  /\ UNCHANGED nodes
  /\ \/ ~D!IsOpen(p, fd) /\ UNCHANGED <<known, open>>
     \/ /\ D!IsOpen(p, fd)
        /\ offset = -1 => open'[p][fd].offset \in SizeOf(open[p][fd].inode)
        /\ MoveTo(p, fd, IF offset = -1 THEN open'[p][fd].offset ELSE offset)

Read(p, fd, n) ==
  \/ Refuse /\ ~Stands(p, fd, "file")
  \/ /\ Stands(p, fd, "file")
     /\ LET pos  == open[p][fd].offset
            file == nodes[open[p][fd].inode]
        IN  \/ /\ pos < file.size
               /\ ret' = Min({n, file.size - pos})
               /\ MoveTo(p, fd, pos + ret')
               /\ UNCHANGED nodes
            \/ pos >= file.size /\ ret' = 0 /\ UNCHANGED <<nodes, known, open>>
            \/ ~file.whole /\ Refuse

(***************************************************************************)
(* The file after the first k cells of a write: exactly those cells change *)
(* when the write began within a whole file, and when one that began       *)
(* beyond its end succeeded and left it whole; the cells in between then   *)
(* hold what nobody wrote.  Of every other write only the size is          *)
(* promised.                                                               *)
(***************************************************************************)
Grown(file, pos, k) == IF k = 0 THEN file.size ELSE Max({file.size, pos + k})

Wrote(file, new, pos, k, v) ==
  /\ new.kind = "file"
  /\ new.size = Grown(file, pos, k)
  /\ file.whole /\ new.whole /\ (pos <= file.size \/ ret' # -1) =>
       /\ DOMAIN new.cells = 0 .. new.size - 1
       /\ \A c \in 0 .. new.size - 1 :
            CASE c \in pos .. pos + k - 1 -> new.cells[c] = v
              [] c < file.size /\ c \notin pos .. pos + k - 1 -> new.cells[c] = file.cells[c]
              [] OTHER -> new.cells[c] \in Gaps

Write(p, fd, n, v) ==
  \/ Refuse /\ ~Stands(p, fd, "file")
  \/ /\ Stands(p, fd, "file")
     /\ LET i   == open[p][fd].inode
            pos == open[p][fd].offset
        IN  /\ \/ ret' = n /\ MoveTo(p, fd, pos + n)
               \/ ret' = -1 /\ UNCHANGED <<known, open>>
            /\ \E k \in 0 .. n :
                 /\ ret' = n <=> k = n
                 /\ Wrote(nodes[i], nodes'[i], pos, k, v)
                 /\ nodes[i].whole /\ pos <= nodes[i].size => nodes'[i].whole
            /\ nodes' = [nodes EXCEPT ![i] = nodes'[i]]

Next ==
  \/ Reset
  \/ Test
  \/ \E path \in Paths : Make(path, EmptyFile)
  \/ \E path \in MkdirPaths : Make(path, EmptyDir)
  \/ \E path \in Paths : Unlink(path)
  \/ \E p \in Processes, path \in Paths : OpenPath(p, path)
  \/ \E p \in Processes, fd \in Fds : Close(p, fd)
  \/ \E p \in Processes, fd \in Fds : ReadDir(p, fd)
  \/ \E p \in Processes, fd \in Fds, offset \in SeekOffsets : Seek(p, fd, offset)
  \/ \E p \in Processes, fd \in Fds, n \in ReadLens : Read(p, fd, n)
  \/ \E p \in Processes, fd \in Fds, n \in WriteLens, v \in Values : Write(p, fd, n, v)
  \/ \E p \in Processes, fd \in Fds : Astray(p, fd)

Spec == Init /\ [][Next]_vars

=============================================================================

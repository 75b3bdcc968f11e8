# A verification development of the CS552 RAM disk

The repository is a Linux kernel module that keeps a small Unix-like file
system in memory and offers it to processes through `ioctl` on a `/proc` entry.
This directory holds TLA+ models of it, configurations that model-check them on
small instances with TLC, and proofs about them that TLAPS checks for every
value of the constants. `PROJECT.json` lists the runs, the mutants, the source
lines every definition translates, the findings, the hazards and the theorems.

    cd tla
    tlc -workers 2 -config MCRamdisk_names.cfg MCRamdisk
    tlapm DescriptorTablesProofs.tla

## The system

| component | source | state it keeps | operations |
|---|---|---|---|
| block allocator | `superblock.c`, `bitmap.c`, `ramdisk.c:707-779` | `free_blocks`, the bitmap, the bitmap's own `num_empty` | initialise, allocate, deallocate |
| descriptor tables | `fdtable.c` | `fdtablea`: an array of tables, one per process, of entries (flag, inode, offset) | create entry, seek and remove by descriptor or by inode, three queries |
| inode block trees | `inode.c`, pointer tables of `block.c` | 8 direct pointers, 1 indirect, 1 double indirect, the size | look up a byte, add the last block, reduce the size, release everything |
| directories, inode table, paths | `ramdisk.c:781-1068`, entries of `block.c` | inode types, `free_inodes`, 16-byte entries in directory blocks | allocate and free inodes, find, add and remove entries, walk a path |
| RAM disk calls | `ramdisk.c:45-654` | `RAMDISK` and `fdtablea` together | `rd_init`, `rd_creat`, `rd_mkdir`, `rd_open`, `rd_close`, `rd_read`, `rd_write`, `rd_seek`, `rd_unlink`, `rd_readdir`, `rd_test` |
| kernel entry point | `ramdisk_kernel_lib.c` | the semaphore `mutex`, whether the module and the disk are there | load, unload; one `ioctl` command per call: down, copy in, call, copy out, up |
| client library | `ramdisk_lib.c` | per process, `ioctl_fd`: not asked for, failed, or open | opens the `/proc` entry, packs the arguments, makes the `ioctl`, returns the field the kernel wrote |
| string helpers | `string_utils.c` | none | take path names apart |

A process calls the client library, which makes an `ioctl`; the entry point
takes the semaphore and calls `rd_*`; that finds its process in the descriptor
tables, walks directories, and asks the inodes for blocks, which the allocator
hands out. All components share the one global `RAMDISK` and the one global
`fdtablea`; there are no callbacks and no messages, and nothing is persistent.

What is hard here:

- *Interleaving.* Any process may make any call between two calls of another:
  remove a name while a directory is being listed, wipe the disk with
  `rd_init`, move between a seek and the write that relies on it. Within one
  call, only the semaphore protects the disk, and it is not always held.
- *Five records of the same blocks* (two counters, the bitmap, the pointers of
  inodes, the pointer tables), updated by different functions.
- *Failure half way.* Every growing operation can run out of blocks or inodes
  after it has changed something, and nothing is rolled back. Failing copies,
  a module that is not loaded, a disk that does not exist yet: the answers of
  `open`, `ioctl`, `vmalloc` and the handlers are not looked at.
- *Boundaries.* The last block of a directory, the first block of a pointer
  table, the largest file, the last bit of the bitmap, a position beyond the
  end of a file, a full table of descriptors.

What makes each component correct:

- allocator: no block is given out twice or lost, counters match the bitmap;
- descriptor tables: they are per-process numbered descriptors, no more;
- block trees: every block of a file has one place, and is given back;
- directories: a compact tree with unique names, every inode in one place;
- calls: a write changes what it says and nothing else, open files stay;
- entry point: one call at a time, and the semaphore is never lost;
- clients: what was created is there, and what a caller is told is true.

## Modules

`BlockPool` → `Inode` → `Directory` → `Ramdisk` extend each other; `Ramdisk`
composes them with an instance of `FdTable`. `BlockAllocator` and
`DescriptorTables` put the two lowest layers in a state machine of their own,
where they can be proved about for every client. `RamdiskFiles` and `Listing`
add to `Ramdisk` what its users see. `Clients` extends `KernelLock` with both
ends of a call, the library and the disk.

| module | what it models |
|---|---|
| `BlockPool` | The allocator as operators on a record `free_blocks`, `used` (the set bits), `num_empty`. `AllocateBlock` and `DeallocateBlock` are the two functions of `ramdisk.c` with everything they call, the double decrement of `bitmap_get_one_block` and the scan that stops before the last bit included. |
| `BlockAllocator` | Those operators as actions of arbitrary callers. `owner`, who was given what, is an observer: the code does not keep it. |
| `FdTable` | `fdtable.c` as operators on the array of tables. A loop that acts on the first match is the least index of the matches. |
| `DescriptorTables` | One action per function of the array interface. `call` is the function that answered last, `result` its answer. |
| `OpenFiles` | The abstract specification of the tables: each known process has numbered places, `open` takes the lowest closed one, a bounded number of processes is ever known. It has `call`, too: an answer implements that of the call that was made, not of any call with the same effect. |
| `Inode` | The block tree. `Position` says where block number *k* lives; `AddBlock`, `RemoveBlock`, `ReduceSize` and `Release` follow the functions of `inode.c` step by step, each intermediate disk being a value, so what was done before a failure stays done. |
| `Directory` | The inode table, entries and paths. |
| `Ramdisk` | The calls as actions on `RAMDISK` and `fdtablea`. `ret` is the answer of the last call. |
| `FileSystem` | The abstract specification of the disk: a tree of directories that map names to nodes, files that are rows of cells, descriptors as in `OpenFiles`. No blocks, no positions of entries. Where the program promises little (room may run out at any time, paths with empty names, writes from beyond the end), so does it. |
| `RamdiskFiles` | The refinement mapping from `Ramdisk` to `FileSystem`. `tree` and `descriptors` hold its values, so that they are computed once per step. |
| `Listing` | `Ramdisk` with the history of every reader of a directory: the entries it was shown, and those that got behind it without being shown. |
| `KernelLock` | The entry point with a program counter per thread. `Interrupt` is a wait that a signal ends. |
| `Clients` | Processes with `ramdisk_lib.c`, the entry point, loading and unloading, `RAMDISK` that is null before the first `RD_INIT`, and `rd_creat` in the root directory in steps: search the names, scan the inodes, mark, count, find room, find a place, fill it, add to the size. |
| `StringUtils`, `PathNames` | `string_utils.c` on buffers of characters, and how `_ramdisk_walk_path` and `_ramdisk_get_parent` take a path name apart with it: what the paths of `Directory` abstract. |
| `BitmapRuns`, `DirectoryBlock` | The functions that no call of the disk uses: runs of blocks in `bitmap.c`, `remove_directory_entry` in `block.c`. |
| `MC*` | Instances for TLC: paths, offsets, symmetry. |
| `BlockPoolLemmas`, `InodeLemmas`, `DirectoryLemmas` | What the operators of the layers return and keep: the allocator, the block tree, the directories. |
| `BlockAllocatorProofs`, `DescriptorTablesProofs`, `RamdiskProofs`, `FilesProofs`, `ClientsProofs` | The theorems about the state machines; `ClientsProofs` has those about `KernelLock` too, `FilesProofs` those about `RamdiskFiles` and `Listing`. |

Operators whose name begins with `Bug` are mutants: each is a definition with a
plausible mistake in it, put in the place of that definition to see that a
property notices. No specification uses them.

How data is abstracted:

- Sizes and offsets count *cells* of 16 bytes, the size of a directory entry.
  A cell of a directory is an entry, a cell of a file is one value. Transfers
  that are not a multiple of 16 bytes are therefore not in the model; block
  boundaries, holes, the end of the file and the pointer tables are.
- A block is seen as cells or as a table of pointers. What is in a block that
  is not allocated is `Stale`, and its pointers are forgotten: the code leaves
  the old bytes there and clears them when it allocates the block again.
- A path is the sequence of its names, empty names included; `PathNames` shows
  that a path name made of characters comes to that sequence, up to a name that
  is too long, which the walk and the creation refuse alike. Such names do not
  occur in `Ramdisk`. That the empty name matches a free entry is modelled.
- The fields are `short` and `int` in the code and far from their limits with
  the sizes of `defines.h`; only `num_empty` can leave its range, after more
  than two thousand million allocations.
- Behaviours of `Ramdisk` start after the first `RD_INIT`; `Clients` has the
  time before it.
- In `Clients` a process is one thread, a creation concerns the root directory
  only, taking a block for it is one step, and other files may have taken all
  blocks at any time. `rd_creat` stands for every call that follows `RAMDISK`,
  `rd_close` of a descriptor that is not open for those that do not. That a
  thread which follows a null pointer in the kernel dies there, that its files
  are closed, and that an open `/proc` entry keeps the module, is how Linux
  behaves and not in this repository. So is whether threads inside the kernel
  run at once or only take turns: the model lets every step interleave.
- Both builds are the same program above the lock: `USE_PTHREADS` only changes
  where the process identifier comes from and what `superblock_lock` does.

## Runs

| run | instance | what it shows |
|---|---|---|
| `block_allocator` | 5 data blocks, 2 callers | Bitmap, counters and callers agree in every state. The drift of `num_empty` may reach 8, so that the counter passes from 5 through zero to below: every cause of a refusal occurs. |
| `block_allocator_premature` | the same | *violation*: refused with blocks empty |
| `descriptor_tables` | 3 processes, 2 tables of 2 entries, descriptors -1..2 | Both limits (tables, entries) are hit, and every out-of-range descriptor is tried; the tables implement `OpenFiles`, answers included. |
| `ramdisk_names` | 4 data blocks, 4 inodes, names `foo bar baz`, 8 paths, directories at `foo` and `foo/bar`, 2 descriptors | All orders of making and removing names. The directories have one direct pointer and two cells per block, so three names need the indirect table; blocks and inodes both run out. The root's block is full while a file in it is open and a path with an empty name leads to it: the case in which only the unused descriptors make `rd_unlink` refuse. |
| `ramdisk_listing` | 5 data blocks, 5 inodes, 2 processes with 1 descriptor each | Listing, opening and removing interleaved in a directory of up to three entries; all descriptors of the system in use at once. Listings cross from one block to the next while entries move between the blocks, and stand in a block that is given back under them. Readers stand beyond the end of what is left, too. What each reader was shown and missed; the calls implement `FileSystem`. |
| `ramdisk_files` | 6 data blocks, 2 files, writes of 1 and 3 cells, seeks to the end and to 3 | Writes that start in one block and end in the next, at, before and beyond the end; two files compete for the blocks; the calls implement `FileSystem`. |
| `ramdisk_deep` | 13 data blocks, 1 file | The file reaches its largest size, 14 cells: one direct block, an indirect table of 2 and a double indirect one of 2 x 2. The drift bound of 25 lets `num_empty` pass through zero at every point of the growth, so that each pointer table is at some time allocated without the block it is for. |
| `ramdisk_beyond` | as `ramdisk_files` | *violation*: a hole below the size of a file |
| `ramdisk_stranded` | 5 data blocks, 7 inodes, 5 names; two direct pointers, so that one can be null while the other is not | *violation*: a directory is removed and its pointer table stays |
| `kernel_lock` | 3 threads, signals for 2, at most 2 interrupted waits | Exclusion, and what becomes of it; liveness. |
| `kernel_lock_signal` | 2 threads, 1 signal | *violation*: two threads inside |
| `clients` | 2 processes, 2 names, 3 inodes, 2 blocks, 1 interrupted wait | Loading, unloading, calls too early, failing copies, deaths inside the kernel, and two creations interleaved step by step: of the same name, of different names, out of inodes, out of blocks. What each caller is told is true, and what is told one whose call or copy failed is only a 0 of `rd_init` or nothing. |

Bounds of the models, apart from the constants the code has itself: `MaxDrift`
(no allocating call is made once `num_empty` is that far behind `free_blocks`;
the distance only grows, and would make the states infinite). In
`block_allocator` and `ramdisk_deep` the bound is beyond the number of blocks,
from where on `num_empty` is negative for good and refuses nothing any more. In
`ramdisk_names` it stops at 3, in `ramdisk_listing` and `ramdisk_files` at 4, to
keep the runs short: refusals with empty blocks and with the disk really full
both occur below it. The others are `MaxInterrupts` in
`KernelLock`, the sets of paths, lengths, offsets and descriptors, and
`Overlaps` in `Clients`: with `FALSE` those who are inside when a wait is
interrupted come out together with the one that was let in, and nobody gets in
afterwards. With `TRUE` there are more than sixteen million states, in which
nothing is claimed of a disk that two threads have been in; the theorems hold
for both. Small
tables are enough because no definition treats an index specially beyond first,
last and next: one direct pointer, two pointers per table and two cells per
block give each of them, and all three kinds of pointers.

The state invariants of `Ramdisk` are invariants of each call as a whole:
nothing is claimed of the middle of a call. `CreationsExact` of `Clients` is
what connects the two: with the steps of the call apart, the disk is again
exact whenever nobody is inside, as long as no wait was interrupted. With an
interrupted wait the run does reach two entries of the same name, two entries
with the same inode, and counters that are off.

Pure functions are checked by assumptions that TLC evaluates at the start of
the run `ramdisk_files`: `FindsTheFirstRun`, `RunOfOne`, `MarksOneMore`, `RemovesOneMore`
(`BitmapRuns`, on every bitmap), and
`CopyKeepsWhatFits`, `EqualIgnoresWhatFollows` (`StringUtils`, on every string
of up to two characters), `WalksTheNames`, `ParentIsTheFront`,
`CreatedNamesAreReached`, `PathNumberCounts` (`PathNames`, on path names of up
to three names, with one that is one character too long and whatever lies
behind the terminator) and `RemovesTheFirst` (`DirectoryBlock`, on every block). Three of them say what a header does not:
`bitmap_setblockofsize` marks one bit more than asked for and returns the end
of the run, `bitmap_removeblockofsize` clears one bit more, and
`remove_directory_entry` removes the first entry with another name. Nothing in
the disk calls them.

### What the violations say

1. `bitmap_get_one_block` decrements `num_empty` a second time
   (`bitmap.c:182`). On the real disk of 7931 blocks, allocations begin to be
   refused with blocks empty whenever the counter stands at exactly zero.
2. `inode_add_block` assumes blocks are added at the end of the file
   (`inode.c:160-162`); `rd_seek` takes any offset. A write beyond the end
   goes to a block at another place than its position: the data cannot be
   read, and further writes there take blocks that nothing leads to.
   `LostOnlyOutside` shows that this, writing past the largest size, and the
   next are the only ways a block is lost.
3. `inode_release` returns at the first null direct pointer: "if it's in the
   direct pointers, you are done" (`inode.c:477-487`). A directory whose direct
   pointers are all in use, and that could have the block for its indirect table
   but none to put into it, keeps the empty table (`inode.c:184-189`); when
   entries are then removed, a direct pointer becomes null in front of it, and
   when the directory is removed the table is lost. With 8 direct pointers and
   16 entries in a block that is a directory of 128 names on a disk with one
   block left.
4. `down_interruptible`'s answer is ignored (`ramdisk_kernel_lib.c:406-465`)
   and `superblock_lock` is empty in the kernel, so a signal puts two threads
   in the disk at once. `EveryInterruptLetsOneMoreIn` shows that the damage
   stays: the `up` without a `down` is never made good.

### A disagreement without a violation

`fdtable.h:108` says that `fdtable_a_checkforinode` returns "1 if soomeone else
is using it, 0 otherwise". The function (`fdtable.c:347-360`) does not look at
its `pid`: it answers 1 when only the caller has the inode open, and -1, not 0,
when nobody has. `rd_unlink`, which alone calls it, compares with 1, so the -1
changes nothing; that one's own descriptor counts means that a process cannot
remove a file it has open itself, which `OpenInodesKept` relies on. `OpenFiles`
promises what the code does (`AskInUse`), since that is what the rest of the
program builds on; the header's answers are the operator
`DocumentedCheckForInode` of `DescriptorTables`. Put in the place of
`a_checkforinode` they make the run `descriptor_tables` refute
`ImplementsOpenFiles`.

### What the exceptions say

The source marks one loss itself ("@TODO: release inode", `ramdisk.c:918`): when
a directory cannot grow, `_ramdisk_add_directory_entry` keeps the inode it had
allocated for the new name, and nothing but `rd_init` frees it.
`OrphansOnlyFromFailedCreation` shows that this is the only way to lose an inode.

Exceptions in properties that hold are behaviours of the code worth knowing.
`OpenInodesKept` excepts a system in which every descriptor of every table is
in use: `rd_unlink` asks whether the inode of the *path* is open, which is -1
for a path such as `//x` when the root's block has no free entry, and it is
then the unused entries, which hold -1 too, that make it refuse. A reader
that entries were removed behind stands beyond the end of its directory, where
the test for the end (`ramdisk.c:617`) never holds: `ShowsNewEntries` says that
what it is shown there is a cleared entry, in the block of the end, and nothing
that was removed; and `PassedEntriesShown` excepts what `rd_unlink` moved behind
a reader and what was added in front of one that stands beyond the end.

The tables know identifiers and nothing of processes. A process that ends
without closing is to them one that makes no more calls, and one that gets its
identifier is the same one making others, so every behaviour of
`DescriptorTables` is also one of reused identifiers, and no property of its
variables can tell them apart: that such a process inherits the descriptors is
not stated. What an abandoned table leads to is: `NewcomersShutOut` that it is
never handed on, `OpenInodesKept` that what it has open is not removed.

`AnswersTrue` is about the answers themselves. The library returns a field of a
structure on its stack, which only a successful copy writes, and `rd_init` looks
at nothing at all. As long as no wait was interrupted a 0 is nevertheless the
truth about the disk at the moment it is returned, but for an `rd_init` that
found no module, which says 0 and leaves a descriptor that failed
(`CutOffUntilInit` is what follows); a -1 means that the name could not have
been made. A call whose copies failed returns what it found on the stack:
`"garbage"` in the model, a value of its own, so that no claim is made of it;
on the machine it may look like a 0. That the field is written by nothing but
the answer of the same call is what the property rests on.

An append by two processes at once, `multi_process_test.c:148`, is a behaviour
of `FileSystem` in which the later write covers the earlier one;
`ImplementsFileSystem` shows that nothing worse comes of it.

### Fairness

Only `KernelLock` has any. A thread in the kernel keeps running (weak fairness
of each thread's own steps), and a semaphore that is up is taken if somebody
waits (weak fairness of *some* `Down`, not of each thread's: nothing is assumed
about who gets it, so a single waiter may starve and no property says
otherwise). `Clients` has none: a dead thread keeps the semaphore for ever, and
its properties are about safety. No fairness forces a call, a signal or a failing copy. The RAM
disk's calls are loops over finite tables, and it has no liveness of its own.

## Proofs

All theorems hold for every value of the constants that satisfies the named
assumptions of the modules (positive table sizes, an overhead of at least one
block that leaves at least two, identifiers different from the null values,
blocks of at least two cells, at least one pointer of each kind, directories small
enough for their entries to be found through the direct and indirect pointers,
as 1024 inodes are with the sizes of `defines.h`, paths made of the names, and
descriptors that are integers).

- `BlockAllocatorProofs`. The inductive invariant `IInv` adds to the type the
  exactness of the bitmap and of the counter, and that the last block is never
  held: without the last, a counter of zero would not be excluded, and without
  the bitmap the counter could not be shown to change by one block. Each action
  keeps it by the lemmas of `BlockPoolLemmas`, which say what an allocation may
  return and leave. From it follow the invariants of the run and, for the
  steps, that no block goes from one caller to another. `IInv` also has that
  `num_empty` is never above `free_blocks`, of which `DriftNeverRepaired` is the
  counterpart for the steps.
- `DescriptorTablesProofs`. The inductive invariant is the consistency of
  entries, at most one table per process, and empty unowned tables. Each action
  is shown to be a step of `OpenFiles`; what makes it true is that a process has
  one table, so the first match of a loop is the table of the process, and that
  flag and inode agree, so searches by either find the same entries. The
  refinement `TablesImplementOpenFiles` is the main result; that newcomers are
  shut out once all tables are taken is read off the abstract `Open`. `call`
  takes part in nothing: `TablesTyped` is the type without it, for `FilesProofs`,
  where the calls on the tables are parts of larger ones.
- `ClientsProofs`, the semaphore. The invariant is the balance
  `mutex + |Inside| = 1 + interrupted`; mutual exclusion follows for
  `interrupted = 0` because the semaphore is not negative.
- `ClientsProofs`, the clients. Between two loadings every step of `Clients` is a step of
  `KernelLock` or leaves it alone, so the balance carries over, and loading
  starts it anew. To it the invariant adds that a dead thread stays where it
  died, that every other thread in the kernel came through an open descriptor,
  that an open descriptor keeps the module loaded, and that no disk is made
  behind a dead thread. From these follow `MutualExclusion`, that the module
  stays under a live call, `DeadThreadShutsDisk` and `CutOffUntilInit`, for any
  finite set of processes and with either value of `Overlaps`.
- `ClientsProofs`, creation. `CreationsAreExact` shows that the semaphore makes one step
  of the steps of `rd_creat`. The invariant `CreationInv` looks through the eyes
  of whoever is inside: what it found out (the name is not there, the inode is
  free, the counter it read, the slot it chose) still holds of the disk, and
  the disk is exact but for the one count it has yet to do. With nobody inside
  this is `CreationsExact`. It rests on the balance of the semaphore, so
  on `interrupted = 0`, and on a directory block having more slots than there
  are inodes.

  `ClientTypesCorrect` needs none of this: the types survive any number of
  threads inside, because a step writes only inodes, blocks and counts that
  were read from the disk at some time, and blocks are never given back.
- `ClientsProofs`, answers. `AnswersAreTrue` needs two more things of each thread.
  A field that was written belongs to a call on its way to the `up`, and says
  what the call found (`Written`), interrupted waits or not. What the call
  found, a name on the disk, no inode or no block left, stays so until its `up`
  (`Found`): the steps of other threads leave the disk of a thread that is alone
  inside as it is (`DiskStays`), and a step of `rd_creat` gives up only for one of
  those reasons (`GivesUpRightly`), where `CreationInv` is what makes the search
  and the counter agree with the disk.
- `RamdiskProofs`. The inductive invariant is

      IInv == DiskInv(RAMDISK) /\ Held(fdtablea) /\ ret \in Int
      DiskInv(rd) == Counted(rd) /\ AllInOrder(rd) /\ RootedTree(rd)

  and each part is there for another one. `Counted` says that the disk is
  `Sound` (types, an exact pool, every block at one place of the trees, every
  block in a tree marked, free inodes without blocks) and that `free_inodes` is
  the number of free inodes. `Sound` is kept by adding, removing and releasing
  blocks (`InodeLemmas`), with all the ways in which `inode_add_block` fails
  half way; releasing gives back each block once *because* no block has two
  places. `AllInOrder` says that each directory is a row of entries with
  different names, followed by free ones to the end of its last block, with a
  block for every entry and none beyond. Adding an entry looks at the last
  block only, and removing one moves the last entry into the gap, so each
  relies on the other's result (`DirectoryLemmas`). `RootedTree` says that entries
  lead to allocated inodes other than the root, no two to the same, and that
  directories with entries can be reached from the root.
  `RootedTree` bounds the directories: while an inode is free, no directory has as
  many as `INODES - 1` entries (`TreeRoom`), so a new entry never needs the
  double indirect table, where the proofs about directories would have to
  follow it. `RootedTree` also makes `rd_unlink` safe for an empty last name, which
  would find a free entry and with it the root: the root is not empty when any
  other directory can be reached (`EmptyRoot`), and a directory that is not
  empty is refused.
  Calls are split by what they do to the disk (`CallCases`: nothing, start
  anew, create, spoil an inode, unlink, write), each with the lemma about its
  operators, and the theorems are read off the invariant:
  `NoBlockInTwoPlaces`, `CountersAreExact`, `DirectoriesStayCompact`,
  `DirectoriesAreATree`, `TypeCorrect`. Two theorems are about steps.
  `OrphansOnlyFromFailures` compares the entries before and after each kind of
  call. `OpenInodesAreKept` needs that the two searches of `rd_unlink`, along
  the whole path and in the parent directory, find the same inode or the first
  one fails (`TwoSearches`), and that unused descriptors hold -1.
  The recursive functions of the model (`GivenBack`, `Steps`, `Turns`) are
  taken apart by their equation: a function satisfying it exists (there is no
  least length without one), so `CHOOSE` picks one, and a property that each
  step keeps has no least exception.
  `WritesAreExact` rests on what a turn of the loop of `rd_write` does to the
  cells of the file (`AddBlock` puts the block it takes where the size says,
  which in a file without holes is where the position says), and on the loop's
  equation; the boundaries between direct, indirect and double indirect blocks
  are cases of one lemma, not of bounds.
- `RamdiskProofs`, lost blocks. `LostOnlyOutside` needs the shapes of the block
  trees: `Formed` says that no pointer of a file belongs to a block past its
  size and that the tables are filled from the front; `Tight` that no table is
  there while a pointer before it is missing, which is when `inode_release`,
  which stops at the first null pointer, finds every block. `ShapesHold` proves
  from `IInv` that every file is formed and no directory has a double indirect
  table; a formed file without holes is tight (`WholeTight`), an empty directory
  that is not stranded is, too (`EmptyTight`), so removing either gives back all
  its blocks. A write within the file attaches what it takes or gives it back
  (`FillsLoose`), also when the second or third block of one step is refused.
  What is left are the three exceptions that `LostOnlyOutside` names.

- `RamdiskProofs`, the ends of files. `FileSystem` promises that a write from
  beyond the end of a whole file, if it leaves the file whole, shows gaps that
  nobody wrote. This is not obvious, because such a write puts its first block
  at the first free place of a table and not where its position says, and fills
  cells behind the end that a later write brings below it. `Ended` says of a file
  that in each table its blocks come first, and that what its blocks hold behind
  the end was never written, unless the file is cut: below the end a block is
  missing that does not belong to the table of the block at the end. A cut is never
  mended (`CutStays`), because a block that is added goes to the place or the table
  of the block at the end; such a file is not whole again, and `FileSystem`
  promises only its size. Every turn of the loop of
  `rd_write` keeps this, from any position and also when it runs out of blocks
  (`EndedAdvances`, `EndedHalts`); `WriteReaches` adds up the turns, and
  `EndsStep` shows that no other call disturbs it.
- `FilesProofs`, listings. The invariant says that a reader's `shown` and
  `missed` are together what is behind it in the directory as it is now. It
  needs the tables to be per-process descriptors, which `DescriptorTablesProofs`
  shows for arbitrary callers: `FilesProofs` takes an instance of that module and
  cites its lemmas for `rd_open`, `rd_close` and the moves of a descriptor. A step
  does one of five things to a descriptor (`Handled`) and one of four to a
  directory (`Changed`: nothing, an entry more at the end, an entry less with the
  last one in its place, empty). In the third case everything depends on where
  the reader stands: past the gap, the entry that is moved gets behind it unseen
  (`ShrankFollows`). That no entry has two places in the directories, which is
  part of `IInv`, makes the entry at the reader's position a new one
  (`NewEntriesAreShown`). Behind the end the same order of the directories says
  that the rest of the last block is cleared (`BeyondCleared`), and a reader is
  shown something only where there is a block. Both theorems assume `SeekOffsets = {}`, as the run
  does: a reader that moves itself starts another listing.
- `FilesProofs`, the refinement. `RamdiskImplementsFileSystem` is the main result
  about the disk: with `rd_seek` and every other call, for any number of
  processes, paths, blocks and inodes, and for any lengths and offsets, the calls
  implement `FileSystem`. The invariant is

      FilesInv == ReadersInv /\ EndsHold(RAMDISK)

  that is, `IInv`, the consistent tables, the mapping's two auxiliary variables
  holding what is read out of the disk and the tables, and all files `Ended`
  (`FilesInductive`). Each call has a lemma that makes it a step of `FileSystem`
  (`OpenImplements` to `WriteImplements`). Walking a path in the blocks of
  directories ends where one of the ways through the tree of names leads
  (`WalkIs`); an empty name, which finds a free entry or none, is why there
  can be two. Making and removing an entry changes two nodes of the tree and
  shows or hides no other (`EnteredShown`, `UnlinkedShown`): an orphan is not
  reached, and what is removed has no entries. A write changes one file in
  the tree, or none if the inode is not reached any more (`WroteShown`).

Model-checked only:

- the pure functions, which are checked on every input up to a bound;
- liveness.

## Not modelled

- The test programs and the build; printing.
- Transfers of fewer than 16 bytes, the pages behind `vmalloc`, and path names
  of `MAX_FILENAME_LENGTH` characters or more.
- The steps inside calls other than `rd_creat` in the root directory, which
  interleave, too, once two threads are inside; and what becomes of the disk
  then.
- Loading is one step: the `/proc` entry and the semaphore appear together.
- A last name that is too long for the array it is copied to before its length
  is looked at (`ramdisk.c:999`): what is behind the array is not in the code.

## Plan

Done: the allocator, the descriptor tables, the block trees, directories and
calls; the abstract file system and the refinement; listings; the entry point;
the clients; the pure functions; proofs for the allocator, the tables, the
entry point, the clients, the creation of a name, the calls of the disk with
their writes and their lost blocks, the listings, and the refinement of the
abstract file system. Left, should the work go on: the steps of `rd_unlink` and
`rd_write` in `Clients`, beside `rd_creat`.

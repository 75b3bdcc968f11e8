------------------------------ MODULE Clients ------------------------------
(***************************************************************************)
(* The processes that use the RAM disk, and the whole way of their calls:  *)
(* the library each of them is linked with (ramdisk_lib.c), the entry      *)
(* point of the kernel module (KernelLock) and, step by step, the creation *)
(* of a name in the root directory on a disk that is there only after the  *)
(* first RD_INIT.  The module can be unloaded and loaded again.            *)
(*                                                                         *)
(* A process is one thread, which dies when it follows the null pointer    *)
(* RAMDISK inside the kernel: it never reaches its up.  Taking a block for *)
(* the directory, and RD_INIT, are one step each; the root directory never *)
(* fills its first block, which is a bound of the model.                   *)
(***************************************************************************)
EXTENDS KernelLock, FiniteSetsExt, Functions

CONSTANTS
  Names,   \* names that processes create in the root directory
  INODES,  \* size of the inode table
  BLOCKS,  \* blocks a directory may get
  SLOTS,   \* entries of a directory block
  Overlaps \* bound of the model: whether threads still get the semaphore
           \* after a wait was interrupted

ASSUME ClientAssumption ==
  /\ INODES \in Nat \ {0}
  /\ BLOCKS \in Nat
  /\ SLOTS \in Nat /\ SLOTS >= Cardinality(Threads) * INODES
  /\ Overlaps \in BOOLEAN

Inums == 0 .. INODES - 1
Entry(name, inum) == [name |-> name, inum |-> inum]
FreeEntry == Entry("", 0)
NoBlock == 0

VARIABLES
  loaded,     \* whether the module is loaded, and its /proc entry there
  RAMDISK,    \* whether the disk is there: the pointer is not null
  disk,       \* the part of the disk that creating a name uses
  ioctl_fd,   \* ioctl_fd[t]: the library's descriptor of the /proc entry
  dead,       \* threads that died inside the kernel since it was loaded
  work,       \* work[t]: where rd_creat is, and its local variables
  ret_val,    \* ret_val[t]: the field the answer is copied out to
  answer,     \* answer[t]: what the last call of the library returned
  promised    \* names rd_creat was seen to succeed with since RD_INIT

clientVars == <<mutex, pc, cmd, status, interrupted, loaded, RAMDISK, disk,
                ioctl_fd, dead, work, ret_val, answer, promised>>

diskVars   == <<RAMDISK, disk, promised>>

(* No descriptor yet; one that could not be had; one that is open          *)
Unset  == 0
Failed == -1
IsOpen == 3

FreshBlock == [s \in 1 .. SLOTS |-> FreeEntry]

EmptyDisk ==
  [taken       |-> {0},
   free_inodes |-> INODES - 1,
   used        |-> {},                \* blocks taken from the bitmap
   block       |-> NoBlock,           \* the root directory's block
   entries     |-> [b \in 1 .. BLOCKS |-> FreshBlock],
   size        |-> 0]

Idle == [at |-> "find", name |-> "", inum |-> 0, block |-> NoBlock, slot |-> 0,
         seen |-> 0, res |-> -1]

Started(name)       == [Idle EXCEPT !.name = name]
Finished(name, res) == [Idle EXCEPT !.name = name, !.res = res]

ClientInit ==
  /\ Init
  /\ loaded = FALSE
  /\ RAMDISK = FALSE
  /\ disk = EmptyDisk
  /\ ioctl_fd = [t \in Threads |-> Unset]
  /\ dead = {}
  /\ work = [t \in Threads |-> Idle]
  /\ ret_val = [t \in Threads |-> "garbage"]
  /\ answer = [t \in Threads |-> "none"]
  /\ promised = {}

-----------------------------------------------------------------------------
(* The library.  ret_val is a field of a structure on the stack that only  *)
(* the kernel assigns to, and what ioctl returns is not looked at.         *)

AtHome(t) == pc[t] = "user" /\ t \notin dead

(* open(PROC_ENTRY, O_RDONLY) *)
OpenProc == IF loaded THEN IsOpen ELSE Failed

(* Mutant: a descriptor that could not be had is asked for again. *)
BugConnect(t) == IF ioctl_fd[t] = IsOpen THEN IsOpen ELSE OpenProc

Connect(t) == IF ioctl_fd[t] = Unset THEN OpenProc ELSE ioctl_fd[t]

Return(t, a) == answer' = [answer EXCEPT ![t] = a]

(* rd_init always opens the entry anew, and answers 0 whatever happens. *)
LibInit(t) ==
  /\ AtHome(t)
  /\ ioctl_fd' = [ioctl_fd EXCEPT ![t] = OpenProc]
  /\ IF OpenProc = Failed
     THEN Return(t, "0") /\ UNCHANGED vars
     ELSE Return(t, "none") /\ Enter(t, "RD_INIT")
  /\ UNCHANGED <<loaded, diskVars, dead, work, ret_val>>

(* The other calls.  rd_creat stands for those that follow RAMDISK, and    *)
(* rd_close of a descriptor that is not open (the name "") for those that  *)
(* answer -1 without looking at the disk.                                  *)
LibCall(t, name) ==
  /\ AtHome(t)
  /\ ioctl_fd' = [ioctl_fd EXCEPT ![t] = Connect(t)]
  /\ IF Connect(t) = Failed
     THEN Return(t, "garbage") /\ UNCHANGED <<vars, work>>
     ELSE /\ Enter(t, "RD_CALL")
          /\ work' = [work EXCEPT ![t] = Started(name)]
          /\ Return(t, "none")
  /\ UNCHANGED <<loaded, diskVars, dead, ret_val>>

(* The process ends between two calls, and the next one starts afresh. *)
Exit(t) ==
  /\ AtHome(t)
  /\ ioctl_fd' = [ioctl_fd EXCEPT ![t] = Unset]
  /\ Return(t, "none")
  /\ UNCHANGED <<vars, loaded, diskVars, dead, work, ret_val>>

-----------------------------------------------------------------------------
(* rd_creat on the disk: _ramdisk_find_directory_entry,                    *)
(* _ramdisk_allocate_inode, inode_add_block, add_directory_entry and the   *)
(* two counters, which are read and written in two steps.                  *)

Creating(t, at) ==
  /\ pc[t] = "call" /\ cmd[t] = "RD_CALL" /\ t \notin dead
  /\ work[t].name \in Names
  /\ work[t].at = at
  /\ RAMDISK

Go(t, w) ==
  /\ work' = [work EXCEPT ![t] = w]
  /\ UNCHANGED <<vars, loaded, RAMDISK, ioctl_fd, dead, ret_val, answer, promised>>

Finish(t, res) ==
  /\ CallDisk(t)
  /\ work' = [work EXCEPT ![t] = Finished(work[t].name, res)]
  /\ UNCHANGED <<loaded, RAMDISK, ioctl_fd, dead, ret_val, answer, promised>>

(* The entries a search sees: it goes by the size up to the first block,   *)
(* and then looks at all of that block.                                    *)
EntriesIn(d) ==
  IF d.size = 0 \/ d.block = NoBlock THEN {}
  ELSE Range(d.entries[d.block]) \ {FreeEntry}

Listed(d) == {e.name : e \in EntriesIn(d)}

Find(t) ==
  /\ Creating(t, "find")
  /\ IF work[t].name \in Listed(disk) THEN Finish(t, -1)
     ELSE Go(t, [work[t] EXCEPT !.at = "scan"])
  /\ UNCHANGED disk

Scan(t) ==
  /\ Creating(t, "scan")
  /\ IF disk.free_inodes = 0 \/ Inums \subseteq disk.taken THEN Finish(t, -1)
     ELSE Go(t, [work[t] EXCEPT !.at = "mark", !.inum = Min(Inums \ disk.taken)])
  /\ UNCHANGED disk

Mark(t) ==
  /\ Creating(t, "mark")
  /\ disk' = [disk EXCEPT !.taken = @ \cup {work[t].inum}]
  /\ Go(t, [work[t] EXCEPT !.at = "count", !.seen = disk.free_inodes])

Count(t) ==
  /\ Creating(t, "count")
  /\ disk' = [disk EXCEPT !.free_inodes = work[t].seen - 1]
  /\ Go(t, [work[t] EXCEPT !.at = "room", !.block = disk.block])

(* The last block of the directory, or a new one.  Other files may have    *)
(* taken all the blocks: then the inode stays taken.                       *)
FreeBlocks == (1 .. BLOCKS) \ disk.used

Attach(t) ==
  /\ disk' = [disk EXCEPT !.used = @ \cup {Min(FreeBlocks)},
                          !.block = Min(FreeBlocks),
                          !.entries[Min(FreeBlocks)] = FreshBlock]
  /\ Go(t, [work[t] EXCEPT !.at = "place", !.block = Min(FreeBlocks)])

Room(t) ==
  /\ Creating(t, "room")
  /\ \/ work[t].block # NoBlock /\ Go(t, [work[t] EXCEPT !.at = "place"]) /\ UNCHANGED disk
     \/ work[t].block = NoBlock /\ Finish(t, -1) /\ UNCHANGED disk
     \/ work[t].block = NoBlock /\ FreeBlocks # {} /\ Attach(t)

Places(t) == {s \in 1 .. SLOTS : disk.entries[work[t].block][s] = FreeEntry}

Place(t) ==
  /\ Creating(t, "place")
  /\ Go(t, [work[t] EXCEPT !.at = "fill", !.slot = Min(Places(t))])
  /\ UNCHANGED disk

Fill(t) ==
  /\ Creating(t, "fill")
  /\ disk' = [disk EXCEPT !.entries[work[t].block][work[t].slot]
                            = Entry(work[t].name, work[t].inum)]
  /\ Go(t, [work[t] EXCEPT !.at = "grow", !.seen = disk.size])

Grow(t) ==
  /\ Creating(t, "grow")
  /\ disk' = [disk EXCEPT !.size = work[t].seen + 1]
  /\ Finish(t, 0)

Creation(t) ==
  \/ Find(t) \/ Scan(t) \/ Mark(t) \/ Count(t) \/ Room(t)
  \/ Place(t) \/ Fill(t) \/ Grow(t)

-----------------------------------------------------------------------------
(* The entry point: KernelLock's steps, with what they carry.              *)
Rest == UNCHANGED <<loaded, ioctl_fd, answer>>

(* Without Overlaps those who are inside when a wait is interrupted come   *)
(* out together with the one that was let in, and nobody gets in after.    *)
MayGetIn == interrupted = 0 \/ Overlaps

Arrive(t) ==
  /\ (MayGetIn /\ Down(t)) \/ Interrupt(t) \/ CopyIn(t)
  /\ Rest
  /\ UNCHANGED <<diskVars, dead, work, ret_val>>

(* Mutant: a thread that dies gives the semaphore back. *)
BugDie(t) ==
  /\ dead' = dead \cup {t}
  /\ ioctl_fd' = [ioctl_fd EXCEPT ![t] = Unset]
  /\ mutex' = mutex + 1 /\ pc' = [pc EXCEPT ![t] = "user"]
  /\ UNCHANGED <<cmd, status, interrupted, loaded, diskVars, work, ret_val, answer>>

(* The thread is gone, and what it had open is closed.                     *)
Die(t) ==
  /\ dead' = dead \cup {t}
  /\ ioctl_fd' = [ioctl_fd EXCEPT ![t] = Unset]
  /\ UNCHANGED <<vars, loaded, diskVars, work, ret_val, answer>>

(* RD_INIT: the memory may not be had, which is not looked at either.      *)
CallInit(t) ==
  /\ pc[t] = "call" /\ cmd[t] = "RD_INIT" /\ t \notin dead
  /\ \/ /\ CallDisk(t)
        /\ RAMDISK' = TRUE
        /\ disk' = EmptyDisk
        /\ promised' = {}
        /\ Rest
        /\ UNCHANGED <<dead, work, ret_val>>
     \/ ~RAMDISK /\ Die(t)

(* rd_close of a descriptor that is not open *)
CallClose(t) ==
  /\ pc[t] = "call" /\ cmd[t] = "RD_CALL" /\ work[t].name \notin Names
  /\ t \notin dead
  /\ Finish(t, -1)
  /\ UNCHANGED disk

(* Any other call, while there is no disk *)
CallNull(t) ==
  /\ pc[t] = "call" /\ cmd[t] = "RD_CALL" /\ work[t].name \in Names
  /\ t \notin dead
  /\ ~RAMDISK
  /\ Die(t)

(* The answer, if it can be copied out *)
Deliver(t) ==
  /\ CopyOut(t)
  /\ \/ /\ ret_val' = [ret_val EXCEPT ![t] = IF work[t].res = 0 THEN "0" ELSE "-1"]
        /\ promised' = IF work[t].res = 0 THEN promised \cup {work[t].name} ELSE promised
     \/ UNCHANGED <<ret_val, promised>>
  /\ Rest
  /\ UNCHANGED <<RAMDISK, disk, dead, work>>

(* Mutant: the arguments outlive the call, and a call whose answer was not *)
(* copied out returns that of the one before.                              *)
BugLeave(t) ==
  /\ Up(t)
  /\ Return(t, IF cmd[t] = "RD_INIT" THEN "0" ELSE ret_val[t])
  /\ work' = [work EXCEPT ![t] = Idle]
  /\ UNCHANGED <<loaded, ioctl_fd, diskVars, dead, ret_val>>

Leave(t) ==
  /\ Up(t)
  /\ Return(t, IF cmd[t] = "RD_INIT" THEN "0" ELSE ret_val[t])
  /\ work' = [work EXCEPT ![t] = Idle]
  /\ ret_val' = [ret_val EXCEPT ![t] = "garbage"]
  /\ UNCHANGED <<loaded, ioctl_fd, diskVars, dead>>

-----------------------------------------------------------------------------
(* initialization_routine and cleanup_routine.  The /proc entry belongs to *)
(* the module, which stays while somebody has the entry open; in the place *)
(* of threads that died come new processes.                                *)
(* Mutant: the semaphore starts with a count of two. *)
BugLoad ==
  /\ ~loaded
  /\ loaded' = TRUE
  /\ mutex' = 2
  /\ RAMDISK' = FALSE
  /\ interrupted' = 0
  /\ dead' = {}
  /\ pc' = [t \in Threads |-> "user"]
  /\ work' = [t \in Threads |-> Idle]
  /\ UNCHANGED <<cmd, status, disk, ioctl_fd, ret_val, answer, promised>>

Load ==
  /\ ~loaded
  /\ loaded' = TRUE
  /\ mutex' = 1
  /\ RAMDISK' = FALSE
  /\ interrupted' = 0
  /\ dead' = {}
  /\ pc' = [t \in Threads |-> "user"]
  /\ work' = [t \in Threads |-> Idle]
  /\ UNCHANGED <<cmd, status, disk, ioctl_fd, ret_val, answer, promised>>

Unload ==
  /\ loaded
  /\ \A t \in Threads : ioctl_fd[t] # IsOpen
  /\ loaded' = FALSE
  /\ disk' = EmptyDisk
  /\ promised' = {}
  /\ UNCHANGED <<vars, RAMDISK, ioctl_fd, dead, work, ret_val, answer>>

ClientNext ==
  \/ Load
  \/ Unload
  \/ \E t \in Threads :
       \/ LibInit(t)
       \/ \E name \in Names \cup {""} : LibCall(t, name)
       \/ Exit(t)
       \/ Arrive(t)
       \/ CallInit(t) \/ CallClose(t) \/ CallNull(t) \/ Creation(t)
       \/ Deliver(t)
       \/ Leave(t)

ClientSpec == ClientInit /\ [][ClientNext]_clientVars

-----------------------------------------------------------------------------
ClientTypeOK ==
  /\ TypeOK
  /\ loaded \in BOOLEAN /\ RAMDISK \in BOOLEAN
  /\ disk.taken \subseteq Inums /\ disk.used \subseteq 1 .. BLOCKS
  /\ disk.free_inodes \in Int /\ disk.size \in Nat
  /\ disk.block \in disk.used \cup {NoBlock}
  /\ ioctl_fd \in [Threads -> {Unset, Failed, IsOpen}]
  /\ dead \subseteq Inside
  /\ ret_val \in [Threads -> {"garbage", "0", "-1"}]
  /\ promised \subseteq Names

(***************************************************************************)
(* While no wait was interrupted: whenever nobody is inside, no inode was  *)
(* given out twice, every name is there once, both counters are exact, and *)
(* every name that somebody was told is created is there.  The searches    *)
(* and the marks of rd_creat are many steps apart; only the semaphore, on  *)
(* every path through the handlers, keeps them together.                   *)
(***************************************************************************)
CreationsExact ==
  interrupted = 0 /\ RAMDISK /\ Inside = {} =>
    LET made == EntriesIn(disk) IN
    /\ promised \subseteq Listed(disk)
    /\ \A e, f \in made : e.name = f.name \/ e.inum = f.inum => e = f
    /\ {e.inum : e \in made} \subseteq disk.taken \ {0}
    /\ disk.free_inodes = INODES - Cardinality(disk.taken)
    /\ disk.size = Cardinality(made)

(***************************************************************************)
(* One call before the first RD_INIT and the disk is shut for everybody:   *)
(* the semaphore went with the thread, so that no other gets in, not even  *)
(* the RD_INIT that would have made a disk, until the module is loaded     *)
(* again (or a signal lets somebody past the semaphore).                   *)
(***************************************************************************)
DeadThreadShutsDisk ==
  dead # {} /\ interrupted = 0 => mutex = 0 /\ Inside = dead /\ ~RAMDISK

(***************************************************************************)
(* "if (!ioctl_fd)": a process whose first call came before the module was *)
(* loaded keeps the failed descriptor, and its calls end in the library    *)
(* with an answer that comes from nowhere, until it calls rd_init or ends; *)
(* that the module is there by then makes no difference.                   *)
(***************************************************************************)
CutOffUntilInit ==
  [][\A t \in Threads :
       /\ ioctl_fd[t] = Failed
       /\ ~(pc'[t] = "down" /\ cmd'[t] = "RD_INIT")
       => /\ pc'[t] = "user"
          /\ ioctl_fd'[t] # IsOpen
          /\ answer'[t] \in {"none", "garbage", "0"}]_clientVars

(***************************************************************************)
(* Nobody looks at what a handler or ioctl returned, and half of the       *)
(* answers come out of a field that only a successful copy writes: what a  *)
(* caller is told is true all the same, while no wait was interrupted.  0  *)
(* means that the disk was made, or that the name is there; only rd_init   *)
(* says it of a module that is not loaded, and then it leaves the process  *)
(* with a failed descriptor.  -1 means that the name could not be made.    *)
(* Nothing is claimed of a call whose copies failed: its answer comes from *)
(* nowhere, and the model keeps it apart from both.                        *)
(***************************************************************************)
Told(t, a) == answer[t] # a /\ answer'[t] = a

CannotMake(d, name) == name \in Listed(d) \/ d.free_inodes = 0 \/ d.block = NoBlock

AnswersTrue ==
  [][\A t \in Threads : interrupted = 0 =>
       /\ Told(t, "0") =>
            IF loaded THEN RAMDISK /\ (cmd[t] = "RD_INIT" \/ work[t].name \in Listed(disk))
            ELSE ioctl_fd'[t] = Failed
       /\ Told(t, "-1") /\ work[t].name \in Names =>
            RAMDISK /\ CannotMake(disk, work[t].name)]_clientVars

=============================================================================

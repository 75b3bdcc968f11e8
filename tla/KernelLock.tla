----------------------------- MODULE KernelLock -----------------------------
(***************************************************************************)
(* The entry point of the kernel module: pseudo_device_ioctl of            *)
(* ramdisk_kernel_lib.c, run by many threads at once.  Every command takes *)
(* the module's semaphore with down_interruptible, copies its arguments    *)
(* in, makes the call on the disk, copies the answer out and ups the       *)
(* semaphore.  What down_interruptible answers is not looked at, so a      *)
(* thread that a signal wakes goes on without the semaphore, and ups it    *)
(* all the same.  The locks of superblock.c, which ramdisk.c calls inside, *)
(* are empty in the kernel build.                                          *)
(***************************************************************************)
EXTENDS Integers, FiniteSets

CONSTANTS
  Threads,        \* threads that make ioctl calls
  Interruptible,  \* those that signals may reach
  MaxInterrupts   \* bound of the model: interrupted waits

ASSUME LockAssumption ==
  /\ IsFiniteSet(Threads)
  /\ Interruptible \subseteq Threads
  /\ MaxInterrupts \in Nat

Commands == {"RD_INIT", "RD_CALL", "RD_TEST", "unknown"}
Stages   == {"user", "down", "copy_in", "call", "copy_out", "up"}
EINVAL   == 22

VARIABLES
  mutex,        \* the count of the semaphore
  pc,           \* pc[t]: where thread t is in the entry point
  cmd,          \* cmd[t]: the command it was called with
  status,       \* status[t]: what the last ioctl of t returned
  interrupted   \* how many waits a signal has ended

vars == <<mutex, pc, cmd, status, interrupted>>

Init ==
  /\ mutex = 1
  /\ pc = [t \in Threads |-> "user"]
  /\ cmd = [t \in Threads |-> "unknown"]
  /\ status = [t \in Threads |-> 0]
  /\ interrupted = 0

Goto(t, stage) == pc' = [pc EXCEPT ![t] = stage]

(* A command without a case of its own ends in the default of the switch. *)
Enter(t, c) ==
  /\ pc[t] = "user"
  /\ cmd' = [cmd EXCEPT ![t] = c]
  /\ IF c = "unknown"
     THEN /\ status' = [status EXCEPT ![t] = -EINVAL]
          /\ UNCHANGED pc
     ELSE /\ Goto(t, "down")
          /\ UNCHANGED status
  /\ UNCHANGED <<mutex, interrupted>>

(* RD_INIT has no arguments, and RD_TEST brings only room for its answer. *)
AfterDown(t) == IF cmd[t] = "RD_INIT" THEN "call" ELSE "copy_in"

(* Mutant: the count is taken down without having been looked at. *)
BugDown(t) ==
  /\ pc[t] = "down"
  /\ mutex' = mutex - 1
  /\ Goto(t, AfterDown(t))
  /\ UNCHANGED <<cmd, status, interrupted>>

(* down_interruptible, when it gets the semaphore *)
Down(t) ==
  /\ pc[t] = "down"
  /\ mutex > 0
  /\ mutex' = mutex - 1
  /\ Goto(t, AfterDown(t))
  /\ UNCHANGED <<cmd, status, interrupted>>

(* down_interruptible, when a signal ends the wait *)
Interrupt(t) ==
  /\ pc[t] = "down"
  /\ t \in Interruptible
  /\ mutex = 0
  /\ interrupted < MaxInterrupts
  /\ interrupted' = interrupted + 1
  /\ Goto(t, AfterDown(t))
  /\ UNCHANGED <<mutex, cmd, status>>

(* Mutants: a handler whose copy fails returns without up; or does the up  *)
(* itself, which the entry point then does again.                          *)
BugCopyInKeeps(t) ==
  /\ pc[t] = "copy_in"
  /\ Goto(t, "call") \/ Goto(t, "user")
  /\ UNCHANGED <<mutex, cmd, status, interrupted>>

BugCopyInUps(t) ==
  /\ pc[t] = "copy_in"
  /\ \/ Goto(t, "call") /\ UNCHANGED mutex
     \/ Goto(t, "up") /\ mutex' = mutex + 1
  /\ UNCHANGED <<cmd, status, interrupted>>

(* The handlers: a copy that fails makes them return before the call. *)
CopyIn(t) ==
  /\ pc[t] = "copy_in"
  /\ \/ Goto(t, "call")
     \/ Goto(t, "up")
  /\ UNCHANGED <<mutex, cmd, status, interrupted>>

(* Mutant: the call is tried again with its arguments read anew. *)
BugCallDisk(t) ==
  /\ pc[t] = "call"
  /\ Goto(t, IF cmd[t] = "RD_INIT" THEN "up" ELSE "copy_in")
  /\ UNCHANGED <<mutex, cmd, status, interrupted>>

CallDisk(t) ==
  /\ pc[t] = "call"
  /\ Goto(t, IF cmd[t] = "RD_INIT" THEN "up" ELSE "copy_out")
  /\ UNCHANGED <<mutex, cmd, status, interrupted>>

(* Whether the answer could be copied out makes no difference to what follows. *)
CopyOut(t) ==
  /\ pc[t] = "copy_out"
  /\ Goto(t, "up")
  /\ UNCHANGED <<mutex, cmd, status, interrupted>>

(* Mutant: RD_TEST falls into the default before its up. *)
BugUp(t) ==
  /\ pc[t] = "up"
  /\ mutex' = mutex + IF cmd[t] = "RD_TEST" THEN 0 ELSE 1
  /\ status' = [status EXCEPT ![t] = IF cmd[t] = "RD_TEST" THEN -EINVAL ELSE 0]
  /\ Goto(t, "user")
  /\ UNCHANGED <<cmd, interrupted>>

(* up, and the return of the ioctl: RD_TEST has no break and falls into    *)
(* the default.                                                            *)
Up(t) ==
  /\ pc[t] = "up"
  /\ mutex' = mutex + 1
  /\ status' = [status EXCEPT ![t] = IF cmd[t] = "RD_TEST" THEN -EINVAL ELSE 0]
  /\ Goto(t, "user")
  /\ UNCHANGED <<cmd, interrupted>>

Handle(t) == CopyIn(t) \/ CallDisk(t) \/ CopyOut(t) \/ Up(t)

Next ==
  \E t \in Threads :
    \/ \E c \in Commands : Enter(t, c)
    \/ Down(t)
    \/ Interrupt(t)
    \/ Handle(t)

(***************************************************************************)
(* A thread in the kernel keeps running, and a semaphore that is up is     *)
(* eventually taken if somebody waits for it; which of the waiters gets it *)
(* is left open, and nobody has to be interrupted or to make a call.       *)
(***************************************************************************)
Fairness ==
  /\ \A t \in Threads : WF_vars(Handle(t))
  /\ WF_vars(\E t \in Threads : Down(t))

Spec == Init /\ [][Next]_vars /\ Fairness

-----------------------------------------------------------------------------
TypeOK ==
  /\ mutex \in Nat
  /\ pc \in [Threads -> Stages]
  /\ cmd \in [Threads -> Commands]
  /\ status \in [Threads -> {0, -EINVAL}]
  /\ interrupted \in Nat

(* The threads between their down and their up *)
Inside == {t \in Threads : pc[t] \notin {"user", "down"}}

(***************************************************************************)
(* As long as no wait has been interrupted, the calls on the disk are made *)
(* one at a time: what the model of the RAM disk assumes when it makes     *)
(* each of them a single step.                                             *)
(***************************************************************************)
MutualExclusion ==
  interrupted = 0 => \A s, t \in Inside : s = t

(***************************************************************************)
(* Each interrupted wait lets one more thread in, and for good: the up     *)
(* without a down stays in the count of the semaphore.                     *)
(***************************************************************************)
EveryInterruptLetsOneMoreIn ==
  mutex + Cardinality(Inside) = 1 + interrupted

(***************************************************************************)
(* "Locks the ramdisk" (superblock.h): two threads are never inside        *)
(* together.                                                               *)
(***************************************************************************)
OneInside == \A s, t \in Inside : s = t

(***************************************************************************)
(* A thread that got in comes out again, whatever fails on its way: no     *)
(* path through the handlers keeps the semaphore.                          *)
(***************************************************************************)
EveryThreadLeaves == \A t \in Threads : t \in Inside ~> pc[t] = "user"

(***************************************************************************)
(* The semaphore is never lost: while a thread waits, somebody gets in     *)
(* sooner or later, also after copies that failed and waits that were      *)
(* interrupted.                                                            *)
(***************************************************************************)
SomeoneGetsIn == (\E t \in Threads : pc[t] = "down") ~> Inside # {}

=============================================================================

--------------------------- MODULE ClientsProofs ---------------------------
(***************************************************************************)
(* Proofs about the semaphore of the entry point, about the clients and    *)
(* the module, and about creating a name, for any finite set of threads,   *)
(* any of which may be interrupted, any number of times, and any size of   *)
(* the disk.                                                               *)
(***************************************************************************)
EXTENDS Clients, WellFoundedInduction, FiniteSetTheorems, TLAPS

(***************************************************************************)
(* A non-empty set of naturals has a least element, and Min is it.         *)
(***************************************************************************)
LEMMA MinIsLeast ==
  ASSUME NEW S \in SUBSET Nat, S # {}
  PROVE  Min(S) \in S /\ \A j \in S : Min(S) <= j
<1> DEFINE R == OpToRel(<, Nat)
<1>1. IsWellFoundedOn(R, Nat)
  BY NatLessThanWellFounded
<1> HIDE DEF R
<1>2. PICK i \in S : \A j \in S : ~ (<<j, i>> \in R)
  BY <1>1, WFMin
<1>3. \A j \in S : ~ (j < i)
  BY <1>2 DEF R, OpToRel
<1>4. \A j \in S : i <= j
  BY <1>3
<1>. QED  BY <1>4 DEF Min

-----------------------------------------------------------------------------
(***************************************************************************)
(* The count and the threads inside balance: the type invariant and the    *)
(* number of interrupted waits are all the induction needs.                *)
(***************************************************************************)
IInv == TypeOK /\ EveryInterruptLetsOneMoreIn

(* There are finitely many threads inside. *)
LEMMA InsideFinite ==
  /\ IsFiniteSet(Inside)
  /\ Cardinality(Inside) \in Nat
<1>1. Inside \in SUBSET Threads
  BY DEF Inside
<1>2. IsFiniteSet(Inside)
  BY <1>1, LockAssumption, FS_Subset
<1>. QED  BY <1>2, FS_CardinalityType

(* A step of thread t from one stage to another, as the set Inside sees it. *)
LEMMA StepIn ==
  ASSUME TypeOK, NEW t \in Threads, NEW stage \in Stages \ {"user", "down"},
         pc[t] \in {"user", "down"}, Goto(t, stage)
  PROVE  Cardinality(Inside') = Cardinality(Inside) + 1
<1>1. Inside' = Inside \cup {t}
  BY DEF Inside, Goto, TypeOK
<1>2. t \notin Inside
  BY DEF Inside
<1>. QED  BY <1>1, <1>2, InsideFinite, FS_AddElement

LEMMA StepWithin ==
  ASSUME TypeOK, NEW t \in Threads, NEW stage \in Stages,
         pc[t] \in {"user", "down"} <=> stage \in {"user", "down"}, Goto(t, stage)
  PROVE  Inside' = Inside
BY DEF Inside, Goto, TypeOK

LEMMA StepOut ==
  ASSUME TypeOK, NEW t \in Threads, pc[t] = "up", Goto(t, "user")
  PROVE  Cardinality(Inside') = Cardinality(Inside) - 1
<1>1. Inside' = Inside \ {t}
  BY DEF Inside, Goto, TypeOK
<1>2. t \in Inside
  BY DEF Inside
<1>. QED  BY <1>1, <1>2, InsideFinite, FS_RemoveElement

(* After its down a thread is inside. *)
LEMMA AfterDownInside ==
  ASSUME NEW t \in Threads
  PROVE  AfterDown(t) \in Stages \ {"user", "down"}
BY DEF AfterDown, Stages

-----------------------------------------------------------------------------
LEMMA Initially == Init => IInv
<1> SUFFICES ASSUME Init PROVE IInv
  OBVIOUS
<1>1. TypeOK
  BY DEF Init, TypeOK, Stages, Commands
<1>2. Inside = {}
  BY DEF Init, Inside
<1>3. Cardinality(Inside) = 0
  BY <1>2, FS_EmptySet
<1>. QED  BY <1>1, <1>3 DEF Init, IInv, EveryInterruptLetsOneMoreIn

(* Every step keeps the types. *)
LEMMA StepKeepsTypes == TypeOK /\ [Next]_vars => TypeOK'
<1> SUFFICES ASSUME TypeOK, [Next]_vars PROVE TypeOK'
  OBVIOUS
<1>. USE DEF TypeOK, Goto, Stages
<1>1. ASSUME NEW t \in Threads, NEW c \in Commands, Enter(t, c)
      PROVE  TypeOK'
  BY <1>1 DEF Enter
<1>2. ASSUME NEW t \in Threads, Down(t)
      PROVE  TypeOK'
  BY <1>2 DEF Down, AfterDown
<1>3. ASSUME NEW t \in Threads, Interrupt(t)
      PROVE  TypeOK'
  BY <1>3 DEF Interrupt, AfterDown
<1>4. ASSUME NEW t \in Threads, Handle(t)
      PROVE  TypeOK'
  <2>1. CASE CopyIn(t)
    BY <2>1 DEF CopyIn
  <2>2. CASE CallDisk(t)
    BY <2>2 DEF CallDisk
  <2>3. CASE CopyOut(t)
    BY <2>3 DEF CopyOut
  <2>4. CASE Up(t)
    BY <2>4 DEF Up
  <2>. QED  BY <1>4, <2>1, <2>2, <2>3, <2>4 DEF Handle
<1>5. CASE UNCHANGED vars
  BY <1>5 DEF vars
<1>. QED  BY <1>1, <1>2, <1>3, <1>4, <1>5 DEF Next

(* Every step keeps the balance of the semaphore. *)
LEMMA StepKeepsBalance ==
  IInv /\ [Next]_vars => EveryInterruptLetsOneMoreIn'
<1> SUFFICES ASSUME IInv, [Next]_vars PROVE EveryInterruptLetsOneMoreIn'
  OBVIOUS
<1>. USE DEF IInv, EveryInterruptLetsOneMoreIn
<1>0. /\ mutex \in Nat /\ interrupted \in Nat /\ Cardinality(Inside) \in Nat
      /\ TypeOK
      /\ mutex + Cardinality(Inside) = 1 + interrupted
  BY InsideFinite DEF TypeOK
<1>1. ASSUME NEW t \in Threads, NEW c \in Commands, Enter(t, c)
      PROVE  EveryInterruptLetsOneMoreIn'
  <2>1. CASE c = "unknown"
    <3>1. Inside' = Inside
      BY <1>1, <2>1 DEF Enter, Inside
    <3>. QED  BY <1>0, <1>1, <3>1 DEF Enter
  <2>2. CASE c # "unknown"
    <3>1. Inside' = Inside
      BY <1>0, <1>1, <2>2, StepWithin DEF Enter, Stages
    <3>. QED  BY <1>0, <1>1, <3>1 DEF Enter
  <2>. QED  BY <2>1, <2>2
<1>2. ASSUME NEW t \in Threads, Down(t)
      PROVE  EveryInterruptLetsOneMoreIn'
  <2>1. Cardinality(Inside') = Cardinality(Inside) + 1
    BY <1>0, <1>2, StepIn, AfterDownInside DEF Down
  <2>. QED  BY <1>0, <1>2, <2>1 DEF Down
<1>3. ASSUME NEW t \in Threads, Interrupt(t)
      PROVE  EveryInterruptLetsOneMoreIn'
  <2>1. Cardinality(Inside') = Cardinality(Inside) + 1
    BY <1>0, <1>3, StepIn, AfterDownInside DEF Interrupt
  <2>. QED  BY <1>0, <1>3, <2>1 DEF Interrupt
<1>4. ASSUME NEW t \in Threads, Handle(t)
      PROVE  EveryInterruptLetsOneMoreIn'
  <2>1. CASE CopyIn(t)
    <3>1. Inside' = Inside
      BY <1>0, <2>1, StepWithin DEF CopyIn, Stages
    <3>. QED  BY <1>0, <2>1, <3>1 DEF CopyIn
  <2>2. CASE CallDisk(t)
    <3>1. Inside' = Inside
      BY <1>0, <2>2, StepWithin DEF CallDisk, Stages
    <3>. QED  BY <1>0, <2>2, <3>1 DEF CallDisk
  <2>3. CASE CopyOut(t)
    <3>1. Inside' = Inside
      BY <1>0, <2>3, StepWithin DEF CopyOut, Stages
    <3>. QED  BY <1>0, <2>3, <3>1 DEF CopyOut
  <2>4. CASE Up(t)
    <3>1. Cardinality(Inside') = Cardinality(Inside) - 1
      BY <1>0, <2>4, StepOut DEF Up
    <3>. QED  BY <1>0, <2>4, <3>1 DEF Up
  <2>. QED  BY <1>4, <2>1, <2>2, <2>3, <2>4 DEF Handle
<1>5. CASE UNCHANGED vars
  <2>1. Inside' = Inside
    BY <1>5 DEF vars, Inside
  <2>. QED  BY <1>0, <1>5, <2>1 DEF vars
<1>. QED  BY <1>1, <1>2, <1>3, <1>4, <1>5 DEF Next

(* The balance leaves room for one thread only. *)
LEMMA BalanceExcludes == IInv => MutualExclusion
<1> SUFFICES ASSUME IInv, interrupted = 0, NEW s \in Inside, NEW t \in Inside,
                    s # t
             PROVE  FALSE
  BY DEF MutualExclusion
<1>1. Cardinality(Inside) <= 1
  BY InsideFinite DEF IInv, TypeOK, EveryInterruptLetsOneMoreIn
<1>2. Cardinality(Inside \ {t}) = Cardinality(Inside) - 1
  BY InsideFinite, FS_RemoveElement
<1>3. Inside \ {t} # {} /\ IsFiniteSet(Inside \ {t})
  BY InsideFinite, FS_RemoveElement
<1>4. Cardinality(Inside \ {t}) # 0
  BY <1>3, FS_EmptySet
<1>5. Cardinality(Inside \ {t}) \in Nat
  BY <1>3, FS_CardinalityType
<1>. QED  BY <1>1, <1>2, <1>4, <1>5, InsideFinite

-----------------------------------------------------------------------------
(***************************************************************************)
(* The strengthened invariant holds in every reachable state.              *)
(***************************************************************************)
THEOREM Inductive == Spec => []IInv
<1>1. IInv /\ [Next]_vars => IInv'
  BY StepKeepsTypes, StepKeepsBalance DEF IInv
<1>. QED  BY Initially, <1>1, PTL DEF Spec

(***************************************************************************)
(* Type correctness of the entry point.                                    *)
(***************************************************************************)
THEOREM TypeCorrect == Spec => []TypeOK
<1>1. IInv => TypeOK
  BY DEF IInv
<1>. QED  BY <1>1, Inductive, PTL

(***************************************************************************)
(* The semaphore's count and the threads inside add up to one more than    *)
(* the waits that were interrupted, for ever.                              *)
(***************************************************************************)
THEOREM InterruptsAddUp == Spec => []EveryInterruptLetsOneMoreIn
<1>1. IInv => EveryInterruptLetsOneMoreIn
  BY DEF IInv
<1>. QED  BY <1>1, Inductive, PTL

(***************************************************************************)
(* Without interrupted waits at most one thread is inside, so each call on *)
(* the RAM disk is atomic.                                                 *)
(***************************************************************************)
THEOREM CallsExcludeEachOther == Spec => []MutualExclusion
BY BalanceExcludes, Inductive, PTL

-----------------------------------------------------------------------------
(***************************************************************************)
(* The clients and the module.  Between two loadings of the module every   *)
(* step is one of KernelLock, whose invariant carries over.                *)
(***************************************************************************)
Descriptors == {Unset, Failed, IsOpen}
RetVals     == {"garbage", "0", "-1"}

ClientTypes ==
  /\ loaded \in BOOLEAN /\ RAMDISK \in BOOLEAN
  /\ ioctl_fd \in [Threads -> Descriptors]
  /\ ret_val \in [Threads -> RetVals]
  /\ answer \in [Threads -> RetVals \cup {"none"}]

(* A dead thread stays where it died; every other one that is in the       *)
(* kernel came through an open descriptor, which keeps the module.         *)
Ways ==
  /\ dead \subseteq Threads
  /\ \A t \in dead : pc[t] = "call" /\ ioctl_fd[t] = Unset
  /\ \A t \in Threads \ dead : pc[t] # "user" => ioctl_fd[t] = IsOpen
  /\ \A t \in Threads : ioctl_fd[t] = IsOpen => loaded
  /\ \A t \in Threads : ioctl_fd[t] = Failed => answer[t] # "-1"

(* While a dead thread keeps the semaphore nobody makes a disk. *)
NoDiskBehindTheDead == dead # {} /\ interrupted = 0 => ~RAMDISK

ClientInv == IInv /\ ClientTypes /\ Ways /\ NoDiskBehindTheDead

(***************************************************************************)
(* The module is not unloaded under a call: every thread in the kernel,    *)
(* dead ones apart, is in a module that is loaded.                         *)
(***************************************************************************)
ModuleStaysUnderCalls == \A t \in Threads \ dead : pc[t] # "user" => loaded

-----------------------------------------------------------------------------
(* What the steps of rd_creat leave alone, and what they do to the lock. *)
LEMMA CreationStep ==
  ASSUME NEW t \in Threads, Creation(t)
  PROVE  /\ CallDisk(t) \/ UNCHANGED vars
         /\ pc[t] = "call" /\ t \notin dead
         /\ UNCHANGED <<loaded, RAMDISK, ioctl_fd, dead, ret_val, answer>>
<1>. USE DEF Creating, Go, Finish
<1>1. CASE Find(t)
  BY <1>1 DEF Find
<1>2. CASE Scan(t)
  BY <1>2 DEF Scan
<1>3. CASE Mark(t)
  BY <1>3 DEF Mark
<1>4. CASE Count(t)
  BY <1>4 DEF Count
<1>5. CASE Room(t)
  BY <1>5 DEF Room, Attach
<1>6. CASE Place(t)
  BY <1>6 DEF Place
<1>7. CASE Fill(t)
  BY <1>7 DEF Fill
<1>8. CASE Grow(t)
  BY <1>8 DEF Grow
<1>. QED  BY <1>1, <1>2, <1>3, <1>4, <1>5, <1>6, <1>7, <1>8 DEF Creation

(* The steps of a thread between its down and its up, as the invariant     *)
(* sees them.                                                              *)
Serves(t) ==
  /\ pc[t] # "user" /\ t \notin dead
  /\ Down(t) \/ Interrupt(t) \/ Handle(t) \/ UNCHANGED vars
  /\ ret_val' \in [Threads -> RetVals]
  /\ answer' \in [Threads -> RetVals \cup {"none"}]
  /\ \A s \in Threads \ {t} : answer'[s] = answer[s]
  /\ UNCHANGED <<loaded, RAMDISK, ioctl_fd, dead>>

LEMMA ServiceSteps ==
  ASSUME ClientInv, NEW t \in Threads,
         Arrive(t) \/ CallClose(t) \/ Creation(t) \/ Deliver(t) \/ Leave(t)
  PROVE  Serves(t)
<1>0. \A s \in dead : pc[s] = "call"
  BY DEF ClientInv, Ways
<1>. USE DEF ClientInv, ClientTypes
<1>1. CASE Arrive(t)
  BY <1>0, <1>1 DEF Arrive, MayGetIn, Rest, diskVars, Down, Interrupt, CopyIn, Handle, Serves
<1>2. CASE CallClose(t)
  BY <1>0, <1>2 DEF CallClose, Finish, CallDisk, Handle, Serves
<1>3. CASE Creation(t)
  BY <1>3, CreationStep DEF Handle, Serves
<1>4. CASE Deliver(t)
  <2>1. ret_val' \in [Threads -> RetVals]
    BY <1>4 DEF Deliver, RetVals
  <2>. QED  BY <1>0, <1>4, <2>1 DEF Deliver, Rest, CopyOut, Handle, Serves
<1>5. CASE Leave(t)
  <2>1. /\ ret_val' \in [Threads -> RetVals]
        /\ answer' \in [Threads -> RetVals \cup {"none"}]
        /\ \A s \in Threads \ {t} : answer'[s] = answer[s]
    BY <1>5 DEF Leave, Return, RetVals
  <2>. QED  BY <1>0, <1>5, <2>1 DEF Leave, diskVars, Up, Handle, Serves
<1>. QED  BY <1>1, <1>2, <1>3, <1>4, <1>5

(* Calling the library, and dying, are steps of the lock or leave it alone. *)
LEMMA CallSteps ==
  ASSUME NEW t \in Threads,
         \/ LibInit(t)
         \/ \E name \in Names \cup {""} : LibCall(t, name)
         \/ Exit(t)
  PROVE  /\ pc[t] = "user" /\ t \notin dead
         /\ UNCHANGED vars \/ Enter(t, "RD_INIT") \/ Enter(t, "RD_CALL")
         /\ UNCHANGED <<loaded, RAMDISK, dead, ret_val>>
BY DEF LibInit, LibCall, Exit, AtHome, diskVars

LEMMA DistinctDescriptors == Unset # Failed /\ Unset # IsOpen /\ Failed # IsOpen
  BY DEF Unset, Failed, IsOpen

(* Asking for a descriptor gives an open one only while the module is      *)
(* there.                                                                  *)
LEMMA ConnectGives ==
  ASSUME ClientInv, NEW t \in Threads
  PROVE  /\ Connect(t) \in {Failed, IsOpen}
         /\ Connect(t) = IsOpen => loaded
<1>0. ioctl_fd[t] \in {Unset, Failed, IsOpen} /\ (ioctl_fd[t] = IsOpen => loaded)
  BY DEF ClientInv, ClientTypes, Descriptors, Ways
<1>1. CASE ioctl_fd[t] = Unset
  <2>1. Connect(t) = IF loaded THEN IsOpen ELSE Failed
    BY <1>1 DEF Connect, OpenProc
  <2>. QED  BY <2>1, DistinctDescriptors
<1>2. CASE ioctl_fd[t] # Unset
  <2>1. Connect(t) = ioctl_fd[t]
    BY <1>2 DEF Connect
  <2>. QED  BY <1>0, <1>2, <2>1
<1>. QED  BY <1>1, <1>2

(* A call of the library ends there if the descriptor could not be had,    *)
(* and otherwise goes on through an open one.                              *)
LEMMA LibCallEffects ==
  ASSUME ClientInv, NEW t \in Threads, NEW name \in Names \cup {""}, LibCall(t, name)
  PROVE  /\ ioctl_fd' = [ioctl_fd EXCEPT ![t] = Connect(t)]
         /\ pc[t] = "user" /\ t \notin dead
         /\ UNCHANGED <<loaded, dead>>
         /\ \/ /\ Connect(t) = Failed
               /\ answer' = [answer EXCEPT ![t] = "garbage"]
               /\ UNCHANGED <<pc, cmd>>
            \/ /\ Connect(t) = IsOpen /\ loaded
               /\ answer' = [answer EXCEPT ![t] = "none"]
               /\ pc' = [pc EXCEPT ![t] = "down"]
<1>1. /\ ioctl_fd' = [ioctl_fd EXCEPT ![t] = Connect(t)]
      /\ pc[t] = "user" /\ t \notin dead
      /\ UNCHANGED <<loaded, dead>>
  BY DEF LibCall, AtHome
<1>2. CASE Connect(t) = Failed
  <2>1. answer' = [answer EXCEPT ![t] = "garbage"] /\ UNCHANGED vars
    BY <1>2 DEF LibCall, Return
  <2>. QED  BY <1>1, <1>2, <2>1 DEF vars
<1>3. CASE Connect(t) = IsOpen
  <2>1. Enter(t, "RD_CALL") /\ answer' = [answer EXCEPT ![t] = "none"]
    BY <1>3, DistinctDescriptors DEF LibCall, Return
  <2>2. pc' = [pc EXCEPT ![t] = "down"]
    BY <2>1 DEF Enter, Goto
  <2>. QED  BY <1>1, <1>3, <2>1, <2>2, ConnectGives
<1>. QED  BY <1>2, <1>3, ConnectGives

(* Between two loadings the lock moves as KernelLock lets it. *)
LEMMA LockSteps ==
  ASSUME ClientInv, [ClientNext]_clientVars, ~Load
  PROVE  [Next]_vars
<1>1. ASSUME NEW t \in Threads, Serves(t)
      PROVE  [Next]_vars
  BY <1>1 DEF Serves, Next
<1>2. ASSUME NEW t \in Threads, UNCHANGED vars \/ Enter(t, "RD_INIT") \/ Enter(t, "RD_CALL")
      PROVE  [Next]_vars
  BY <1>2 DEF Next, Commands
<1>3. ASSUME NEW t \in Threads, CallInit(t) \/ CallNull(t)
      PROVE  [Next]_vars
  BY <1>3 DEF CallInit, CallNull, Die, Next, Handle
<1>4. ASSUME Unload
      PROVE  [Next]_vars
  BY <1>4 DEF Unload
<1>5. CASE UNCHANGED clientVars
  BY <1>5 DEF clientVars, vars
<1>. QED  BY <1>1, <1>2, <1>3, <1>4, <1>5, CallSteps, ServiceSteps DEF ClientNext

(* Loading the module starts the lock afresh. *)
LEMMA LoadRestartsLock == ASSUME ClientInv, Load PROVE IInv'
<1>1. TypeOK'
  BY DEF Load, ClientInv, IInv, TypeOK, Stages
<1>2. Inside' = {}
  BY DEF Load, Inside
<1>3. Cardinality(Inside') = 0
  BY <1>2, FS_EmptySet
<1>. QED  BY <1>1, <1>3 DEF Load, IInv, EveryInterruptLetsOneMoreIn

LEMMA LockInvariantKept ==
  ASSUME ClientInv, [ClientNext]_clientVars PROVE IInv'
<1>1. CASE Load
  BY <1>1, LoadRestartsLock
<1>2. CASE ~Load
  <2>1. [Next]_vars
    BY <1>2, LockSteps
  <2>. QED  BY <2>1, StepKeepsTypes, StepKeepsBalance DEF ClientInv, IInv
<1>. QED  BY <1>1, <1>2

(* What a serving step does to the stages of the threads *)
LEMMA ServiceStages ==
  ASSUME TypeOK, NEW t \in Threads, Serves(t)
  PROVE  \A s \in Threads \ {t} : pc'[s] = pc[s]
<1>1. CASE Down(t)
  BY <1>1 DEF TypeOK, Down, Goto
<1>2. CASE Interrupt(t)
  BY <1>2 DEF TypeOK, Interrupt, Goto
<1>3. CASE Handle(t)
  BY <1>3 DEF TypeOK, Handle, CopyIn, CallDisk, CopyOut, Up, Goto
<1>4. CASE UNCHANGED vars
  BY <1>4 DEF vars
<1>. QED  BY <1>1, <1>2, <1>3, <1>4 DEF Serves

(* The descriptors, answers and fields keep their types. *)
LEMMA TypesKept ==
  ASSUME ClientInv, [ClientNext]_clientVars PROVE ClientTypes'
<1>. USE DEF ClientInv, ClientTypes, Descriptors, Return
<1>0. OpenProc \in {Failed, IsOpen} /\ \A t \in Threads : Connect(t) \in Descriptors
  BY DEF OpenProc, Connect
<1>1. CASE Load
  BY <1>1 DEF Load
<1>2. CASE Unload
  BY <1>2 DEF Unload, vars
<1>3. ASSUME NEW t \in Threads, LibInit(t)
      PROVE  ClientTypes'
  BY <1>0, <1>3 DEF LibInit, diskVars, RetVals
<1>4. ASSUME NEW t \in Threads, NEW name \in Names \cup {""}, LibCall(t, name)
      PROVE  ClientTypes'
  BY <1>0, <1>4 DEF LibCall, diskVars, RetVals
<1>5. ASSUME NEW t \in Threads, Exit(t)
      PROVE  ClientTypes'
  BY <1>5 DEF Exit, diskVars
<1>6. ASSUME NEW t \in Threads, CallInit(t) \/ CallNull(t)
      PROVE  ClientTypes'
  BY <1>6 DEF CallInit, CallNull, Die, Rest, diskVars
<1>7. ASSUME NEW t \in Threads, Serves(t)
      PROVE  ClientTypes'
  BY <1>7 DEF Serves
<1>8. CASE UNCHANGED clientVars
  BY <1>8 DEF clientVars
<1>. QED  BY <1>1, <1>2, <1>3, <1>4, <1>5, <1>6, <1>7, <1>8, ServiceSteps DEF ClientNext

(* Every way into the kernel is through an open descriptor. *)
LEMMA WaysKept ==
  ASSUME ClientInv, [ClientNext]_clientVars PROVE Ways'
<1>. USE DEF ClientInv, ClientTypes, Ways, Descriptors, Return, Unset, Failed, IsOpen
<1>0. TypeOK
  BY DEF IInv
<1>1. CASE Load
  BY <1>1 DEF Load
<1>2. CASE Unload
  BY <1>2 DEF Unload, vars
<1>3. ASSUME NEW t \in Threads, LibInit(t)
      PROVE  Ways'
  BY <1>0, <1>3 DEF LibInit, diskVars, OpenProc, Enter, Goto, TypeOK, AtHome, vars
<1>4. ASSUME NEW t \in Threads, NEW name \in Names \cup {""}, LibCall(t, name)
      PROVE  Ways'
  <2>. HIDE DEF ClientInv, Unset, Failed, IsOpen
  <2>. DEFINE c == Connect(t)
  <2>1. /\ ioctl_fd' = [ioctl_fd EXCEPT ![t] = c]
        /\ pc[t] = "user" /\ t \notin dead
        /\ UNCHANGED <<loaded, dead>>
        /\ \/ /\ c = Failed
              /\ answer' = [answer EXCEPT ![t] = "garbage"]
              /\ pc' = pc
           \/ /\ c = IsOpen /\ loaded
              /\ answer' = [answer EXCEPT ![t] = "none"]
              /\ pc' = [pc EXCEPT ![t] = "down"]
    BY <1>4, LibCallEffects
  <2>. HIDE DEF c
  <2>2. ClientTypes /\ Ways /\ pc \in [Threads -> Stages]
    BY <1>0 DEF ClientInv, TypeOK
  <2>3. CASE c = Failed
    BY <2>1, <2>2, <2>3, DistinctDescriptors
  <2>4. CASE c = IsOpen
    BY <2>1, <2>2, <2>4, DistinctDescriptors
  <2>. QED  BY <2>1, <2>3, <2>4
<1>5. ASSUME NEW t \in Threads, Exit(t)
      PROVE  Ways'
  BY <1>5 DEF Exit, diskVars, AtHome, vars
<1>6. ASSUME NEW t \in Threads, CallInit(t) \/ CallNull(t)
      PROVE  Ways'
  <2>1. CASE Die(t)
    BY <1>6, <2>1 DEF CallInit, CallNull, Die, vars
  <2>2. CASE CallDisk(t) /\ Rest /\ UNCHANGED dead
    BY <1>0, <1>6, <2>2 DEF CallInit, CallNull, CallDisk, Goto, TypeOK, Rest
  <2>. QED  BY <1>6, <2>1, <2>2 DEF CallInit, CallNull
<1>7. ASSUME NEW t \in Threads, Serves(t)
      PROVE  Ways'
  <2>1. \A s \in Threads \ {t} : pc'[s] = pc[s]
    BY <1>0, <1>7, ServiceStages
  <2>. QED  BY <1>7, <2>1 DEF Serves
<1>8. CASE UNCHANGED clientVars
  BY <1>8 DEF clientVars
<1>. QED  BY <1>1, <1>2, <1>3, <1>4, <1>5, <1>6, <1>7, <1>8, ServiceSteps DEF ClientNext

(***************************************************************************)
(* The disk is made by a thread inside; the dead one is inside, too, and   *)
(* without interrupted waits there is only one.                            *)
(***************************************************************************)
LEMMA NoDiskKept ==
  ASSUME ClientInv, [ClientNext]_clientVars PROVE NoDiskBehindTheDead'
<1>. USE DEF ClientInv, NoDiskBehindTheDead
<1>0. /\ interrupted \in Nat
      /\ MutualExclusion
  BY BalanceExcludes DEF IInv, TypeOK
<1>1. CASE Load
  BY <1>1 DEF Load
<1>2. CASE Unload
  BY <1>2 DEF Unload, vars
<1>3. ASSUME NEW t \in Threads,
             \/ LibInit(t)
             \/ \E name \in Names \cup {""} : LibCall(t, name)
             \/ Exit(t)
      PROVE  NoDiskBehindTheDead'
  BY <1>3, CallSteps DEF Enter, vars
<1>4. ASSUME NEW t \in Threads, CallInit(t) \/ CallNull(t)
      PROVE  NoDiskBehindTheDead'
  <2>1. CASE Die(t)
    BY <1>4, <2>1 DEF CallInit, CallNull, CallDisk, Die, diskVars, vars
  <2>2. CASE CallDisk(t) /\ UNCHANGED dead
    <3>1. t \in Inside /\ t \notin dead /\ dead \subseteq Inside
      BY <1>4, <2>2 DEF Inside, CallInit, CallNull, CallDisk, Ways
    <3>2. dead = {} \/ interrupted # 0
      BY <1>0, <3>1 DEF MutualExclusion
    <3>. QED  BY <2>2, <3>2 DEF CallDisk
  <2>. QED  BY <1>4, <2>1, <2>2 DEF CallInit, CallNull
<1>5. ASSUME NEW t \in Threads, Serves(t)
      PROVE  NoDiskBehindTheDead'
  BY <1>0, <1>5 DEF Serves, Down, Interrupt, Handle, CopyIn, CallDisk, CopyOut, Up, vars
<1>6. CASE UNCHANGED clientVars
  BY <1>6 DEF clientVars
<1>. QED  BY <1>1, <1>2, <1>3, <1>4, <1>5, <1>6, ServiceSteps DEF ClientNext

-----------------------------------------------------------------------------
LEMMA ClientInitially == ClientInit => ClientInv
<1> SUFFICES ASSUME ClientInit PROVE ClientInv
  OBVIOUS
<1>1. IInv
  BY Initially DEF ClientInit
<1>2. ClientTypes
  BY DEF ClientInit, ClientTypes, Descriptors, RetVals
<1>3. Ways
  BY DEF ClientInit, Init, Ways, Unset, Failed, IsOpen
<1>4. NoDiskBehindTheDead
  BY DEF ClientInit, NoDiskBehindTheDead
<1>. QED  BY <1>1, <1>2, <1>3, <1>4 DEF ClientInv

(***************************************************************************)
(* The invariant that the theorems below rest on holds in every reachable  *)
(* state of the clients and the module.                                    *)
(***************************************************************************)
THEOREM ClientsInductive == ClientSpec => []ClientInv
<1>1. ClientInv /\ [ClientNext]_clientVars => ClientInv'
  <2>. SUFFICES ASSUME ClientInv, [ClientNext]_clientVars PROVE ClientInv'
    OBVIOUS
  <2>. QED  BY LockInvariantKept, TypesKept, WaysKept, NoDiskKept DEF ClientInv
<1>. QED  BY ClientInitially, <1>1, PTL DEF ClientSpec

(***************************************************************************)
(* Loading and unloading the module, dying threads and clients that come   *)
(* and go do not break the exclusion of the entry point.                   *)
(***************************************************************************)
THEOREM ClientsExcludeEachOther == ClientSpec => []MutualExclusion
<1>1. ClientInv => MutualExclusion
  BY BalanceExcludes DEF ClientInv
<1>. QED  BY <1>1, ClientsInductive, PTL

(***************************************************************************)
(* The module is never unloaded under a call, because the process that     *)
(* makes it holds an open descriptor.                                      *)
(***************************************************************************)
THEOREM ModuleInUseStays == ClientSpec => []ModuleStaysUnderCalls
<1>1. ClientInv => ModuleStaysUnderCalls
  BY DEF ClientInv, Ways, ModuleStaysUnderCalls
<1>. QED  BY <1>1, ClientsInductive, PTL

(***************************************************************************)
(* A call before the first RD_INIT shuts the disk for everybody: the       *)
(* semaphore is gone with the thread, and nobody else is inside.           *)
(***************************************************************************)
THEOREM DeadThreadsShutDisk == ClientSpec => []DeadThreadShutsDisk
<1>1. ClientInv => DeadThreadShutsDisk
  <2> SUFFICES ASSUME ClientInv, dead # {}, interrupted = 0
               PROVE  mutex = 0 /\ Inside = dead /\ ~RAMDISK
    BY DEF DeadThreadShutsDisk
  <2>1. dead \subseteq Inside
    BY DEF ClientInv, Ways, Inside
  <2>2. Inside = dead
    BY <2>1, BalanceExcludes DEF ClientInv, MutualExclusion
  <2>3. Cardinality(Inside) # 0
    BY <2>2, InsideFinite, FS_EmptySet
  <2>4. mutex = 0
    BY <2>3, InsideFinite DEF ClientInv, IInv, TypeOK, EveryInterruptLetsOneMoreIn
  <2>. QED  BY <2>2, <2>4 DEF ClientInv, NoDiskBehindTheDead
<1>. QED  BY <1>1, ClientsInductive, PTL

(***************************************************************************)
(* A process whose first call found no module stays cut off until it calls *)
(* rd_init or ends.                                                        *)
(***************************************************************************)
THEOREM FailedDescriptorsStick == ClientSpec => CutOffUntilInit
<1> DEFINE Stays(t) ==
      /\ ioctl_fd[t] = Failed
      /\ ~(pc'[t] = "down" /\ cmd'[t] = "RD_INIT")
      => /\ pc'[t] = "user"
         /\ ioctl_fd'[t] # IsOpen
         /\ answer'[t] \in {"none", "garbage", "0"}
<1>1. ASSUME ClientInv, [ClientNext]_clientVars, NEW t \in Threads PROVE Stays(t)
  <2> SUFFICES ASSUME ioctl_fd[t] = Failed, ~(pc'[t] = "down" /\ cmd'[t] = "RD_INIT")
               PROVE  /\ pc'[t] = "user"
                      /\ ioctl_fd'[t] # IsOpen
                      /\ answer'[t] \in {"none", "garbage", "0"}
    OBVIOUS
  <2>. USE DEF ClientTypes, Descriptors, Return, Unset, Failed, IsOpen
  <2>a. TypeOK /\ ClientTypes /\ Ways
    BY <1>1 DEF ClientInv, IInv
  <2>b. pc[t] = "user" /\ t \notin dead
    BY <2>a DEF Ways
  <2>c. answer[t] \in {"none", "garbage", "0"}
    BY <2>a DEF Ways, RetVals
  <2>0. /\ pc[t] = "user" /\ t \notin dead
        /\ answer[t] \in {"none", "garbage", "0"}
        /\ TypeOK /\ ClientTypes
    BY <2>a, <2>b, <2>c
  <2>1. CASE Load
    BY <2>0, <2>1 DEF Load
  <2>2. CASE Unload
    BY <2>0, <2>2 DEF Unload, vars
  <2>3. ASSUME NEW s \in Threads, LibInit(s)
        PROVE  /\ pc'[t] = "user"
               /\ ioctl_fd'[t] # IsOpen
               /\ answer'[t] \in {"none", "garbage", "0"}
    BY <2>0, <2>3 DEF LibInit, OpenProc, Enter, Goto, TypeOK, vars
  <2>4. ASSUME NEW s \in Threads, NEW name \in Names \cup {""}, LibCall(s, name)
        PROVE  /\ pc'[t] = "user"
               /\ ioctl_fd'[t] # IsOpen
               /\ answer'[t] \in {"none", "garbage", "0"}
    <3>. HIDE DEF Unset, Failed, IsOpen
    <3>. DEFINE c == Connect(s)
    <3>0. /\ ioctl_fd' = [ioctl_fd EXCEPT ![s] = c]
          /\ \/ c = Failed /\ answer' = [answer EXCEPT ![s] = "garbage"] /\ pc' = pc
             \/ /\ c = IsOpen
                /\ answer' = [answer EXCEPT ![s] = "none"]
                /\ pc' = [pc EXCEPT ![s] = "down"]
          /\ s = t => c = Failed
      BY <1>1, <2>0, <2>4, LibCallEffects, DistinctDescriptors DEF Connect
    <3>1. ioctl_fd \in [Threads -> Descriptors] /\ pc \in [Threads -> Stages]
          /\ answer \in [Threads -> RetVals \cup {"none"}]
      BY <2>0 DEF TypeOK
    <3>. HIDE DEF c
    <3>2. CASE s = t
      BY <2>0, <3>0, <3>1, <3>2, DistinctDescriptors
    <3>3. CASE s # t
      BY <2>0, <3>0, <3>1, <3>3, DistinctDescriptors
    <3>. QED  BY <3>2, <3>3
  <2>5. ASSUME NEW s \in Threads, Exit(s)
        PROVE  /\ pc'[t] = "user"
               /\ ioctl_fd'[t] # IsOpen
               /\ answer'[t] \in {"none", "garbage", "0"}
    BY <2>0, <2>5 DEF Exit, vars
  <2>6. ASSUME NEW s \in Threads, CallInit(s) \/ CallNull(s)
        PROVE  /\ pc'[t] = "user"
               /\ ioctl_fd'[t] # IsOpen
               /\ answer'[t] \in {"none", "garbage", "0"}
    BY <2>0, <2>6 DEF CallInit, CallNull, CallDisk, Die, Goto, Rest, TypeOK, vars
  <2>7. ASSUME NEW s \in Threads, Serves(s)
        PROVE  /\ pc'[t] = "user"
               /\ ioctl_fd'[t] # IsOpen
               /\ answer'[t] \in {"none", "garbage", "0"}
    BY <2>0, <2>7, ServiceStages DEF Serves
  <2>8. CASE UNCHANGED clientVars
    BY <2>0, <2>8 DEF clientVars
  <2>. QED
    BY <1>1, <2>1, <2>2, <2>3, <2>4, <2>5, <2>6, <2>7, <2>8, ServiceSteps DEF ClientNext
<1>2. ClientInv /\ [ClientNext]_clientVars => [\A t \in Threads : Stays(t)]_clientVars
  BY <1>1
<1>. QED  BY <1>2, ClientsInductive, PTL DEF ClientSpec, CutOffUntilInit

-----------------------------------------------------------------------------
(***************************************************************************)
(* Creating a name is many steps on the disk; the semaphore makes one step *)
(* of them.  As long as no wait was interrupted, the disk that a thread    *)
(* leaves behind is exact.                                                 *)
(***************************************************************************)
(* The slots of the root directory's block that are taken, and their names *)
(* and inodes                                                              *)
EntryAt(d, s) == d.entries[d.block][s]
Filled(d) ==
  IF d.block = NoBlock THEN {} ELSE {s \in 1 .. SLOTS : EntryAt(d, s) # FreeEntry}
NamesOf(d) == {EntryAt(d, s).name : s \in Filled(d)}
InumsOf(d) == {EntryAt(d, s).inum : s \in Filled(d)}

Labels     == Names \cup {""}
DirEntries == [name : Labels, inum : Inums]
Disks ==
  [taken       : SUBSET Inums,
   free_inodes : Int,
   used        : SUBSET (1 .. BLOCKS),
   block       : 0 .. BLOCKS,
   entries     : [1 .. BLOCKS -> [1 .. SLOTS -> DirEntries]],
   size        : Nat]

Steps == {"find", "scan", "mark", "count", "room", "place", "fill", "grow"}
Works ==
  [at : Steps, name : Labels, inum : Int, block : Int, slot : Int,
   seen : Int, res : {0, -1}]

(***************************************************************************)
(* What holds of the disk whatever the thread inside is doing: every name  *)
(* and every inode is there once, the inodes are marked, and what was      *)
(* promised is there.                                                      *)
(***************************************************************************)
Sound(d, made) ==
  /\ d \in Disks
  /\ 0 \in d.taken
  /\ InumsOf(d) \subseteq d.taken \ {0}
  /\ \A s, r \in Filled(d) :
       \/ EntryAt(d, s).name = EntryAt(d, r).name
       \/ EntryAt(d, s).inum = EntryAt(d, r).inum
       => s = r
  /\ made \subseteq NamesOf(d)

(* The counters lag behind while rd_creat is between a mark and its count. *)
Counted(d, at) ==
  /\ d.free_inodes = INODES - Cardinality(d.taken) + IF at = "count" THEN 1 ELSE 0
  /\ Cardinality(Filled(d)) = d.size + IF at = "grow" THEN 1 ELSE 0

(* What the thread inside has found out still holds when it acts on it. *)
UpToDate(d, w) ==
  /\ w.at \notin {"find", "grow"} => w.name \notin NamesOf(d)
  /\ w.at = "mark" => w.inum \in Inums \ d.taken
  /\ w.at \in {"count", "room", "place", "fill"} =>
       w.inum \in d.taken \ {0} /\ w.inum \notin InumsOf(d)
  /\ w.at = "count" => w.seen = d.free_inodes
  /\ w.at \in {"room", "place", "fill"} => w.block = d.block
  /\ w.at \in {"place", "fill"} => w.block # NoBlock
  /\ w.at = "fill" => w.slot \in 1 .. SLOTS \ Filled(d)
  /\ w.at = "grow" => w.seen = d.size
  /\ w.at = "grow" \/ w.res = 0 => w.name \in NamesOf(d)

DiskFor(d, made, w) == Sound(d, made) /\ Counted(d, w.at) /\ UpToDate(d, w)

(* Where a thread may be when it is in the middle of rd_creat, or has its  *)
(* success to report.                                                      *)
InPlace(w, stage, command) ==
  /\ w \in Works
  /\ w.at # "find" => /\ stage = "call" /\ command = "RD_CALL"
                      /\ w.name \in Names /\ w.res # 0
  /\ w.res = 0 => stage \in {"copy_out", "up"}

CreationInv ==
  interrupted = 0 =>
    /\ work \in [Threads -> Works]
    /\ \A t \in Threads : InPlace(work[t], pc[t], cmd[t])
    /\ RAMDISK => /\ Inside = {} => DiskFor(disk, promised, Idle)
                  /\ \A t \in Inside : DiskFor(disk, promised, work[t])

-----------------------------------------------------------------------------
(* The sets the counters count are finite. *)
LEMMA DiskFinite ==
  ASSUME NEW d \in Disks
  PROVE  /\ IsFiniteSet(d.taken) /\ Cardinality(d.taken) \in Nat
         /\ IsFiniteSet(Filled(d)) /\ Cardinality(Filled(d)) \in Nat
         /\ Filled(d) \subseteq 1 .. SLOTS
<1>1. IsFiniteSet(Inums) /\ IsFiniteSet(1 .. SLOTS)
  BY ClientAssumption, FS_Interval DEF Inums
<1>2. d.taken \in SUBSET Inums /\ Filled(d) \in SUBSET (1 .. SLOTS)
  BY DEF Disks, Filled
<1>. QED  BY <1>1, <1>2, FS_Subset, FS_CardinalityType

(* A search sees exactly the slots that are taken. *)
LEMMA SearchSeesAll ==
  ASSUME NEW d, NEW made, NEW at, Sound(d, made), Counted(d, at), at # "grow"
  PROVE  /\ EntriesIn(d) = {EntryAt(d, s) : s \in Filled(d)}
         /\ Listed(d) = NamesOf(d)
<1>1. d \in Disks
  BY DEF Sound
<1>2. EntriesIn(d) = {EntryAt(d, s) : s \in Filled(d)}
  <2>1. CASE d.block = NoBlock
    BY <2>1 DEF EntriesIn, Filled
  <2>2. CASE d.size = 0
    <3>1. Cardinality(Filled(d)) = 0
      BY <1>1, <2>2 DEF Counted, Disks
    <3>2. Filled(d) = {}
      BY <1>1, <3>1, DiskFinite, FS_EmptySet
    <3>. QED  BY <2>2, <3>2 DEF EntriesIn
  <2>3. CASE d.block # NoBlock /\ d.size # 0
    <3>1. d.block \in 1 .. BLOCKS
      BY <1>1, <2>3, ClientAssumption DEF Disks, NoBlock
    <3>2. DOMAIN d.entries[d.block] = 1 .. SLOTS
      BY <1>1, <3>1 DEF Disks
    <3>3. Range(d.entries[d.block]) = {EntryAt(d, s) : s \in 1 .. SLOTS}
      BY <3>2 DEF Range, EntryAt
    <3>. QED  BY <2>3, <3>3 DEF EntriesIn, Filled
  <2>. QED  BY <2>1, <2>2, <2>3
<1>. QED  BY <1>2 DEF Listed, NamesOf

(* The directory never fills its block: there are more slots than inodes. *)
LEMMA SlotsLeft ==
  ASSUME NEW d, NEW made, Sound(d, made), NEW t \in Threads, d.block # NoBlock
  PROVE  1 .. SLOTS \ Filled(d) # {}
<1> SUFFICES ASSUME Filled(d) = 1 .. SLOTS PROVE FALSE
  BY DiskFinite DEF Sound
<1>0. INODES \in Nat \ {0} /\ SLOTS \in Nat
  BY ClientAssumption
<1>1. SLOTS >= INODES
  <2>1. Cardinality(Threads) \in Nat /\ Cardinality(Threads) # 0
    BY LockAssumption, FS_CardinalityType, FS_EmptySet
  <2>2. \A c \in Nat \ {0}, i \in Nat : c * i >= i
    OBVIOUS
  <2>3. Cardinality(Threads) * INODES >= INODES
    BY <1>0, <2>1, <2>2
  <2>. QED  BY <1>0, <2>1, <2>3, ClientAssumption
<1>2. Cardinality(1 .. SLOTS) = SLOTS /\ IsFiniteSet(1 .. SLOTS)
  BY <1>0, FS_Interval
<1>3. Cardinality(1 .. INODES - 1) = INODES - 1 /\ IsFiniteSet(1 .. INODES - 1)
  BY <1>0, FS_Interval
<1> DEFINE inum == [s \in 1 .. SLOTS |-> EntryAt(d, s).inum]
<1>4. inum \in Injection(1 .. SLOTS, 1 .. INODES - 1)
  <2>1. \A s \in 1 .. SLOTS : inum[s] \in InumsOf(d)
    BY DEF InumsOf
  <2>2. InumsOf(d) \subseteq 1 .. INODES - 1
    BY <1>0 DEF Sound, Disks, Inums
  <2>3. \A s, r \in 1 .. SLOTS : inum[s] = inum[r] => s = r
    BY DEF Sound
  <2> HIDE DEF inum
  <2>4. inum \in [1 .. SLOTS -> 1 .. INODES - 1]
    BY <2>1, <2>2 DEF inum
  <2>. QED  BY <2>3, <2>4 DEF Injection, IsInjective
<1> HIDE DEF inum
<1>5. SLOTS <= INODES - 1
  BY <1>2, <1>3, <1>4, FS_Injection
<1>. QED  BY <1>0, <1>1, <1>5

-----------------------------------------------------------------------------
(* Each step of rd_creat on the disk and its local variables, whoever      *)
(* takes it.                                                               *)
LEMMA SameEntries ==
  ASSUME NEW d, NEW e, e.block = d.block, e.entries = d.entries
  PROVE  /\ Filled(e) = Filled(d)
         /\ NamesOf(e) = NamesOf(d)
         /\ InumsOf(e) = InumsOf(d)
         /\ \A s \in Filled(d) : EntryAt(e, s) = EntryAt(d, s)
<1>1. \A s : EntryAt(e, s) = EntryAt(d, s)
  BY DEF EntryAt
<1>2. Filled(e) = Filled(d)
  BY <1>1 DEF Filled
<1>. QED  BY <1>1, <1>2 DEF NamesOf, InumsOf

LEMMA IdleWork == Idle \in Works /\ Idle.at = "find" /\ Idle.res = -1
<1>1. "find" \in Steps /\ "" \in Labels /\ NoBlock \in Int
      /\ -1 \in {0, -1}
  BY DEF Steps, Labels, NoBlock
<1>. QED  BY <1>1 DEF Idle, Works, Labels

LEMMA StartedWork ==
  ASSUME NEW name \in Labels
  PROVE  /\ Started(name) \in Works
         /\ Started(name).at = "find"
         /\ Started(name).res # 0
BY IdleWork DEF Started, Works

LEMMA FinishedWork ==
  ASSUME NEW w \in Works, NEW res \in {0, -1}
  PROVE  /\ Finished(w.name, res) \in Works
         /\ Finished(w.name, res).at = "find"
         /\ Finished(w.name, res).name = w.name
         /\ Finished(w.name, res).res = res
<1>1. w.name \in Labels
  BY DEF Works
<1>. QED  BY <1>1, IdleWork DEF Finished, Works

(* A call that gives up leaves a disk that is exact, and promises nothing. *)
LEMMA GiveUp ==
  ASSUME NEW d, NEW made, NEW w \in Works, DiskFor(d, made, w),
         w.at \notin {"count", "grow"}
  PROVE  /\ DiskFor(d, made, Finished(w.name, -1))
         /\ Finished(w.name, -1) \in Works
<1> DEFINE v == Finished(w.name, -1)
<1>1. v \in Works /\ v.at = "find" /\ v.res = -1
  BY FinishedWork
<1> HIDE DEF v
<1>2. Counted(d, v.at)
  BY <1>1 DEF DiskFor, Counted
<1>3. UpToDate(d, v)
  BY <1>1 DEF UpToDate
<1>. QED  BY <1>1, <1>2, <1>3 DEF DiskFor, v

LEMMA FindStep ==
  ASSUME NEW d, NEW made, NEW w \in Works, DiskFor(d, made, w),
         w.at = "find", w.res # 0, w.name \notin Listed(d)
  PROVE  LET v == [w EXCEPT !.at = "scan"] IN v \in Works /\ DiskFor(d, made, v)
<1> DEFINE v == [w EXCEPT !.at = "scan"]
<1>1. v \in Works /\ v.at = "scan" /\ v.name = w.name /\ v.res # 0
  BY DEF Works, Steps
<1>2. w.name \notin NamesOf(d)
  BY SearchSeesAll DEF DiskFor
<1> HIDE DEF v
<1>3. Counted(d, v.at)
  BY <1>1 DEF DiskFor, Counted
<1>4. UpToDate(d, v)
  BY <1>1, <1>2 DEF UpToDate
<1>. QED  BY <1>1, <1>3, <1>4 DEF DiskFor, v

LEMMA ScanStep ==
  ASSUME NEW d, NEW made, NEW w \in Works, DiskFor(d, made, w),
         w.at = "scan", w.res # 0, ~ (Inums \subseteq d.taken)
  PROVE  LET v == [w EXCEPT !.at = "mark", !.inum = Min(Inums \ d.taken)]
         IN  v \in Works /\ DiskFor(d, made, v)
<1> DEFINE i == Min(Inums \ d.taken)
           v == [w EXCEPT !.at = "mark", !.inum = i]
<1>1. i \in Inums \ d.taken
  <2>1. Inums \ d.taken \in SUBSET Nat /\ Inums \ d.taken # {}
    BY ClientAssumption DEF Inums
  <2>. QED  BY <2>1, MinIsLeast
<1> HIDE DEF i
<1>2. /\ v \in Works /\ v.at = "mark" /\ v.inum = i
      /\ v.name = w.name /\ v.res # 0
  <2>1. i \in Int /\ "mark" \in Steps
    BY <1>1, ClientAssumption DEF Inums, Steps
  <2>. QED  BY <2>1 DEF Works
<1> HIDE DEF v
<1>3. Counted(d, v.at)
  BY <1>2 DEF DiskFor, Counted
<1>4. UpToDate(d, v)
  BY <1>1, <1>2 DEF DiskFor, UpToDate
<1>. QED  BY <1>2, <1>3, <1>4 DEF DiskFor, v, i

LEMMA MarkStep ==
  ASSUME NEW d, NEW made, NEW w \in Works, DiskFor(d, made, w),
         w.at = "mark", w.res # 0
  PROVE  LET e == [d EXCEPT !.taken = @ \cup {w.inum}]
             v == [w EXCEPT !.at = "count", !.seen = d.free_inodes]
         IN  v \in Works /\ DiskFor(e, made, v)
<1> DEFINE e == [d EXCEPT !.taken = @ \cup {w.inum}]
           v == [w EXCEPT !.at = "count", !.seen = d.free_inodes]
<1>1. d \in Disks /\ w.inum \in Inums \ d.taken /\ w.name \notin NamesOf(d)
  BY DEF DiskFor, Sound, UpToDate
<1>2. /\ e \in Disks /\ e.taken = d.taken \cup {w.inum}
      /\ e.block = d.block /\ e.entries = d.entries
      /\ e.size = d.size /\ e.free_inodes = d.free_inodes
  BY <1>1 DEF Disks
<1>3. /\ v \in Works /\ v.at = "count" /\ v.seen = d.free_inodes
      /\ v.inum = w.inum /\ v.name = w.name /\ v.res # 0
  <2>1. /\ d.free_inodes \in Int /\ d.block \in Int
        /\ "count" \in Steps /\ "room" \in Steps
    BY <1>1, ClientAssumption DEF Disks, Steps
  <2>. QED  BY <2>1 DEF Works
<1> HIDE DEF e, v
<1>4. /\ Filled(e) = Filled(d) /\ NamesOf(e) = NamesOf(d) /\ InumsOf(e) = InumsOf(d)
      /\ \A s \in Filled(d) : EntryAt(e, s) = EntryAt(d, s)
  BY <1>2, SameEntries
<1>5. Sound(e, made)
  BY <1>2, <1>4 DEF DiskFor, Sound
<1>6. Counted(e, v.at)
  <2>1. Cardinality(e.taken) = Cardinality(d.taken) + 1 /\ Cardinality(d.taken) \in Nat
    BY <1>1, <1>2, DiskFinite, FS_AddElement
  <2>. QED  BY <1>1, <1>2, <1>3, <1>4, <2>1, ClientAssumption
            DEF DiskFor, Counted, Disks
<1>7. UpToDate(e, v)
  <2>1. w.inum # 0 /\ w.inum \notin InumsOf(d)
    BY <1>1 DEF DiskFor, Sound
  <2>. QED  BY <1>1, <1>2, <1>3, <1>4, <2>1 DEF UpToDate
<1>. QED  BY <1>3, <1>5, <1>6, <1>7 DEF DiskFor, e, v

LEMMA CountStep ==
  ASSUME NEW d, NEW made, NEW w \in Works, DiskFor(d, made, w),
         w.at = "count", w.res # 0
  PROVE  LET e == [d EXCEPT !.free_inodes = w.seen - 1]
             v == [w EXCEPT !.at = "room", !.block = d.block]
         IN  v \in Works /\ DiskFor(e, made, v)
<1> DEFINE e == [d EXCEPT !.free_inodes = w.seen - 1]
           v == [w EXCEPT !.at = "room", !.block = d.block]
<1>1. /\ d \in Disks /\ w.seen = d.free_inodes /\ w.name \notin NamesOf(d)
      /\ w.inum \in d.taken \ {0} /\ w.inum \notin InumsOf(d)
  BY DEF DiskFor, Sound, UpToDate
<1>2. /\ e \in Disks /\ e.taken = d.taken
      /\ e.block = d.block /\ e.entries = d.entries
      /\ e.size = d.size /\ e.free_inodes = d.free_inodes - 1
  BY <1>1 DEF Disks
<1>3. /\ v \in Works /\ v.at = "room" /\ v.block = d.block
      /\ v.inum = w.inum /\ v.name = w.name /\ v.res # 0
  <2>1. /\ d.free_inodes \in Int /\ d.block \in Int
        /\ "count" \in Steps /\ "room" \in Steps
    BY <1>1, ClientAssumption DEF Disks, Steps
  <2>. QED  BY <2>1 DEF Works
<1> HIDE DEF e, v
<1>4. /\ Filled(e) = Filled(d) /\ NamesOf(e) = NamesOf(d) /\ InumsOf(e) = InumsOf(d)
      /\ \A s \in Filled(d) : EntryAt(e, s) = EntryAt(d, s)
  BY <1>2, SameEntries
<1>5. Sound(e, made)
  BY <1>2, <1>4 DEF DiskFor, Sound
<1>6. Counted(e, v.at)
  <2>1. Cardinality(d.taken) \in Nat
    BY <1>1, DiskFinite
  <2>. QED  BY <1>1, <1>2, <1>3, <1>4, <2>1, ClientAssumption
            DEF DiskFor, Counted, Disks
<1>7. UpToDate(e, v)
  BY <1>1, <1>2, <1>3, <1>4 DEF UpToDate
<1>. QED  BY <1>3, <1>5, <1>6, <1>7 DEF DiskFor, e, v

(* There is a block: the entry will go there. *)
LEMMA RoomStep ==
  ASSUME NEW d, NEW made, NEW w \in Works, DiskFor(d, made, w),
         w.at = "room", w.res # 0, w.block # NoBlock
  PROVE  LET v == [w EXCEPT !.at = "place"] IN v \in Works /\ DiskFor(d, made, v)
<1> DEFINE v == [w EXCEPT !.at = "place"]
<1>1. /\ v \in Works /\ v.at = "place" /\ v.block = w.block
      /\ v.inum = w.inum /\ v.name = w.name /\ v.res # 0
  BY DEF Works, Steps
<1> HIDE DEF v
<1>2. Counted(d, v.at)
  BY <1>1 DEF DiskFor, Counted
<1>3. UpToDate(d, v)
  BY <1>1 DEF DiskFor, UpToDate
<1>. QED  BY <1>1, <1>2, <1>3 DEF DiskFor, v

(* A first block, empty: the directory was empty, too. *)
LEMMA AttachStep ==
  ASSUME NEW d, NEW made, NEW w \in Works, DiskFor(d, made, w),
         w.at = "room", w.res # 0, w.block = NoBlock,
         NEW b \in 1 .. BLOCKS
  PROVE  LET e == [d EXCEPT !.used = @ \cup {b}, !.block = b,
                            !.entries[b] = FreshBlock]
             v == [w EXCEPT !.at = "place", !.block = b]
         IN  v \in Works /\ DiskFor(e, made, v)
<1> DEFINE e == [d EXCEPT !.used = @ \cup {b}, !.block = b,
                          !.entries[b] = FreshBlock]
           v == [w EXCEPT !.at = "place", !.block = b]
<1>0. b \in Int /\ b # NoBlock /\ b \in 0 .. BLOCKS
  BY ClientAssumption DEF NoBlock
<1>1. /\ d \in Disks /\ d.block = NoBlock /\ w.name \notin NamesOf(d)
      /\ w.inum \in d.taken \ {0}
  BY DEF DiskFor, Sound, UpToDate
<1>2. FreshBlock \in [1 .. SLOTS -> DirEntries]
  BY ClientAssumption
     DEF FreshBlock, FreeEntry, Entry, DirEntries, Labels, Inums
<1>3. /\ e \in Disks /\ e.taken = d.taken
      /\ e.block = b /\ e.entries[b] = FreshBlock
      /\ e.size = d.size /\ e.free_inodes = d.free_inodes
  BY <1>0, <1>1, <1>2 DEF Disks
<1>4. /\ v \in Works /\ v.at = "place" /\ v.block = b
      /\ v.inum = w.inum /\ v.name = w.name /\ v.res # 0
  BY <1>0 DEF Works, Steps
<1> HIDE DEF e, v
<1>5. Filled(d) = {} /\ NamesOf(d) = {}
  BY <1>1 DEF Filled, NamesOf
<1>6. Filled(e) = {} /\ NamesOf(e) = {} /\ InumsOf(e) = {}
  <2>1. Filled(e) = {}
    BY <1>3 DEF Filled, EntryAt, FreshBlock
  <2>. QED  BY <2>1 DEF NamesOf, InumsOf
<1>7. Sound(e, made)
  BY <1>3, <1>5, <1>6 DEF DiskFor, Sound
<1>8. Counted(e, v.at)
  BY <1>3, <1>4, <1>5, <1>6 DEF DiskFor, Counted
<1>9. UpToDate(e, v)
  BY <1>0, <1>1, <1>3, <1>4, <1>6 DEF UpToDate
<1>. QED  BY <1>4, <1>7, <1>8, <1>9 DEF DiskFor, e, v

LEMMA PlaceStep ==
  ASSUME NEW d, NEW made, NEW w \in Works, DiskFor(d, made, w),
         w.at = "place", w.res # 0, NEW t \in Threads
  PROVE  LET v == [w EXCEPT !.at = "fill",
                            !.slot = Min({s \in 1 .. SLOTS :
                                           d.entries[w.block][s] = FreeEntry})]
         IN  v \in Works /\ DiskFor(d, made, v)
<1> DEFINE p == {s \in 1 .. SLOTS : d.entries[w.block][s] = FreeEntry}
           i == Min(p)
           v == [w EXCEPT !.at = "fill", !.slot = i]
<1>1. /\ Sound(d, made) /\ w.block = d.block /\ d.block # NoBlock
      /\ w.name \notin NamesOf(d)
      /\ w.inum \in d.taken \ {0} /\ w.inum \notin InumsOf(d)
  BY DEF DiskFor, UpToDate
<1>2. p = 1 .. SLOTS \ Filled(d)
  BY <1>1 DEF Filled, EntryAt
<1>3. p # {} /\ p \in SUBSET Nat
  BY <1>1, <1>2, SlotsLeft, ClientAssumption
<1> HIDE DEF p
<1>4. i \in 1 .. SLOTS \ Filled(d) /\ i \in Int
  BY <1>2, <1>3, MinIsLeast
<1> HIDE DEF i
<1>5. /\ v \in Works /\ v.at = "fill" /\ v.block = w.block /\ v.slot = i
      /\ v.inum = w.inum /\ v.name = w.name /\ v.res # 0
  BY <1>4 DEF Works, Steps
<1> HIDE DEF v
<1>6. Counted(d, v.at)
  BY <1>5 DEF DiskFor, Counted
<1>7. UpToDate(d, v)
  BY <1>1, <1>4, <1>5 DEF UpToDate
<1>. QED  BY <1>1, <1>5, <1>6, <1>7 DEF DiskFor, v, i, p

(* The new entry differs from all others in its name and in its inode. *)
LEMMA FillStep ==
  ASSUME NEW d, NEW made, NEW w \in Works, DiskFor(d, made, w),
         w.at = "fill", w.res # 0
  PROVE  LET e == [d EXCEPT !.entries[w.block][w.slot] = Entry(w.name, w.inum)]
             v == [w EXCEPT !.at = "grow", !.seen = d.size]
         IN  v \in Works /\ DiskFor(e, made, v)
<1> DEFINE new == Entry(w.name, w.inum)
           e   == [d EXCEPT !.entries[w.block][w.slot] = new]
           v   == [w EXCEPT !.at = "grow", !.seen = d.size]
<1>1. /\ d \in Disks /\ w.block = d.block /\ d.block # NoBlock
      /\ w.slot \in 1 .. SLOTS \ Filled(d)
      /\ w.name \notin NamesOf(d)
      /\ w.inum \in d.taken \ {0} /\ w.inum \notin InumsOf(d)
  BY DEF DiskFor, Sound, UpToDate
<1>2. /\ new \in DirEntries /\ new # FreeEntry
      /\ new.name = w.name /\ new.inum = w.inum
  BY <1>1 DEF Entry, FreeEntry, DirEntries, Disks, Works
<1> HIDE DEF new
<1>3. d.block \in 1 .. BLOCKS
  BY <1>1, ClientAssumption DEF Disks, NoBlock
<1>4. /\ e \in Disks /\ e.taken = d.taken /\ e.block = d.block
      /\ e.size = d.size /\ e.free_inodes = d.free_inodes
      /\ e.entries[d.block] = [d.entries[d.block] EXCEPT ![w.slot] = new]
  BY <1>1, <1>2, <1>3 DEF Disks
<1>5. /\ v \in Works /\ v.at = "grow" /\ v.seen = d.size
      /\ v.inum = w.inum /\ v.name = w.name /\ v.res # 0
  <2>1. d.size \in Int /\ "grow" \in Steps
    BY <1>1 DEF Disks, Steps
  <2>. QED  BY <2>1 DEF Works
<1> HIDE DEF e, v
<1>6. /\ EntryAt(e, w.slot) = new
      /\ \A s \in 1 .. SLOTS \ {w.slot} : EntryAt(e, s) = EntryAt(d, s)
  BY <1>1, <1>3, <1>4, SMTT(20), ZenonT(40) DEF EntryAt, Disks
<1>7. Filled(e) = Filled(d) \cup {w.slot}
  BY <1>1, <1>2, <1>4, <1>6 DEF Filled
<1>8. Filled(d) \subseteq 1 .. SLOTS \ {w.slot}
  BY <1>1 DEF Filled
<1>9. /\ NamesOf(e) = NamesOf(d) \cup {w.name}
      /\ InumsOf(e) = InumsOf(d) \cup {w.inum}
  BY <1>2, <1>6, <1>7, <1>8 DEF NamesOf, InumsOf
<1>10. Sound(e, made)
  <2>1. \A s, r \in Filled(e) :
          \/ EntryAt(e, s).name = EntryAt(e, r).name
          \/ EntryAt(e, s).inum = EntryAt(e, r).inum
          => s = r
    <3>1. \A s \in Filled(d) : /\ EntryAt(e, s) = EntryAt(d, s)
                               /\ EntryAt(d, s).name # w.name
                               /\ EntryAt(d, s).inum # w.inum
      BY <1>1, <1>6, <1>8 DEF NamesOf, InumsOf
    <3>. QED  BY <1>2, <1>6, <1>7, <3>1 DEF DiskFor, Sound
  <2>. QED  BY <1>1, <1>4, <1>9, <2>1 DEF DiskFor, Sound
<1>11. Counted(e, v.at)
  <2>1. Cardinality(Filled(e)) = Cardinality(Filled(d)) + 1
    BY <1>1, <1>7, DiskFinite, FS_AddElement
  <2>. QED  BY <1>1, <1>4, <1>5, <2>1 DEF DiskFor, Counted, Disks
<1>12. UpToDate(e, v)
  BY <1>4, <1>5, <1>9 DEF UpToDate
<1>. QED  BY <1>5, <1>10, <1>11, <1>12 DEF DiskFor, e, v, new

(* The size catches up, and the name may be promised. *)
LEMMA GrowStep ==
  ASSUME NEW d, NEW made, NEW w \in Works, DiskFor(d, made, w), w.at = "grow"
  PROVE  LET e == [d EXCEPT !.size = w.seen + 1]
             v == Finished(w.name, 0)
         IN  v \in Works /\ DiskFor(e, made, v)
<1> DEFINE e == [d EXCEPT !.size = w.seen + 1]
           v == Finished(w.name, 0)
<1>1. d \in Disks /\ w.seen = d.size /\ w.name \in NamesOf(d)
  BY DEF DiskFor, Sound, UpToDate
<1>2. /\ e \in Disks /\ e.taken = d.taken
      /\ e.block = d.block /\ e.entries = d.entries
      /\ e.size = d.size + 1 /\ e.free_inodes = d.free_inodes
  BY <1>1 DEF Disks
<1>3. v \in Works /\ v.at = "find" /\ v.name = w.name
  BY FinishedWork
<1> HIDE DEF e, v
<1>4. /\ Filled(e) = Filled(d) /\ NamesOf(e) = NamesOf(d) /\ InumsOf(e) = InumsOf(d)
      /\ \A s \in Filled(d) : EntryAt(e, s) = EntryAt(d, s)
  BY <1>2, SameEntries
<1>5. Sound(e, made)
  BY <1>2, <1>4 DEF DiskFor, Sound
<1>6. Counted(e, v.at)
  BY <1>1, <1>2, <1>3, <1>4 DEF DiskFor, Counted, Disks
<1>7. UpToDate(e, v)
  BY <1>1, <1>3, <1>4 DEF UpToDate
<1>. QED  BY <1>3, <1>5, <1>6, <1>7 DEF DiskFor, e, v

-----------------------------------------------------------------------------
(* A thread that is not in the middle of rd_creat has the disk as it is    *)
(* between the calls.                                                      *)
LEMMA Resting ==
  ASSUME NEW d, NEW made, NEW w \in Works, w.at = "find"
  PROVE  /\ DiskFor(d, made, w) => DiskFor(d, made, Idle)
         /\ DiskFor(d, made, Idle) /\ w.res # 0 => DiskFor(d, made, w)
BY IdleWork DEF DiskFor, Counted, UpToDate

(* While one thread is inside and no wait was interrupted, it is alone. *)
LEMMA AloneInside ==
  ASSUME ClientInv, interrupted = 0, NEW t \in Inside
  PROVE  /\ t \in Threads
         /\ Inside = {t}
         /\ \A s \in Threads \ {t} : pc[s] \in {"user", "down"}
BY BalanceExcludes DEF ClientInv, MutualExclusion, Inside

(***************************************************************************)
(* A step of the thread inside keeps the invariant if it leaves the disk   *)
(* as the thread's next step, or the next thread, needs it.                *)
(***************************************************************************)
LEMMA InsideStep ==
  ASSUME ClientInv, CreationInv, interrupted = 0, NEW t \in Inside,
         NEW w \in Works, work' = [work EXCEPT ![t] = w],
         NEW stage \in Stages, pc' = [pc EXCEPT ![t] = stage],
         cmd' = cmd,
         InPlace(w, stage, cmd[t]),
         RAMDISK' => DiskFor(disk', promised', w)
  PROVE  CreationInv'
<1>1. /\ t \in Threads
      /\ \A s \in Threads \ {t} : pc[s] \in {"user", "down"}
  BY AloneInside
<1>2. pc \in [Threads -> Stages] /\ work \in [Threads -> Works]
      /\ \A s \in Threads : InPlace(work[s], pc[s], cmd[s])
  BY DEF ClientInv, IInv, TypeOK, CreationInv
<1>3. /\ work' \in [Threads -> Works]
      /\ pc'[t] = stage /\ work'[t] = w
      /\ \A s \in Threads \ {t} : pc'[s] = pc[s] /\ work'[s] = work[s]
  BY <1>1, <1>2
<1>4. \A s \in Threads : InPlace(work'[s], pc'[s], cmd'[s])
  BY <1>2, <1>3
<1>5. Inside' \subseteq {t}
  BY <1>1, <1>3 DEF Inside
<1>6. ASSUME RAMDISK', Inside' = {} PROVE DiskFor(disk', promised', Idle)
  <2>1. stage \in {"user", "down"}
    BY <1>1, <1>3, <1>6 DEF Inside
  <2>2. w.at = "find"
    BY <2>1 DEF InPlace
  <2>. QED  BY <1>6, <2>2, Resting
<1>7. \A s \in Inside' : RAMDISK' => DiskFor(disk', promised', work'[s])
  BY <1>3, <1>5
<1>. QED  BY <1>3, <1>4, <1>6, <1>7 DEF CreationInv

(* A step of a thread that is not inside, and does not get in, leaves the  *)
(* disk alone.                                                             *)
LEMMA OutsideStep ==
  ASSUME ClientInv, CreationInv, interrupted = 0, NEW t \in Threads,
         pc[t] \in {"user", "down"},
         NEW w \in Works, work' = [work EXCEPT ![t] = w], w.at = "find", w.res # 0,
         NEW stage \in {"user", "down"}, pc' = [pc EXCEPT ![t] = stage],
         \A s \in Threads \ {t} : cmd'[s] = cmd[s],
         UNCHANGED <<RAMDISK, disk, promised>>
  PROVE  CreationInv'
<1>1. pc \in [Threads -> Stages] /\ work \in [Threads -> Works]
      /\ \A s \in Threads : InPlace(work[s], pc[s], cmd[s])
  BY DEF ClientInv, IInv, TypeOK, CreationInv
<1>2. /\ work' \in [Threads -> Works]
      /\ pc'[t] = stage /\ work'[t] = w
      /\ \A s \in Threads \ {t} : pc'[s] = pc[s] /\ work'[s] = work[s]
  BY <1>1
<1>3. \A s \in Threads : InPlace(work'[s], pc'[s], cmd'[s])
  <2>1. InPlace(w, stage, cmd'[t])
    BY DEF InPlace
  <2>. QED  BY <1>1, <1>2, <2>1
<1>4. Inside' = Inside /\ t \notin Inside
  BY <1>2 DEF Inside
<1>5. \A s \in Inside : work'[s] = work[s]
  BY <1>2, <1>4 DEF Inside
<1>. QED  BY <1>2, <1>3, <1>4, <1>5 DEF CreationInv

-----------------------------------------------------------------------------
(* What is known when a step of rd_creat is taken *)
LEMMA Midway ==
  ASSUME ClientInv, CreationInv, interrupted = 0,
         NEW t \in Threads, NEW at, Creating(t, at)
  PROVE  /\ t \in Inside
         /\ work \in [Threads -> Works]
         /\ work[t] \in Works /\ work[t].at = at /\ work[t].name \in Names
         /\ work[t].res # 0
         /\ DiskFor(disk, promised, work[t])
         /\ pc \in [Threads -> Stages]
         /\ pc[t] = "call" /\ cmd[t] = "RD_CALL"
<1>1. t \in Inside
  BY DEF Creating, Inside
<1>2. RAMDISK /\ pc[t] = "call" /\ work[t].at = at /\ work[t].name \in Names
      /\ cmd[t] = "RD_CALL"
  BY DEF Creating
<1>3. work \in [Threads -> Works] /\ InPlace(work[t], pc[t], cmd[t])
      /\ DiskFor(disk, promised, work[t])
  BY <1>1, <1>2 DEF CreationInv
<1>4. work[t].res # 0
  BY <1>2, <1>3 DEF InPlace
<1>. QED  BY <1>1, <1>2, <1>3, <1>4 DEF ClientInv, IInv, TypeOK

LEMMA GoStep ==
  ASSUME ClientInv, CreationInv, interrupted = 0,
         NEW t \in Threads, NEW at, Creating(t, at),
         NEW v \in Works, Go(t, v), v.name = work[t].name, v.res = work[t].res,
         DiskFor(disk', promised, v)
  PROVE  CreationInv'
<1>1. /\ t \in Inside /\ work[t].name \in Names /\ work[t].res # 0
      /\ pc \in [Threads -> Stages]
      /\ pc[t] = "call" /\ cmd[t] = "RD_CALL"
  BY Midway
<1>2. /\ work' = [work EXCEPT ![t] = v] /\ promised' = promised
      /\ pc' = pc /\ cmd' = cmd
  BY DEF Go, vars
<1>3. pc' = [pc EXCEPT ![t] = "call"] /\ "call" \in Stages
  BY <1>1, <1>2 DEF Stages
<1>4. InPlace(v, "call", cmd[t])
  BY <1>1 DEF InPlace
<1>. QED  BY <1>1, <1>2, <1>3, <1>4, InsideStep

LEMMA FinishStep ==
  ASSUME ClientInv, CreationInv, interrupted = 0,
         NEW t \in Threads, NEW at, Creating(t, at),
         NEW res \in {0, -1}, Finish(t, res),
         DiskFor(disk', promised, Finished(work[t].name, res))
  PROVE  CreationInv'
<1> DEFINE v == Finished(work[t].name, res)
<1>1. /\ t \in Inside /\ work[t] \in Works
      /\ pc \in [Threads -> Stages]
      /\ pc[t] = "call" /\ cmd[t] = "RD_CALL"
  BY Midway
<1>2. v \in Works /\ v.at = "find"
  BY <1>1, FinishedWork
<1>3. /\ work' = [work EXCEPT ![t] = v] /\ promised' = promised
      /\ pc' = [pc EXCEPT ![t] = "copy_out"] /\ cmd' = cmd
  BY <1>1 DEF Finish, CallDisk, Goto
<1> HIDE DEF v
<1>4. InPlace(v, "copy_out", cmd[t])
  BY <1>2 DEF InPlace
<1>5. "copy_out" \in Stages
  BY DEF Stages
<1>. QED  BY <1>1, <1>2, <1>3, <1>4, <1>5, InsideStep DEF v

LEMMA CreationKeeps ==
  ASSUME ClientInv, CreationInv, interrupted = 0, NEW t \in Threads, Creation(t)
  PROVE  CreationInv'
<1> DEFINE w == work[t]
<1>1. CASE Find(t)
  <2>1. w \in Works /\ w.at = "find" /\ w.res # 0 /\ DiskFor(disk, promised, w)
    BY <1>1, Midway DEF Find
  <2>2. CASE w.name \in Listed(disk)
    <3>1. Finish(t, -1) /\ disk' = disk
      BY <1>1, <2>2 DEF Find
    <3>2. DiskFor(disk, promised, Finished(w.name, -1))
      BY <2>1, GiveUp
    <3>. QED  BY <1>1, <3>1, <3>2, FinishStep DEF Find
  <2>3. CASE w.name \notin Listed(disk)
    <3> DEFINE v == [w EXCEPT !.at = "scan"]
    <3>1. Go(t, v) /\ disk' = disk
      BY <1>1, <2>3 DEF Find
    <3>2. v \in Works /\ DiskFor(disk, promised, v)
      BY <2>1, <2>3, FindStep
    <3>3. v.name = w.name /\ v.res = w.res
      BY <2>1 DEF Works
    <3> HIDE DEF v
    <3>. QED  BY <1>1, <3>1, <3>2, <3>3, GoStep DEF Find
  <2>. QED  BY <2>2, <2>3
<1>2. CASE Scan(t)
  <2>1. w \in Works /\ w.at = "scan" /\ w.res # 0 /\ DiskFor(disk, promised, w)
    BY <1>2, Midway DEF Scan
  <2>2. CASE disk.free_inodes = 0 \/ Inums \subseteq disk.taken
    <3>1. Finish(t, -1) /\ disk' = disk
      BY <1>2, <2>2 DEF Scan
    <3>2. DiskFor(disk, promised, Finished(w.name, -1))
      BY <2>1, GiveUp
    <3>. QED  BY <1>2, <3>1, <3>2, FinishStep DEF Scan
  <2>3. CASE ~ (disk.free_inodes = 0 \/ Inums \subseteq disk.taken)
    <3> DEFINE v == [w EXCEPT !.at = "mark", !.inum = Min(Inums \ disk.taken)]
    <3>1. Go(t, v) /\ disk' = disk
      BY <1>2, <2>3 DEF Scan
    <3>2. v \in Works /\ DiskFor(disk, promised, v)
      BY <2>1, <2>3, ScanStep
    <3>3. v.name = w.name /\ v.res = w.res
      BY <2>1 DEF Works
    <3> HIDE DEF v
    <3>. QED  BY <1>2, <3>1, <3>2, <3>3, GoStep DEF Scan
  <2>. QED  BY <2>2, <2>3
<1>3. CASE Mark(t)
  <2> DEFINE e == [disk EXCEPT !.taken = @ \cup {w.inum}]
             v == [w EXCEPT !.at = "count", !.seen = disk.free_inodes]
  <2>1. w \in Works /\ w.at = "mark" /\ w.res # 0 /\ DiskFor(disk, promised, w)
    BY <1>3, Midway DEF Mark
  <2>2. v \in Works /\ DiskFor(e, promised, v)
    BY <2>1, MarkStep
  <2>3. v.name = w.name /\ v.res = w.res
    BY <2>1 DEF Works
  <2>4. disk' = e /\ Go(t, v)
    BY <1>3 DEF Mark
  <2> HIDE DEF v, e
  <2>. QED  BY <1>3, <2>2, <2>3, <2>4, GoStep DEF Mark
<1>4. CASE Count(t)
  <2> DEFINE e == [disk EXCEPT !.free_inodes = w.seen - 1]
             v == [w EXCEPT !.at = "room", !.block = disk.block]
  <2>1. w \in Works /\ w.at = "count" /\ w.res # 0 /\ DiskFor(disk, promised, w)
    BY <1>4, Midway DEF Count
  <2>2. v \in Works /\ DiskFor(e, promised, v)
    BY <2>1, CountStep
  <2>3. v.name = w.name /\ v.res = w.res
    BY <2>1 DEF Works
  <2>4. disk' = e /\ Go(t, v)
    BY <1>4 DEF Count
  <2> HIDE DEF v, e
  <2>. QED  BY <1>4, <2>2, <2>3, <2>4, GoStep DEF Count
<1>5. CASE Room(t)
  <2>1. w \in Works /\ w.at = "room" /\ w.res # 0 /\ DiskFor(disk, promised, w)
    BY <1>5, Midway DEF Room
  <2>2. CASE w.block # NoBlock
    <3> DEFINE v == [w EXCEPT !.at = "place"]
    <3>1. Go(t, v) /\ disk' = disk
      BY <1>5, <2>2 DEF Room
    <3>2. v \in Works /\ DiskFor(disk, promised, v)
      BY <2>1, <2>2, RoomStep
    <3>3. v.name = w.name /\ v.res = w.res
      BY <2>1 DEF Works
    <3> HIDE DEF v
    <3>. QED  BY <1>5, <3>1, <3>2, <3>3, GoStep DEF Room
  <2>3. CASE w.block = NoBlock /\ Finish(t, -1) /\ disk' = disk
    <3>1. DiskFor(disk, promised, Finished(w.name, -1))
      BY <2>1, GiveUp
    <3>. QED  BY <1>5, <2>3, <3>1, FinishStep DEF Room
  <2>4. CASE w.block = NoBlock /\ FreeBlocks # {} /\ Attach(t)
    <3> DEFINE b == Min(FreeBlocks)
               e == [disk EXCEPT !.used = @ \cup {b}, !.block = b,
                                 !.entries[b] = FreshBlock]
               v == [w EXCEPT !.at = "place", !.block = b]
    <3>1. b \in 1 .. BLOCKS
      <4>1. FreeBlocks \in SUBSET Nat /\ FreeBlocks \subseteq 1 .. BLOCKS
        BY ClientAssumption DEF FreeBlocks
      <4>. QED  BY <2>4, <4>1, MinIsLeast
    <3>2. disk' = e /\ Go(t, v)
      BY <2>4 DEF Attach
    <3> HIDE DEF b
    <3>3. v \in Works /\ DiskFor(e, promised, v)
      BY <2>1, <2>4, <3>1, AttachStep
    <3>4. v.name = w.name /\ v.res = w.res
      BY <2>1 DEF Works
    <3> HIDE DEF v, e
    <3>. QED  BY <1>5, <3>2, <3>3, <3>4, GoStep DEF Room
  <2>. QED  BY <1>5, <2>2, <2>3, <2>4 DEF Room
<1>6. CASE Place(t)
  <2> DEFINE v == [w EXCEPT !.at = "fill", !.slot = Min(Places(t))]
  <2>1. w \in Works /\ w.at = "place" /\ w.res # 0 /\ DiskFor(disk, promised, w)
    BY <1>6, Midway DEF Place
  <2>2. Go(t, v) /\ disk' = disk
    BY <1>6 DEF Place
  <2>3. v \in Works /\ DiskFor(disk, promised, v)
    <3>1. Places(t) = {s \in 1 .. SLOTS : disk.entries[w.block][s] = FreeEntry}
      BY DEF Places
    <3> DEFINE p == {s \in 1 .. SLOTS : disk.entries[w.block][s] = FreeEntry}
    <3> HIDE DEF w, v
    <3>2. /\ [w EXCEPT !.at = "fill", !.slot = Min(p)] \in Works
          /\ DiskFor(disk, promised, [w EXCEPT !.at = "fill", !.slot = Min(p)])
      BY <2>1, PlaceStep
    <3> HIDE DEF p
    <3>3. Places(t) = p
      BY <3>1 DEF p
    <3>4. v = [w EXCEPT !.at = "fill", !.slot = Min(p)]
      BY <3>3 DEF v
    <3>. QED  BY <3>2, <3>4
  <2>4. v.name = w.name /\ v.res = w.res
    BY <2>1 DEF Works
  <2> HIDE DEF v
  <2>. QED  BY <1>6, <2>2, <2>3, <2>4, GoStep DEF Place
<1>7. CASE Fill(t)
  <2> DEFINE e == [disk EXCEPT !.entries[w.block][w.slot] = Entry(w.name, w.inum)]
             v == [w EXCEPT !.at = "grow", !.seen = disk.size]
  <2>1. w \in Works /\ w.at = "fill" /\ w.res # 0 /\ DiskFor(disk, promised, w)
    BY <1>7, Midway DEF Fill
  <2>2. v \in Works /\ DiskFor(e, promised, v)
    BY <2>1, FillStep
  <2>3. v.name = w.name /\ v.res = w.res
    BY <2>1 DEF Works
  <2>4. disk' = e /\ Go(t, v)
    BY <1>7 DEF Fill
  <2> HIDE DEF v, e
  <2>. QED  BY <1>7, <2>2, <2>3, <2>4, GoStep DEF Fill
<1>8. CASE Grow(t)
  <2> DEFINE e == [disk EXCEPT !.size = w.seen + 1]
  <2>1. w \in Works /\ w.at = "grow" /\ DiskFor(disk, promised, w)
    BY <1>8, Midway DEF Grow
  <2>2. DiskFor(e, promised, Finished(w.name, 0))
    BY <2>1, GrowStep
  <2>3. disk' = e /\ Finish(t, 0)
    BY <1>8 DEF Grow
  <2> HIDE DEF e
  <2>. QED  BY <1>8, <2>2, <2>3, FinishStep DEF Grow
<1>. QED  BY <1>1, <1>2, <1>3, <1>4, <1>5, <1>6, <1>7, <1>8 DEF Creation

(* The disk that RD_INIT makes is exact. *)
LEMMA EmptyDiskSound == DiskFor(EmptyDisk, {}, Idle)
<1>1. /\ EmptyDisk.taken = {0} /\ EmptyDisk.block = NoBlock /\ EmptyDisk.size = 0
      /\ EmptyDisk.free_inodes = INODES - 1
  BY DEF EmptyDisk
<1>2. EmptyDisk \in Disks
  <2>1. FreshBlock \in [1 .. SLOTS -> DirEntries]
    BY ClientAssumption
       DEF FreshBlock, FreeEntry, Entry, DirEntries, Labels, Inums
  <2>2. /\ {0} \in SUBSET Inums /\ INODES - 1 \in Int
        /\ NoBlock \in 0 .. BLOCKS /\ 0 \in Nat
    BY ClientAssumption DEF Inums, NoBlock
  <2>. QED  BY <2>1, <2>2 DEF EmptyDisk, Disks
<1> HIDE DEF EmptyDisk
<1>3. Filled(EmptyDisk) = {} /\ NamesOf(EmptyDisk) = {} /\ InumsOf(EmptyDisk) = {}
  BY <1>1 DEF Filled, NamesOf, InumsOf
<1>4. Sound(EmptyDisk, {})
  BY <1>1, <1>2, <1>3 DEF Sound
<1>5. Counted(EmptyDisk, "find")
  <2>1. Cardinality({0}) = 1 /\ Cardinality({}) = 0
    BY FS_Singleton, FS_EmptySet
  <2>. QED  BY <1>1, <1>3, <2>1, ClientAssumption DEF Counted
<1>6. UpToDate(EmptyDisk, Idle)
  BY IdleWork DEF UpToDate
<1>. QED  BY <1>4, <1>5, <1>6, IdleWork DEF DiskFor

-----------------------------------------------------------------------------
(* The first thread in finds the disk as it is between the calls. *)
LEMMA DownKeeps ==
  ASSUME ClientInv, CreationInv, interrupted = 0, NEW t \in Threads, Down(t),
         UNCHANGED <<RAMDISK, disk, promised, work>>
  PROVE  CreationInv'
<1>1. Inside = {}
  <2>1. Cardinality(Inside) = 0
    BY InsideFinite DEF ClientInv, IInv, TypeOK, EveryInterruptLetsOneMoreIn, Down
  <2>. QED  BY <2>1, InsideFinite, FS_EmptySet
<1>2. pc \in [Threads -> Stages] /\ work \in [Threads -> Works]
      /\ \A s \in Threads : InPlace(work[s], pc[s], cmd[s])
  BY DEF ClientInv, IInv, TypeOK, CreationInv
<1>3. /\ pc[t] = "down" /\ pc' = [pc EXCEPT ![t] = AfterDown(t)] /\ cmd' = cmd
  BY DEF Down, Goto
<1>4. AfterDown(t) \in Stages \ {"user", "down"}
  BY AfterDownInside
<1>5. work[t] \in Works /\ work[t].at = "find" /\ work[t].res # 0
  BY <1>2, <1>3 DEF InPlace
<1>6. \A s \in Threads : InPlace(work'[s], pc'[s], cmd'[s])
  <2>1. InPlace(work[t], AfterDown(t), cmd[t])
    BY <1>5 DEF InPlace
  <2>. QED  BY <1>2, <1>3, <2>1
<1>7. Inside' = {t}
  <2>1. \A s \in Threads \ {t} : pc'[s] \in {"user", "down"}
    BY <1>1, <1>2, <1>3 DEF Inside
  <2>2. pc'[t] \notin {"user", "down"}
    BY <1>2, <1>3, <1>4
  <2>. QED  BY <2>1, <2>2 DEF Inside
<1>8. RAMDISK => DiskFor(disk, promised, work[t])
  BY <1>1, <1>5, Resting DEF CreationInv
<1>. QED  BY <1>2, <1>6, <1>7, <1>8 DEF CreationInv

(* The steps of a thread inside that are not rd_creat's *)
LEMMA ServiceKeeps ==
  ASSUME ClientInv, CreationInv, interrupted = 0, NEW t \in Inside,
         \/ CopyIn(t) /\ UNCHANGED <<RAMDISK, disk, promised, work>>
         \/ CallClose(t) \/ Deliver(t) \/ Leave(t)
         \/ CallInit(t) /\ ~Die(t)
  PROVE  CreationInv'
<1> DEFINE w == work[t]
<1>1. /\ t \in Threads /\ w \in Works /\ InPlace(w, pc[t], cmd[t])
      /\ pc \in [Threads -> Stages] /\ work \in [Threads -> Works]
      /\ RAMDISK => DiskFor(disk, promised, w)
  BY AloneInside DEF CreationInv, ClientInv, IInv, TypeOK
<1>2. work = [work EXCEPT ![t] = w]
  BY <1>1
<1> HIDE DEF w
<1>3. CASE CopyIn(t) /\ UNCHANGED <<RAMDISK, disk, promised, work>>
  <2>1. w.at = "find" /\ w.res # 0
    BY <1>1, <1>3 DEF CopyIn, InPlace
  <2>2. PICK stage \in {"call", "up"} : pc' = [pc EXCEPT ![t] = stage]
    BY <1>3 DEF CopyIn, Goto
  <2>3. InPlace(w, stage, cmd[t]) /\ stage \in Stages
    BY <1>1, <2>1 DEF InPlace, Stages
  <2>4. cmd' = cmd
    BY <1>3 DEF CopyIn
  <2>. QED  BY <1>1, <1>2, <1>3, <2>2, <2>3, <2>4, InsideStep
<1>4. CASE CallClose(t)
  <2> DEFINE v == Finished(w.name, -1)
  <2>1. w.at = "find"
    BY <1>1, <1>4 DEF CallClose, InPlace, w
  <2>2. /\ work' = [work EXCEPT ![t] = v] /\ promised' = promised /\ disk' = disk
        /\ RAMDISK' = RAMDISK
        /\ pc' = [pc EXCEPT ![t] = "copy_out"] /\ cmd' = cmd
    BY <1>4 DEF CallClose, Finish, CallDisk, Goto, w
  <2>3. v \in Works /\ v.at = "find"
    BY <1>1, FinishedWork
  <2>4. RAMDISK => DiskFor(disk, promised, v)
    BY <1>1, <2>1, GiveUp
  <2> HIDE DEF v
  <2>5. InPlace(v, "copy_out", cmd[t]) /\ "copy_out" \in Stages
    BY <2>3 DEF InPlace, Stages
  <2>. QED  BY <2>2, <2>3, <2>4, <2>5, InsideStep
<1>5. CASE Deliver(t)
  <2>1. /\ pc[t] = "copy_out" /\ pc' = [pc EXCEPT ![t] = "up"] /\ cmd' = cmd
        /\ UNCHANGED <<RAMDISK, disk, work>>
        /\ promised' = promised \/ (w.res = 0 /\ promised' = promised \cup {w.name})
    BY <1>5 DEF Deliver, CopyOut, Goto, w
  <2>2. w.at = "find"
    BY <1>1, <2>1 DEF InPlace
  <2>3. InPlace(w, "up", cmd[t]) /\ "up" \in Stages
    BY <1>1, <2>2 DEF InPlace, Stages
  <2>4. RAMDISK => DiskFor(disk, promised', w)
    BY <1>1, <2>1 DEF DiskFor, Sound, UpToDate
  <2>. QED  BY <1>1, <1>2, <2>1, <2>3, <2>4, InsideStep
<1>6. CASE Leave(t)
  <2>1. /\ pc[t] = "up" /\ pc' = [pc EXCEPT ![t] = "user"] /\ cmd' = cmd
        /\ work' = [work EXCEPT ![t] = Idle]
        /\ UNCHANGED <<RAMDISK, disk, promised>>
    BY <1>6 DEF Leave, Up, Goto, diskVars
  <2>2. w.at = "find"
    BY <1>1, <2>1 DEF InPlace
  <2>3. RAMDISK => DiskFor(disk, promised, Idle)
    BY <1>1, <2>2, Resting
  <2>4. InPlace(Idle, "user", cmd[t]) /\ Idle \in Works /\ "user" \in Stages
    BY IdleWork DEF InPlace, Stages
  <2>. QED  BY <2>1, <2>3, <2>4, InsideStep
<1>7. CASE CallInit(t) /\ ~Die(t)
  <2>1. /\ pc[t] = "call" /\ cmd[t] = "RD_INIT"
        /\ pc' = [pc EXCEPT ![t] = "up"] /\ cmd' = cmd
        /\ disk' = EmptyDisk /\ promised' = {} /\ work' = work
    BY <1>7 DEF CallInit, CallDisk, Goto
  <2>2. w.at = "find" /\ w.res # 0
    BY <1>1, <2>1 DEF InPlace
  <2>3. InPlace(w, "up", cmd[t]) /\ "up" \in Stages
    BY <1>1, <2>2 DEF InPlace, Stages
  <2>4. DiskFor(EmptyDisk, {}, w)
    BY <1>1, <2>2, EmptyDiskSound, Resting
  <2>. QED  BY <1>1, <1>2, <2>1, <2>3, <2>4, InsideStep
<1>. QED  BY <1>3, <1>4, <1>5, <1>6, <1>7

(* Calling the library, and ending *)
LEMMA CallKeeps ==
  ASSUME ClientInv, CreationInv, interrupted = 0, NEW t \in Threads,
         \/ LibInit(t)
         \/ \E name \in Names \cup {""} : LibCall(t, name)
         \/ Exit(t)
  PROVE  CreationInv'
<1> DEFINE w == work[t]
<1>1. /\ pc \in [Threads -> Stages] /\ work \in [Threads -> Works]
      /\ pc[t] = "user" /\ w \in Works /\ InPlace(w, pc[t], cmd[t])
      /\ cmd \in [Threads -> Commands]
  BY CallSteps DEF CreationInv, ClientInv, IInv, TypeOK
<1>2. w.at = "find" /\ w.res # 0
  BY <1>1 DEF InPlace
<1>3. work = [work EXCEPT ![t] = w] /\ pc = [pc EXCEPT ![t] = "user"]
  BY <1>1
<1>4. UNCHANGED <<RAMDISK, disk, promised>>
  BY DEF LibInit, LibCall, Exit, diskVars
<1>5. /\ \A s \in Threads \ {t} : cmd'[s] = cmd[s]
      /\ pc' = pc \/ pc' = [pc EXCEPT ![t] = "down"]
  BY <1>1, CallSteps DEF Enter, Goto, vars
<1>6. PICK stage \in {"user", "down"} : pc' = [pc EXCEPT ![t] = stage]
  BY <1>3, <1>5
<1>7. CASE work' = work
  <2> HIDE DEF w
  <2>. QED  BY <1>1, <1>2, <1>3, <1>4, <1>5, <1>6, <1>7, OutsideStep
<1>8. ASSUME NEW name \in Labels, work' = [work EXCEPT ![t] = Started(name)]
      PROVE  CreationInv'
  <2> DEFINE v == Started(name)
  <2>1. v \in Works /\ v.at = "find" /\ v.res # 0
    BY StartedWork
  <2> HIDE DEF v
  <2>2. work' = [work EXCEPT ![t] = v]
    BY <1>8 DEF v
  <2>. QED  BY <1>1, <1>4, <1>5, <1>6, <2>1, <2>2, OutsideStep
<1>. QED  BY <1>7, <1>8 DEF LibInit, LibCall, Exit, Labels

LEMMA CreationInvKept ==
  ASSUME ClientInv, CreationInv, [ClientNext]_clientVars
  PROVE  CreationInv'
<1>0. interrupted \in Nat /\ pc \in [Threads -> Stages]
  BY DEF ClientInv, IInv, TypeOK
<1>1. CASE Load
  <2>1. /\ work' = [t \in Threads |-> Idle] /\ pc' = [t \in Threads |-> "user"]
        /\ RAMDISK' = FALSE
    BY <1>1 DEF Load
  <2>2. work' \in [Threads -> Works]
    BY <2>1, IdleWork
  <2>3. \A t \in Threads : InPlace(work'[t], pc'[t], cmd'[t])
    BY <2>1, IdleWork DEF InPlace
  <2>. QED  BY <2>1, <2>2, <2>3 DEF CreationInv
<1>2. CASE ~Load /\ interrupted # 0
  <2>1. [Next]_vars
    BY <1>2, LockSteps
  <2>2. interrupted' # 0
    BY <1>0, <1>2, <2>1
    DEF Next, Enter, Down, Interrupt, Handle, CopyIn, CallDisk, CopyOut, Up, vars
  <2>. QED  BY <2>2 DEF CreationInv
<1>3. CASE Unload /\ interrupted = 0
  <2>1. /\ disk' = EmptyDisk /\ promised' = {}
        /\ UNCHANGED <<pc, cmd, RAMDISK, work>>
        /\ \A t \in Threads : ioctl_fd[t] # IsOpen
    BY <1>3 DEF Unload, vars
  <2>2. Inside \subseteq dead /\ Inside' = Inside
    BY <2>1 DEF ClientInv, Ways, Inside
  <2>3. RAMDISK => Inside = {}
    BY <1>3, <2>2 DEF ClientInv, NoDiskBehindTheDead
  <2>. QED  BY <1>3, <2>1, <2>2, <2>3, EmptyDiskSound DEF CreationInv
<1>4. ASSUME NEW t \in Threads, interrupted = 0,
             \/ LibInit(t)
             \/ \E name \in Names \cup {""} : LibCall(t, name)
             \/ Exit(t)
      PROVE  CreationInv'
  BY <1>4, CallKeeps
<1>5. ASSUME NEW t \in Threads, interrupted = 0, Arrive(t)
      PROVE  CreationInv'
  <2>1. UNCHANGED <<RAMDISK, disk, promised, work>>
    BY <1>5 DEF Arrive, diskVars
  <2>2. CASE Down(t)
    BY <1>5, <2>1, <2>2, DownKeeps
  <2>3. CASE Interrupt(t)
    BY <1>5, <2>3 DEF Interrupt, CreationInv
  <2>4. CASE CopyIn(t)
    <3>1. t \in Inside
      BY <2>4 DEF CopyIn, Inside
    <3>. QED  BY <1>5, <2>1, <2>4, <3>1, ServiceKeeps
  <2>. QED  BY <1>5, <2>2, <2>3, <2>4 DEF Arrive
<1>6. ASSUME NEW t \in Threads, interrupted = 0, Creation(t)
      PROVE  CreationInv'
  BY <1>6, CreationKeeps
<1>7. ASSUME NEW t \in Threads, interrupted = 0, Die(t)
      PROVE  CreationInv'
  BY <1>7 DEF Die, diskVars, vars, CreationInv, Inside
<1>8. ASSUME NEW t \in Threads, interrupted = 0,
             CallInit(t) \/ CallClose(t) \/ CallNull(t) \/ Deliver(t) \/ Leave(t)
      PROVE  CreationInv'
  <2>1. t \in Inside
    BY <1>8 DEF CallInit, CallClose, CallNull, Deliver, CopyOut, Leave, Up, Inside
  <2>2. CASE Die(t)
    BY <1>7, <1>8, <2>2
  <2>3. CASE ~Die(t)
    <3>1. ~CallNull(t)
      BY <2>3 DEF CallNull
    <3>. QED  BY <1>8, <2>1, <2>3, <3>1, ServiceKeeps
  <2>. QED  BY <2>2, <2>3
<1>9. CASE UNCHANGED clientVars
  BY <1>9 DEF clientVars, CreationInv, Inside
<1>. QED  BY <1>1, <1>2, <1>3, <1>4, <1>5, <1>6, <1>8, <1>9 DEF ClientNext

LEMMA CreationInitially == ClientInit => CreationInv
<1> SUFFICES ASSUME ClientInit PROVE CreationInv
  OBVIOUS
<1>1. /\ work = [t \in Threads |-> Idle] /\ pc = [t \in Threads |-> "user"]
      /\ RAMDISK = FALSE
  BY DEF ClientInit, Init
<1>. QED  BY <1>1, IdleWork DEF CreationInv, InPlace

(***************************************************************************)
(* The semaphore and the invariant of the disk hold in every reachable     *)
(* state.                                                                  *)
(***************************************************************************)
THEOREM CreationInductive == ClientSpec => [](ClientInv /\ CreationInv)
<1>1. ClientInit => ClientInv /\ CreationInv
  BY ClientInitially, CreationInitially
<1>2. ClientInv /\ CreationInv /\ [ClientNext]_clientVars => CreationInv'
  BY CreationInvKept
<1>. QED  BY <1>1, <1>2, ClientsInductive, PTL DEF ClientSpec

(***************************************************************************)
(* Although a creation searches, marks, counts, places and counts again in *)
(* separate steps, the disk is exact whenever nobody is inside, however    *)
(* many processes create names and wherever their copies fail.             *)
(***************************************************************************)
THEOREM CreationsAreExact == ClientSpec => []CreationsExact
<1>1. CreationInv => CreationsExact
  <2> SUFFICES ASSUME CreationInv, interrupted = 0, RAMDISK, Inside = {}
               PROVE  LET made == EntriesIn(disk) IN
                      /\ promised \subseteq Listed(disk)
                      /\ \A e, f \in made : e.name = f.name \/ e.inum = f.inum => e = f
                      /\ {e.inum : e \in made} \subseteq disk.taken \ {0}
                      /\ disk.free_inodes = INODES - Cardinality(disk.taken)
                      /\ disk.size = Cardinality(made)
    BY DEF CreationsExact
  <2> DEFINE made == {EntryAt(disk, s) : s \in Filled(disk)}
  <2>1. Sound(disk, promised) /\ Counted(disk, "find")
    BY IdleWork DEF CreationInv, DiskFor
  <2>2. disk \in Disks
    BY <2>1 DEF Sound
  <2>3. EntriesIn(disk) = made /\ Listed(disk) = NamesOf(disk)
    BY <2>1, SearchSeesAll
  <2>4. Cardinality(made) = Cardinality(Filled(disk))
    <3> DEFINE f == [s \in Filled(disk) |-> EntryAt(disk, s)]
    <3>1. f \in [Filled(disk) -> made] /\ \A e \in made : \E s \in Filled(disk) : f[s] = e
      OBVIOUS
    <3>2. \A s, r \in Filled(disk) : f[s] = f[r] => s = r
      BY <2>1 DEF Sound
    <3> HIDE DEF f, made
    <3>3. f \in Bijection(Filled(disk), made)
      BY <3>1, <3>2 DEF Bijection, Injection, Surjection, IsInjective
    <3>4. ExistsBijection(Filled(disk), made)
      BY <3>3 DEF ExistsBijection
    <3>. QED  BY <2>2, <3>4, DiskFinite, FS_Bijection
  <2>5. /\ disk.free_inodes = INODES - Cardinality(disk.taken)
        /\ disk.size = Cardinality(made)
    BY <2>1, <2>2, <2>4, DiskFinite, ClientAssumption DEF Counted, Disks
  <2>6. \A e, f \in made : e.name = f.name \/ e.inum = f.inum => e = f
    BY <2>1 DEF Sound
  <2>7. {e.inum : e \in made} \subseteq disk.taken \ {0}
    BY <2>1 DEF Sound, InumsOf
  <2>8. promised \subseteq Listed(disk)
    BY <2>1, <2>3 DEF Sound
  <2> HIDE DEF made
  <2>. QED  BY <2>3, <2>5, <2>6, <2>7, <2>8
<1>. QED  BY <1>1, CreationInductive, PTL
-----------------------------------------------------------------------------
(***************************************************************************)
(* The types, however many waits were interrupted: then a thread may act   *)
(* on what it found out about a disk that others have changed since.  The  *)
(* slot is the least of the free ones, if there is one.                    *)
(***************************************************************************)
SlotsFound == {0} \cup {Min(S) : S \in SUBSET (1 .. SLOTS)}

AnyWorks ==
  [at : Steps, name : Labels, inum : Inums, block : 0 .. BLOCKS,
   slot : SlotsFound, seen : Int, res : {0, -1}]

DiskTypes ==
  /\ disk \in Disks
  /\ disk.block \in disk.used \cup {NoBlock}
  /\ promised \subseteq Names

WorkTypes ==
  /\ work \in [Threads -> AnyWorks]
  /\ \A t \in Threads : /\ work[t].at = "grow" => work[t].seen \in Nat
                        /\ work[t].res = 0 => work[t].name \in Names

TypesInv == DiskTypes /\ WorkTypes

(* The root's inode is one of the inodes, and no work is in progress. *)
LEMMA IdleTypes ==
  /\ EmptyDisk \in Disks /\ EmptyDisk.block = NoBlock
  /\ \A name \in Labels : Started(name) \in AnyWorks /\ Started(name).at # "grow"
                          /\ Started(name).res # 0
  /\ Idle \in AnyWorks /\ Idle.at # "grow" /\ Idle.res # 0
<1>1. 0 \in Inums /\ INODES - 1 \in Int /\ 0 \in 0 .. BLOCKS
  BY ClientAssumption DEF Inums
<1>2. FreeEntry \in DirEntries
  BY <1>1 DEF FreeEntry, Entry, DirEntries, Labels
<1>3. [b \in 1 .. BLOCKS |-> FreshBlock] \in [1 .. BLOCKS -> [1 .. SLOTS -> DirEntries]]
  BY <1>2 DEF FreshBlock
<1>4. EmptyDisk \in Disks /\ EmptyDisk.block = NoBlock
  BY <1>1, <1>3 DEF EmptyDisk, Disks, NoBlock
<1>5. /\ Idle \in AnyWorks /\ Idle.at # "grow" /\ Idle.res # 0
      /\ \A name \in Labels : Started(name) = [Idle EXCEPT !.name = name]
  BY <1>1 DEF Idle, Started, AnyWorks, Steps, Labels, NoBlock, SlotsFound
<1>6. ASSUME NEW name \in Labels
      PROVE  /\ Started(name) \in AnyWorks /\ Started(name).at # "grow"
             /\ Started(name).res # 0
  BY <1>5 DEF AnyWorks
<1>. QED  BY <1>4, <1>5, <1>6

(* Only the work of one thread changes. *)
LEMMA WorkReplaced ==
  ASSUME WorkTypes, NEW t \in Threads, NEW w \in AnyWorks, work' = [work EXCEPT ![t] = w],
         w.at = "grow" => w.seen \in Nat, w.res = 0 => w.name \in Names
  PROVE  WorkTypes'
BY DEF WorkTypes

(* A step of rd_creat, from whatever it found out before *)
LEMMA CreationTypes ==
  ASSUME TypesInv, NEW t \in Threads, Creation(t)
  PROVE  TypesInv'
<1> DEFINE w == work[t]
<1>1. /\ w \in AnyWorks /\ (w.at = "grow" => w.seen \in Nat)
      /\ (w.res = 0 => w.name \in Names)
      /\ disk \in Disks /\ disk.block \in disk.used \cup {NoBlock} /\ promised \subseteq Names
  BY DEF TypesInv, DiskTypes, WorkTypes
<1>2. w.name \in Names /\ promised' = promised
  BY DEF Creation, Find, Scan, Mark, Count, Room, Attach, Place, Fill, Grow, Creating, Go, Finish
<1>3. /\ disk.taken \in SUBSET Inums /\ disk.free_inodes \in Int /\ disk.used \in SUBSET (1 .. BLOCKS)
      /\ disk.block \in 0 .. BLOCKS /\ disk.size \in Nat
      /\ disk.entries \in [1 .. BLOCKS -> [1 .. SLOTS -> DirEntries]]
  BY <1>1 DEF Disks
<1>4. ASSUME NEW res \in {0, -1}, Finish(t, res)
      PROVE  WorkTypes'
  <2> DEFINE f == Finished(w.name, res)
  <2>1. f \in AnyWorks /\ f.at # "grow" /\ f.name = w.name
    BY <1>1, IdleTypes DEF Finished, AnyWorks
  <2>2. work' = [work EXCEPT ![t] = f]
    BY <1>4 DEF Finish
  <2>. QED  BY <1>2, <2>1, <2>2, WorkReplaced DEF TypesInv
<1>5. CASE Find(t)
  <2>1. CASE Finish(t, -1)
    BY <1>1, <1>2, <1>4, <1>5, <2>1 DEF Find, TypesInv, DiskTypes
  <2>2. CASE Go(t, [w EXCEPT !.at = "scan"])
    <3>1. [w EXCEPT !.at = "scan"] \in AnyWorks
      BY <1>1 DEF AnyWorks, Steps
    <3>2. WorkTypes'
      BY <1>1, <2>2, <3>1, WorkReplaced DEF Go, TypesInv, AnyWorks
    <3>. QED  BY <1>1, <1>2, <1>5, <3>2 DEF Find, TypesInv, DiskTypes
  <2>. QED  BY <1>5, <2>1, <2>2 DEF Find
<1>6. CASE Scan(t)
  <2>1. CASE Finish(t, -1)
    BY <1>1, <1>2, <1>4, <1>6, <2>1 DEF Scan, TypesInv, DiskTypes
  <2>2. CASE /\ ~ (Inums \subseteq disk.taken)
             /\ Go(t, [w EXCEPT !.at = "mark", !.inum = Min(Inums \ disk.taken)])
    <3>1. Min(Inums \ disk.taken) \in Inums
      <4>1. Inums \ disk.taken \in SUBSET Nat /\ Inums \ disk.taken # {}
        BY <2>2, ClientAssumption DEF Inums
      <4>. QED  BY <4>1, MinIsLeast
    <3> DEFINE v == [w EXCEPT !.at = "mark", !.inum = Min(Inums \ disk.taken)]
    <3>2. v \in AnyWorks /\ v.at = "mark" /\ v.res = w.res /\ v.name = w.name
      BY <1>1, <3>1 DEF AnyWorks, Steps
    <3>3. WorkTypes'
      BY <1>1, <2>2, <3>2, WorkReplaced DEF Go, TypesInv
    <3>. QED  BY <1>1, <1>2, <1>6, <3>3 DEF Scan, TypesInv, DiskTypes
  <2>. QED  BY <1>6, <2>1, <2>2 DEF Scan
<1>7. CASE Mark(t)
  <2> DEFINE v == [w EXCEPT !.at = "count", !.seen = disk.free_inodes]
  <2>1. v \in AnyWorks /\ v.at = "count" /\ v.res = w.res /\ v.name = w.name
    BY <1>1, <1>3 DEF AnyWorks, Steps
  <2>2. WorkTypes'
    BY <1>1, <1>7, <2>1, WorkReplaced DEF Mark, Go, TypesInv
  <2>3. disk' = [disk EXCEPT !.taken = @ \cup {w.inum}] /\ w.inum \in Inums
    BY <1>1, <1>7 DEF Mark, AnyWorks
  <2>4. disk' \in Disks /\ disk'.used = disk.used /\ disk'.block = disk.block
    BY <1>1, <1>3, <2>3 DEF Disks
  <2>. QED  BY <1>1, <1>2, <2>2, <2>4 DEF TypesInv, DiskTypes
<1>8. CASE Count(t)
  <2> DEFINE v == [w EXCEPT !.at = "room", !.block = disk.block]
  <2>1. v \in AnyWorks /\ v.at = "room" /\ v.res = w.res /\ v.name = w.name
    BY <1>1, <1>3 DEF AnyWorks, Steps
  <2>2. WorkTypes'
    BY <1>1, <1>8, <2>1, WorkReplaced DEF Count, Go, TypesInv
  <2>3. disk' = [disk EXCEPT !.free_inodes = w.seen - 1] /\ w.seen \in Int
    BY <1>1, <1>8 DEF Count, AnyWorks
  <2>4. disk' \in Disks /\ disk'.used = disk.used /\ disk'.block = disk.block
    BY <1>1, <1>3, <2>3 DEF Disks
  <2>. QED  BY <1>1, <1>2, <2>2, <2>4 DEF TypesInv, DiskTypes
<1>9. CASE Room(t)
  <2>1. CASE Finish(t, -1) /\ UNCHANGED disk
    BY <1>1, <1>2, <1>4, <2>1 DEF TypesInv, DiskTypes
  <2>2. CASE Go(t, [w EXCEPT !.at = "place"]) /\ UNCHANGED disk
    <3> DEFINE v == [w EXCEPT !.at = "place"]
    <3>1. v \in AnyWorks /\ v.at = "place" /\ v.res = w.res /\ v.name = w.name
      BY <1>1 DEF AnyWorks, Steps
    <3>2. WorkTypes'
      BY <1>1, <2>2, <3>1, WorkReplaced DEF Go, TypesInv
    <3>. QED  BY <1>1, <1>2, <2>2, <3>2 DEF TypesInv, DiskTypes
  <2>3. CASE FreeBlocks # {} /\ Attach(t)
    <3> DEFINE b == Min(FreeBlocks)
               v == [w EXCEPT !.at = "place", !.block = b]
    <3>1. b \in 1 .. BLOCKS
      <4>1. FreeBlocks \in SUBSET Nat /\ FreeBlocks # {}
        BY <2>3 DEF FreeBlocks
      <4>. QED  BY <4>1, MinIsLeast DEF FreeBlocks
    <3>2. /\ disk' = [disk EXCEPT !.used = @ \cup {b}, !.block = b, !.entries[b] = FreshBlock]
          /\ work' = [work EXCEPT ![t] = v]
      BY <2>3 DEF Attach, Go
    <3> HIDE DEF b
    <3>3. v \in AnyWorks /\ v.at = "place" /\ v.res = w.res /\ v.name = w.name
      <4>1. b \in 0 .. BLOCKS
        BY <3>1, ClientAssumption
      <4>. QED  BY <1>1, <4>1 DEF AnyWorks, Steps
    <3>4. WorkTypes'
      BY <1>1, <3>2, <3>3, WorkReplaced DEF TypesInv
    <3>5. [disk.entries EXCEPT ![b] = FreshBlock] \in [1 .. BLOCKS -> [1 .. SLOTS -> DirEntries]]
      <4>1. FreshBlock \in [1 .. SLOTS -> DirEntries]
        BY ClientAssumption DEF FreshBlock, FreeEntry, Entry, DirEntries, Labels, Inums
      <4>. QED  BY <1>3, <4>1
    <3>6. /\ disk' \in Disks /\ disk'.block \in disk'.used
      <4> DEFINE f == [disk.entries EXCEPT ![b] = FreshBlock]
      <4>1. disk' = [disk EXCEPT !.used = @ \cup {b}, !.block = b, !.entries = f]
        BY <3>2
      <4>2. f \in [1 .. BLOCKS -> [1 .. SLOTS -> DirEntries]]
        BY <3>5
      <4>3. b \in 0 .. BLOCKS /\ disk.used \cup {b} \in SUBSET (1 .. BLOCKS)
        BY <1>3, <3>1, ClientAssumption
      <4> HIDE DEF f
      <4>. QED  BY <1>1, <1>3, <4>1, <4>2, <4>3 DEF Disks
    <3>. QED  BY <1>1, <1>2, <3>4, <3>6 DEF TypesInv, DiskTypes
  <2>. QED  BY <1>9, <2>1, <2>2, <2>3 DEF Room
<1>10. CASE Place(t)
  <2> DEFINE v == [w EXCEPT !.at = "fill", !.slot = Min(Places(t))]
  <2>1. Places(t) \in SUBSET (1 .. SLOTS)
    BY DEF Places
  <2>2. Min(Places(t)) \in SlotsFound
    BY <2>1 DEF SlotsFound
  <2>3. v \in AnyWorks /\ v.at = "fill" /\ v.res = w.res /\ v.name = w.name
    BY <1>1, <2>2 DEF AnyWorks, Steps
  <2>4. WorkTypes'
    BY <1>1, <1>10, <2>3, WorkReplaced DEF Place, Go, TypesInv
  <2>. QED  BY <1>1, <1>2, <1>10, <2>4 DEF Place, TypesInv, DiskTypes
<1>11. CASE Fill(t)
  <2> DEFINE v == [w EXCEPT !.at = "grow", !.seen = disk.size]
             e == Entry(w.name, w.inum)
             f == [disk.entries EXCEPT ![w.block][w.slot] = e]
  <2>1. v \in AnyWorks /\ v.seen = disk.size /\ v.res = w.res /\ v.name = w.name
    <3>1. disk.size \in Int
      BY <1>3
    <3>. QED  BY <1>1, <3>1 DEF AnyWorks, Steps
  <2>2. WorkTypes'
    BY <1>1, <1>3, <1>11, <2>1, WorkReplaced DEF Fill, Go, TypesInv
  <2>3. e \in DirEntries
    BY <1>1 DEF Entry, DirEntries, AnyWorks
  <2>4. disk' = [disk EXCEPT !.entries = f]
    BY <1>11 DEF Fill
  <2> HIDE DEF e
  <2>5. f \in [1 .. BLOCKS -> [1 .. SLOTS -> DirEntries]]
    BY <1>3, <2>3
  <2> HIDE DEF f
  <2>6. disk' \in Disks /\ disk'.used = disk.used /\ disk'.block = disk.block
    BY <1>1, <1>3, <2>4, <2>5 DEF Disks
  <2>. QED  BY <1>1, <1>2, <2>2, <2>6 DEF TypesInv, DiskTypes
<1>12. CASE Grow(t)
  <2>1. Finish(t, 0) /\ w.seen + 1 \in Nat /\ disk' = [disk EXCEPT !.size = w.seen + 1]
    BY <1>1, <1>12 DEF Grow, Creating
  <2>2. disk' \in Disks /\ disk'.used = disk.used /\ disk'.block = disk.block
    BY <1>1, <1>3, <2>1 DEF Disks
  <2>. QED  BY <1>1, <1>2, <1>4, <2>1, <2>2 DEF TypesInv, DiskTypes
<1>. QED  BY <1>5, <1>6, <1>7, <1>8, <1>9, <1>10, <1>11, <1>12 DEF Creation

(* Every step keeps the types of the disk and of what is known about it. *)
LEMMA TypesInvKept ==
  ASSUME TypesInv, [ClientNext]_clientVars
  PROVE  TypesInv'
<1>1. CASE Load
  <2>1. work' = [t \in Threads |-> Idle] /\ UNCHANGED <<disk, promised>>
    BY <1>1 DEF Load
  <2>. QED  BY <2>1, IdleTypes DEF TypesInv, DiskTypes, WorkTypes
<1>2. CASE Unload
  BY <1>2, IdleTypes DEF Unload, TypesInv, DiskTypes, WorkTypes
<1>3. ASSUME NEW t \in Threads, LibInit(t) \/ Exit(t) \/ Arrive(t) \/ CallNull(t)
      PROVE  TypesInv'
  <2>1. UNCHANGED <<disk, promised, work>>
    BY <1>3 DEF LibInit, Exit, Arrive, CallNull, Die, diskVars
  <2>. QED  BY <2>1 DEF TypesInv, DiskTypes, WorkTypes
<1>4. ASSUME NEW t \in Threads, CallInit(t)
      PROVE  TypesInv'
  <2>1. work' = work /\ \/ disk' = EmptyDisk /\ promised' = {}
                        \/ disk' = disk /\ promised' = promised
    BY <1>4 DEF CallInit, Die, diskVars
  <2>. QED  BY <2>1, IdleTypes DEF TypesInv, DiskTypes, WorkTypes
<1>5. ASSUME NEW t \in Threads, NEW name \in Names \cup {""}, LibCall(t, name)
      PROVE  TypesInv'
  <2>1. /\ UNCHANGED <<disk, promised>>
        /\ work' = work \/ work' = [work EXCEPT ![t] = Started(name)]
    BY <1>5 DEF LibCall, diskVars
  <2>2. Started(name) \in AnyWorks /\ Started(name).at # "grow" /\ Started(name).res # 0
    BY IdleTypes DEF Labels
  <2>3. CASE work' = work
    BY <2>1, <2>3 DEF TypesInv, DiskTypes, WorkTypes
  <2>4. CASE work' = [work EXCEPT ![t] = Started(name)]
    <3>1. WorkTypes'
      BY <2>2, <2>4, WorkReplaced DEF TypesInv
    <3>. QED  BY <2>1, <3>1 DEF TypesInv, DiskTypes
  <2>. QED  BY <2>1, <2>3, <2>4
<1>6. ASSUME NEW t \in Threads, CallClose(t)
      PROVE  TypesInv'
  <2> DEFINE f == Finished(work[t].name, -1)
  <2>1. UNCHANGED <<disk, promised>> /\ work' = [work EXCEPT ![t] = f]
    BY <1>6 DEF CallClose, Finish
  <2>2. f \in AnyWorks /\ f.at # "grow" /\ f.res = -1
    BY IdleTypes DEF Finished, AnyWorks, TypesInv, WorkTypes
  <2> HIDE DEF f
  <2>3. f.at # "grow" /\ f.res # 0
    BY <2>2
  <2>4. WorkTypes'
    BY <2>1, <2>2, <2>3, WorkReplaced DEF TypesInv
  <2>. QED  BY <2>1, <2>4 DEF TypesInv, DiskTypes
<1>7. ASSUME NEW t \in Threads, Deliver(t)
      PROVE  TypesInv'
  <2>1. /\ UNCHANGED <<disk, work>>
        /\ \/ promised' = promised
           \/ work[t].res = 0 /\ promised' = promised \cup {work[t].name}
    BY <1>7 DEF Deliver
  <2>. QED  BY <2>1 DEF TypesInv, DiskTypes, WorkTypes
<1>8. ASSUME NEW t \in Threads, Leave(t)
      PROVE  TypesInv'
  <2>1. UNCHANGED <<disk, promised>> /\ work' = [work EXCEPT ![t] = Idle]
    BY <1>8 DEF Leave, diskVars
  <2>2. WorkTypes'
    <3>1. Idle \in AnyWorks /\ Idle.at # "grow" /\ Idle.res # 0
      BY IdleTypes
    <3>. QED  BY <2>1, <3>1, WorkReplaced DEF TypesInv
  <2>. QED  BY <2>1, <2>2 DEF TypesInv, DiskTypes
<1>9. CASE UNCHANGED clientVars
  BY <1>9 DEF clientVars, TypesInv, DiskTypes, WorkTypes
<1>. QED  BY <1>1, <1>2, <1>3, <1>4, <1>5, <1>6, <1>7, <1>8, <1>9, CreationTypes DEF ClientNext

(***************************************************************************)
(* The type invariant of the clients and the module: the disk keeps its    *)
(* shape, the root's block is one that was taken from the bitmap, and dead *)
(* threads hold the semaphore, also when interrupted waits have let        *)
(* several threads in at once.                                             *)
(***************************************************************************)
THEOREM ClientTypesCorrect == ClientSpec => []ClientTypeOK
<1>1. ClientInit => TypesInv
  BY IdleTypes DEF ClientInit, TypesInv, DiskTypes, WorkTypes
<1>2. TypesInv /\ [ClientNext]_clientVars => TypesInv'
  BY TypesInvKept
<1>3. ClientInv /\ TypesInv => ClientTypeOK
  <2>1. SUFFICES ASSUME ClientInv, TypesInv PROVE ClientTypeOK
    OBVIOUS
  <2>2. dead \subseteq Inside
    BY <2>1 DEF ClientInv, Ways, Inside
  <2>. QED  BY <2>1, <2>2 DEF ClientInv, IInv, ClientTypes, TypesInv, DiskTypes, Disks, Descriptors,
                              RetVals, ClientTypeOK
<1>. QED  BY <1>1, <1>2, <1>3, ClientsInductive, PTL DEF ClientSpec
-----------------------------------------------------------------------------
(***************************************************************************)
(* What a thread is told.  A field that was written belongs to a call that *)
(* is on its way out, and says what the call found; while no wait was      *)
(* interrupted nothing that the call found can change before its up.       *)
(***************************************************************************)
Written(t) ==
  /\ ret_val[t] # "garbage" =>
       /\ pc[t] = "up" /\ cmd[t] # "RD_INIT"
       /\ ret_val[t] = IF work[t].res = 0 THEN "0" ELSE "-1"
  /\ pc[t] \in {"copy_in", "copy_out"} => cmd[t] # "RD_INIT"

Found(t) ==
  /\ pc[t] = "copy_out" \/ ret_val[t] # "garbage" =>
       IF work[t].name \in Names
       THEN RAMDISK /\ (work[t].res # 0 => CannotMake(disk, work[t].name))
       ELSE work[t].res # 0
  /\ pc[t] = "up" /\ cmd[t] = "RD_INIT" => RAMDISK

AnswersInv ==
  /\ \A t \in Threads : Written(t)
  /\ interrupted = 0 => \A t \in Threads : Found(t)

LibCalls(t) == \E name \in Labels : LibCall(t, name)

ThreadStep(t) ==
  \/ LibInit(t)
  \/ LibCalls(t)
  \/ Exit(t)
  \/ Arrive(t)
  \/ CallInit(t) \/ CallClose(t) \/ CallNull(t) \/ Creation(t)
  \/ Deliver(t)
  \/ Leave(t)

Known == ClientInv /\ CreationInv /\ TypesInv /\ AnswersInv

LEMMA StepsOfThreads ==
  ClientNext <=> Load \/ Unload \/ \E t \in Threads : ThreadStep(t)
BY DEF ClientNext, ThreadStep, LibCalls, Labels

LEMMA CallsBegin ==
  ASSUME NEW t \in Threads, LibInit(t) \/ LibCalls(t) \/ Exit(t)
  PROVE  /\ pc[t] = "user"
         /\ UNCHANGED vars \/ Enter(t, "RD_INIT") \/ Enter(t, "RD_CALL")
         /\ UNCHANGED <<loaded, RAMDISK, disk, ret_val>>
<1>1. UNCHANGED <<loaded, RAMDISK, disk, ret_val>>
  BY DEF LibInit, LibCalls, LibCall, Exit, diskVars
<1>2. pc[t] = "user"
  BY DEF LibInit, LibCalls, LibCall, Exit, AtHome
<1>3. UNCHANGED vars \/ Enter(t, "RD_INIT") \/ Enter(t, "RD_CALL")
  BY DEF LibInit, LibCalls, LibCall, Exit
<1>. QED  BY <1>1, <1>2, <1>3

(* A step of one thread leaves what belongs to another alone. *)
LEMMA OthersStay ==
  ASSUME ClientInv, TypesInv, NEW s \in Threads, NEW t \in Threads \ {s}, ThreadStep(s)
  PROVE  /\ pc'[t] = pc[t] /\ cmd'[t] = cmd[t] /\ ret_val'[t] = ret_val[t]
         /\ work'[t] = work[t] /\ answer'[t] = answer[t]
<1>1. /\ pc \in [Threads -> Stages] /\ cmd \in [Threads -> Commands]
      /\ work \in [Threads -> AnyWorks]
      /\ ret_val \in [Threads -> RetVals] /\ answer \in [Threads -> RetVals \cup {"none"}]
  BY DEF ClientInv, IInv, TypeOK, ClientTypes, TypesInv, WorkTypes
<1>. USE DEF Goto, Return
<1>2. CASE LibInit(s)
  BY <1>1, <1>2 DEF LibInit, Enter, vars
<1>3. CASE LibCalls(s)
  <2>1. PICK name \in Labels : LibCall(s, name)
    BY <1>3 DEF LibCalls
  <2>2. /\ UNCHANGED vars \/ Enter(s, "RD_CALL")
        /\ work' = work \/ work' = [work EXCEPT ![s] = Started(name)]
        /\ \E a : answer' = [answer EXCEPT ![s] = a]
        /\ ret_val' = ret_val
    BY <2>1 DEF LibCall
  <2>. QED  BY <1>1, <2>2 DEF Enter, vars
<1>4. CASE Exit(s)
  BY <1>1, <1>4 DEF Exit, vars
<1>5. CASE Arrive(s)
  BY <1>1, <1>5 DEF Arrive, Down, Interrupt, CopyIn, Rest
<1>6. CASE CallInit(s) \/ CallNull(s)
  BY <1>1, <1>6 DEF CallInit, CallNull, Die, CallDisk, Rest, vars
<1>7. CASE CallClose(s)
  BY <1>1, <1>7 DEF CallClose, Finish, CallDisk
<1>8. CASE Creation(s)
  <2>1. /\ CallDisk(s) \/ UNCHANGED vars
        /\ UNCHANGED <<ret_val, answer>>
    BY <1>8, CreationStep
  <2>2. \E w : work' = [work EXCEPT ![s] = w]
    BY <1>8 DEF Creation, Find, Scan, Mark, Count, Room, Attach, Place, Fill, Grow, Go, Finish
  <2>. QED  BY <1>1, <2>1, <2>2 DEF CallDisk, vars
<1>9. CASE Deliver(s)
  BY <1>1, <1>9 DEF Deliver, CopyOut, Rest
<1>10. CASE Leave(s)
  BY <1>1, <1>10 DEF Leave, Up
<1>. QED  BY <1>2, <1>3, <1>4, <1>5, <1>6, <1>7, <1>8, <1>9, <1>10 DEF ThreadStep

(* The disk of a thread inside waits for it. *)
LEMMA DiskStays ==
  ASSUME ClientInv, interrupted = 0, NEW t \in Inside, NEW s \in Threads \ {t}, ThreadStep(s)
  PROVE  UNCHANGED <<RAMDISK, disk>>
<1>1. pc[s] \in {"user", "down"}
  BY AloneInside
<1>2. ~ (CallInit(s) \/ CallClose(s) \/ CallNull(s) \/ Creation(s) \/ Deliver(s) \/ Leave(s))
  BY <1>1, CreationStep DEF CallInit, CallClose, CallNull, Deliver, CopyOut, Leave, Up
<1>3. CASE Arrive(s)
  BY <1>3 DEF Arrive, diskVars
<1>4. CASE LibInit(s) \/ LibCalls(s) \/ Exit(s)
  BY <1>4, CallsBegin
<1>. QED  BY <1>2, <1>3, <1>4 DEF ThreadStep

(* A search for an inode fails when the counter says that there is none.   *)
LEMMA NoInodeLeft ==
  ASSUME NEW d \in Disks, d.free_inodes = INODES - Cardinality(d.taken), Inums \subseteq d.taken
  PROVE  d.free_inodes = 0
<1>1. d.taken = 0 .. INODES - 1
  BY DEF Disks, Inums
<1>2. Cardinality(0 .. INODES - 1) = INODES
  BY ClientAssumption, FS_Interval
<1>. QED  BY <1>1, <1>2, ClientAssumption

(***************************************************************************)
(* A creation that gives up could not have gone on.                        *)
(***************************************************************************)
LEMMA GivesUpRightly ==
  ASSUME ClientInv, CreationInv, interrupted = 0, NEW t \in Threads, Creation(t),
         pc'[t] # "call", work'[t].res # 0
  PROVE  CannotMake(disk', work[t].name)
<1> DEFINE w == work[t]
<1>0. work \in [Threads -> Works] /\ pc \in [Threads -> Stages]
  <2>1. \E at : Creating(t, at)
    BY DEF Creation, Find, Scan, Mark, Count, Room, Place, Fill, Grow
  <2>. QED  BY <2>1, Midway
<1>1. ASSUME NEW v, Go(t, v) PROVE FALSE
  <2>1. pc[t] = "call"
    BY CreationStep
  <2>. QED  BY <1>1, <2>1 DEF Go, vars
<1>2. CASE Find(t)
  BY <1>1, <1>2 DEF Find, CannotMake
<1>3. CASE Scan(t)
  <2>1. Creating(t, "scan") /\ disk' = disk
    BY <1>3 DEF Scan
  <2>2. disk.free_inodes = 0 \/ Inums \subseteq disk.taken
    BY <1>1, <1>3 DEF Scan
  <2>3. DiskFor(disk, promised, w) /\ w.at = "scan"
    BY <2>1, Midway
  <2>4. disk \in Disks /\ disk.free_inodes = INODES - Cardinality(disk.taken)
    <3>1. disk \in Disks /\ disk.free_inodes = INODES - Cardinality(disk.taken) + 0
      BY <2>3 DEF DiskFor, Sound, Counted
    <3>. QED  BY <3>1, DiskFinite, ClientAssumption
  <2>. QED  BY <2>1, <2>2, <2>4, NoInodeLeft DEF CannotMake
<1>4. CASE Room(t)
  <2>1. Creating(t, "room")
    BY <1>4 DEF Room
  <2>2. w.block = NoBlock /\ disk' = disk
    BY <1>1, <1>4 DEF Room, Attach
  <2>3. DiskFor(disk, promised, w) /\ w.at = "room"
    BY <2>1, Midway
  <2>. QED  BY <2>2, <2>3 DEF DiskFor, UpToDate, CannotMake
<1>5. CASE Grow(t)
  BY <1>0, <1>5 DEF Grow, Finish, Finished
<1>. QED  BY <1>1, <1>2, <1>3, <1>4, <1>5 DEF Creation, Mark, Count, Place, Fill

(* What a thread's own step does to the field and to what it is about *)
LEMMA OwnStep ==
  ASSUME Known, NEW t \in Threads, ThreadStep(t)
  PROVE  /\ Written(t)'
         /\ interrupted = 0 => Found(t)'
<1>1. /\ pc \in [Threads -> Stages] /\ cmd \in [Threads -> Commands]
      /\ work \in [Threads -> AnyWorks] /\ ret_val \in [Threads -> RetVals]
      /\ Written(t) /\ (interrupted = 0 => Found(t))
  BY DEF Known, ClientInv, IInv, TypeOK, ClientTypes, TypesInv, WorkTypes, AnswersInv
<1>2. CASE LibInit(t) \/ LibCalls(t) \/ Exit(t)
  <2>1. /\ pc[t] = "user" /\ ret_val' = ret_val
        /\ UNCHANGED vars \/ Enter(t, "RD_INIT") \/ Enter(t, "RD_CALL")
    BY <1>2, CallsBegin
  <2>2. pc'[t] \in {"user", "down"}
    BY <1>1, <2>1 DEF Enter, Goto, vars
  <2>3. ret_val'[t] = "garbage"
    BY <1>1, <2>1 DEF Written
  <2>. QED  BY <2>2, <2>3 DEF Written, Found
<1>3. CASE Arrive(t)
  <2>1. /\ pc[t] \in {"down", "copy_in"} /\ ret_val' = ret_val /\ cmd' = cmd
        /\ \/ pc'[t] = AfterDown(t)
           \/ pc[t] = "copy_in" /\ pc'[t] \in {"call", "up"}
    BY <1>1, <1>3 DEF Arrive, Down, Interrupt, CopyIn, Goto
  <2>2. ret_val'[t] = "garbage" /\ (pc[t] = "copy_in" => cmd[t] # "RD_INIT")
    BY <1>1, <2>1 DEF Written
  <2>3. /\ pc'[t] # "copy_out"
        /\ pc'[t] \in {"copy_in", "up"} => cmd'[t] # "RD_INIT"
    BY <2>1, <2>2 DEF AfterDown
  <2>. QED  BY <2>2, <2>3 DEF Written, Found
<1>4. CASE Die(t) /\ pc[t] = "call"
  <2>1. pc'[t] = "call" /\ ret_val'[t] = "garbage"
    BY <1>1, <1>4 DEF Die, vars, Written
  <2>. QED  BY <2>1 DEF Written, Found
<1>5. CASE CallInit(t) /\ ~Die(t)
  <2>1. pc[t] = "call" /\ ret_val' = ret_val /\ pc'[t] = "up" /\ RAMDISK'
    BY <1>1, <1>5 DEF CallInit, CallDisk, Goto
  <2>2. ret_val'[t] = "garbage"
    BY <1>1, <2>1 DEF Written
  <2>. QED  BY <2>1, <2>2 DEF Written, Found
<1>6. CASE CallClose(t)
  <2>1. /\ pc[t] = "call" /\ cmd'[t] = "RD_CALL" /\ ret_val' = ret_val
        /\ pc'[t] = "copy_out"
        /\ work[t].name \notin Names /\ work'[t] = Finished(work[t].name, -1)
    BY <1>1, <1>6 DEF CallClose, Finish, CallDisk, Goto
  <2>2. work'[t].name = work[t].name /\ work'[t].res = -1
    BY <2>1 DEF Finished, Idle
  <2>3. ret_val'[t] = "garbage"
    BY <1>1, <2>1 DEF Written
  <2>. QED  BY <2>1, <2>2, <2>3 DEF Written, Found
<1>7. CASE Creation(t)
  <2>1. /\ pc[t] = "call" /\ ret_val' = ret_val /\ RAMDISK' = RAMDISK
        /\ CallDisk(t) \/ UNCHANGED vars
    BY <1>7, CreationStep
  <2>2. RAMDISK /\ cmd[t] = "RD_CALL" /\ work[t].name \in Names
    BY <1>7 DEF Creation, Find, Scan, Mark, Count, Room, Place, Fill, Grow, Creating
  <2>3. ret_val'[t] = "garbage"
    BY <1>1, <2>1 DEF Written
  <2>4. cmd'[t] = "RD_CALL" /\ pc'[t] \in {"call", "copy_out"}
    BY <1>1, <2>1, <2>2 DEF CallDisk, Goto, vars
  <2>5. CASE pc'[t] = "call"
    BY <2>3, <2>5 DEF Written, Found
  <2>6. CASE pc'[t] = "copy_out"
    <3>1. PICK res \in {0, -1} : Finish(t, res)
      <4>1. ASSUME NEW v, Go(t, v) PROVE FALSE
        BY <2>1, <2>6, <4>1 DEF Go, vars
      <4>. QED  BY <1>7, <4>1 DEF Creation, Find, Scan, Mark, Count, Room, Attach, Place, Fill, Grow
    <3>2. work'[t].name = work[t].name
      BY <1>1, <3>1 DEF Finish, Finished, Idle
    <3>3. interrupted = 0 /\ work'[t].res # 0 => CannotMake(disk', work[t].name)
      BY <1>7, <2>6, GivesUpRightly DEF Known
    <3>. QED  BY <2>1, <2>2, <2>3, <2>4, <2>6, <3>2, <3>3 DEF Written, Found
  <2>. QED  BY <2>4, <2>5, <2>6
<1>8. CASE Deliver(t)
  <2>1. /\ pc[t] = "copy_out" /\ pc'[t] = "up"
        /\ UNCHANGED <<cmd, work, RAMDISK, disk>>
        /\ \/ ret_val'[t] = IF work[t].res = 0 THEN "0" ELSE "-1"
           \/ ret_val'[t] = ret_val[t]
    BY <1>1, <1>8 DEF Deliver, CopyOut, Goto
  <2>2. ret_val[t] = "garbage" /\ cmd[t] # "RD_INIT"
    BY <1>1, <2>1 DEF Written
  <2>3. Written(t)'
    BY <2>1, <2>2 DEF Written
  <2>4. interrupted = 0 => Found(t)'
    BY <1>1, <2>1, <2>2 DEF Found, CannotMake, Listed, EntriesIn
  <2>. QED  BY <2>3, <2>4
<1>9. CASE Leave(t)
  <2>1. pc'[t] = "user" /\ ret_val'[t] = "garbage"
    BY <1>1, <1>9 DEF Leave, Up, Goto
  <2>. QED  BY <2>1 DEF Written, Found
<1>. QED  BY <1>2, <1>3, <1>4, <1>5, <1>6, <1>7, <1>8, <1>9
     DEF ThreadStep, CallInit, CallNull

(* Every step keeps what the answers say true. *)
LEMMA AnswersInvKept ==
  ASSUME Known, [ClientNext]_clientVars
  PROVE  AnswersInv'
<1>0. /\ interrupted \in Nat /\ pc \in [Threads -> Stages] /\ AnswersInv
      /\ \A t \in Threads : ret_val[t] # "garbage" => pc[t] = "up"
  BY DEF Known, ClientInv, IInv, TypeOK, AnswersInv, Written
<1>1. CASE Load
  <2>1. /\ \A t \in Threads : pc'[t] = "user"
        /\ ret_val' = ret_val /\ \A t \in Threads : pc[t] # "up"
    BY <1>0, <1>1 DEF Load, Known, ClientInv, Ways
  <2>. QED  BY <1>0, <2>1 DEF AnswersInv, Written, Found
<1>2. CASE Unload
  <2>1. /\ UNCHANGED <<pc, cmd, interrupted, RAMDISK, ret_val, work>>
        /\ \A t \in Threads : pc[t] \in {"user", "call"}
    BY <1>2 DEF Unload, vars, Known, ClientInv, Ways
  <2>. QED  BY <1>0, <2>1 DEF AnswersInv, Written, Found
<1>3. ASSUME NEW s \in Threads, ThreadStep(s)
      PROVE  AnswersInv'
  <2>1. interrupted' = 0 => interrupted = 0
    <3>1. CASE ~Load
      <4>1. [Next]_vars
        BY <3>1, LockSteps DEF Known
      <4>. QED
        BY <1>0, <4>1 DEF Next, Enter, Down, Interrupt, Handle, CopyIn, CallDisk, CopyOut, Up, vars
    <3>2. loaded' = loaded
      <4>1. CASE Creation(s)
        BY <4>1, CreationStep
      <4>2. CASE LibInit(s) \/ LibCalls(s) \/ Exit(s)
        BY <4>2, CallsBegin
      <4>3. CASE Arrive(s) \/ Deliver(s) \/ Leave(s)
        BY <4>3 DEF Arrive, Rest, Deliver, Leave
      <4>4. CASE CallInit(s) \/ CallClose(s) \/ CallNull(s)
        BY <4>4 DEF CallInit, CallClose, CallNull, Die, Rest, Finish
      <4>. QED  BY <1>3, <4>1, <4>2, <4>3, <4>4 DEF ThreadStep
    <3>3. ~Load
      BY <3>2 DEF Load
    <3>. QED  BY <3>1, <3>3
  <2>2. ASSUME NEW t \in Threads \ {s}
        PROVE  Written(t)' /\ (interrupted = 0 => Found(t)')
    <3>1. /\ pc'[t] = pc[t] /\ cmd'[t] = cmd[t] /\ ret_val'[t] = ret_val[t]
          /\ work'[t] = work[t]
      BY <1>3, OthersStay DEF Known
    <3>2. Written(t) /\ (interrupted = 0 => Found(t))
      BY <1>0 DEF AnswersInv
    <3>3. Written(t)'
      BY <3>1, <3>2 DEF Written
    <3>4. CASE interrupted = 0 /\ pc[t] \in {"copy_out", "up"}
      <4>1. t \in Inside
        BY <3>4 DEF Inside
      <4>2. UNCHANGED <<RAMDISK, disk>>
        BY <1>3, <3>4, <4>1, DiskStays DEF Known
      <4>. QED  BY <3>1, <3>2, <3>3, <3>4, <4>2 DEF Found, CannotMake, Listed, EntriesIn
    <3>5. CASE pc[t] \notin {"copy_out", "up"}
      BY <1>0, <3>1, <3>3, <3>5 DEF Found
    <3>. QED  BY <3>3, <3>4, <3>5
  <2>3. Written(s)' /\ (interrupted = 0 => Found(s)')
    BY <1>3, OwnStep
  <2>. QED  BY <2>1, <2>2, <2>3 DEF AnswersInv
<1>4. CASE UNCHANGED clientVars
  BY <1>0, <1>4 DEF clientVars, AnswersInv, Written, Found, CannotMake, Listed, EntriesIn
<1>. QED  BY <1>1, <1>2, <1>3, <1>4, StepsOfThreads

(* A thread about to leave with a 0 of rd_creat has its name on the disk. *)
LEMMA CreatedIsListed ==
  ASSUME Known, interrupted = 0, RAMDISK, NEW t \in Threads, pc[t] = "up", work[t].res = 0
  PROVE  work[t].name \in Listed(disk)
<1>1. t \in Inside
  BY DEF Inside
<1>2. DiskFor(disk, promised, work[t]) /\ InPlace(work[t], pc[t], cmd[t])
  BY <1>1 DEF Known, CreationInv
<1>3. work[t].at = "find" /\ work[t].name \in NamesOf(disk)
  BY <1>2 DEF InPlace, DiskFor, UpToDate
<1>. QED  BY <1>2, <1>3, SearchSeesAll DEF DiskFor

(* Only its own steps tell a thread something. *)
LEMMA ToldTruly ==
  ASSUME Known, interrupted = 0, NEW t \in Threads, ThreadStep(t)
  PROVE  /\ Told(t, "0") =>
              IF loaded THEN RAMDISK /\ (cmd[t] = "RD_INIT" \/ work[t].name \in Listed(disk))
              ELSE ioctl_fd'[t] = Failed
         /\ Told(t, "-1") /\ work[t].name \in Names =>
              RAMDISK /\ CannotMake(disk, work[t].name)
<1>1. /\ ioctl_fd \in [Threads -> Descriptors]
      /\ answer \in [Threads -> RetVals \cup {"none"}]
  BY DEF Known, ClientInv, ClientTypes
<1>2. CASE LibInit(t)
  <2>1. \/ OpenProc = Failed /\ answer'[t] = "0"
        \/ OpenProc # Failed /\ answer'[t] = "none"
    BY <1>1, <1>2 DEF LibInit, Return
  <2>2. ioctl_fd'[t] = OpenProc /\ (OpenProc = Failed => ~loaded)
    BY <1>1, <1>2, DistinctDescriptors DEF LibInit, OpenProc
  <2>. QED  BY <2>1, <2>2 DEF Told
<1>3. CASE Leave(t)
  <2>1. pc[t] = "up" /\ answer'[t] = IF cmd[t] = "RD_INIT" THEN "0" ELSE ret_val[t]
    BY <1>1, <1>3 DEF Leave, Up, Return
  <2>2. loaded
    BY <2>1 DEF Known, ClientInv, Ways
  <2>3. Written(t) /\ Found(t)
    BY DEF Known, AnswersInv
  <2>4. CASE cmd[t] = "RD_INIT"
    BY <2>1, <2>2, <2>3, <2>4 DEF Told, Found
  <2>5. CASE cmd[t] # "RD_INIT"
    <3>1. answer'[t] = ret_val[t]
      BY <2>1, <2>5
    <3>2. CASE ret_val[t] = "0"
      <4>1. work[t].res = 0 /\ RAMDISK
        BY <2>3, <3>2 DEF Written, Found
      <4>2. work[t].name \in Listed(disk)
        BY <2>1, <4>1, CreatedIsListed
      <4>. QED  BY <2>2, <3>1, <3>2, <4>1, <4>2 DEF Told
    <3>3. CASE ret_val[t] = "-1"
      <4>1. work[t].res # 0
        BY <2>3, <3>3 DEF Written
      <4>. QED  BY <2>3, <3>1, <3>3, <4>1 DEF Told, Found
    <3>. QED  BY <3>1, <3>2, <3>3 DEF Told
  <2>. QED  BY <2>4, <2>5
<1>4. CASE LibCalls(t)
  <2>1. PICK name \in Labels : LibCall(t, name)
    BY <1>4 DEF LibCalls
  <2>2. answer' = [answer EXCEPT ![t] = "garbage"] \/ answer' = [answer EXCEPT ![t] = "none"]
    BY <2>1 DEF LibCall, Return
  <2>3. answer'[t] \in {"garbage", "none"}
    BY <1>1, <2>2
  <2>. QED  BY <2>3 DEF Told
<1>5. CASE Exit(t)
  BY <1>1, <1>5 DEF Exit, Return, Told
<1>6. CASE Arrive(t) \/ CallInit(t) \/ CallClose(t) \/ CallNull(t) \/ Creation(t) \/ Deliver(t)
  <2>1. answer' = answer
    BY <1>6, CreationStep DEF Arrive, CallInit, CallClose, CallNull, Die, Finish, Deliver, Rest
  <2>. QED  BY <2>1 DEF Told
<1>. QED  BY <1>2, <1>3, <1>4, <1>5, <1>6 DEF ThreadStep

(***************************************************************************)
(* Whatever fails on the way of a call, between its first step and its up, *)
(* a caller is told what is true of the disk at the moment it is told, for *)
(* any number of threads and any size of the disk.                         *)
(***************************************************************************)
THEOREM AnswersAreTrue == ClientSpec => AnswersTrue
<1>1. ClientInit => TypesInv /\ AnswersInv
  <2>1. ClientInit => TypesInv
    BY IdleTypes DEF ClientInit, TypesInv, DiskTypes, WorkTypes
  <2>2. ClientInit => AnswersInv
    BY DEF ClientInit, Init, AnswersInv, Written, Found
  <2>. QED  BY <2>1, <2>2
<1>2. ClientInv /\ CreationInv /\ TypesInv /\ AnswersInv /\ [ClientNext]_clientVars
      => TypesInv' /\ AnswersInv'
  BY TypesInvKept, AnswersInvKept DEF Known
<1> DEFINE Truly(t) == interrupted = 0 =>
       /\ Told(t, "0") =>
            IF loaded THEN RAMDISK /\ (cmd[t] = "RD_INIT" \/ work[t].name \in Listed(disk))
            ELSE ioctl_fd'[t] = Failed
       /\ Told(t, "-1") /\ work[t].name \in Names =>
            RAMDISK /\ CannotMake(disk, work[t].name)
<1>3. ASSUME Known, ClientNext, NEW t \in Threads PROVE Truly(t)
  <2>1. CASE Load \/ Unload
    BY <2>1 DEF Load, Unload, Told
  <2>2. CASE ThreadStep(t)
    BY <1>3, <2>2, ToldTruly
  <2>3. ASSUME NEW s \in Threads \ {t}, ThreadStep(s) PROVE answer'[t] = answer[t]
    BY <1>3, <2>3, OthersStay DEF Known
  <2>4. CASE answer'[t] = answer[t]
    BY <2>4 DEF Told
  <2>. QED  BY <1>3, <2>1, <2>2, <2>3, <2>4, StepsOfThreads
<1>4. ClientInv /\ CreationInv /\ TypesInv /\ AnswersInv /\ [ClientNext]_clientVars
      => [\A t \in Threads : Truly(t)]_clientVars
  BY <1>3 DEF Known
<1>. QED  BY <1>1, <1>2, <1>4, CreationInductive, PTL DEF ClientSpec, AnswersTrue

=============================================================================

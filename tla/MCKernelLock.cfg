SPECIFICATION Spec
CONSTANTS
  Threads = {t1, t2, t3}
  Interruptible = {t1, t2}
  MaxInterrupts = 2
INVARIANTS
  TypeOK
  MutualExclusion
  EveryInterruptLetsOneMoreIn
PROPERTIES
  EveryThreadLeaves
  SomeoneGetsIn

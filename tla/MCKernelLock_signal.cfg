\* One interrupted wait, and two threads are inside.
SPECIFICATION Spec
CONSTANTS
  Threads = {t1, t2}
  Interruptible = {t1}
  MaxInterrupts = 1
INVARIANT OneInside

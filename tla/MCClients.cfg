SPECIFICATION ClientSpec
\* Once a thread has died inside, the others may wait for ever.
CHECK_DEADLOCK FALSE
CONSTANTS
  Threads = {t1, t2}
  Interruptible = {t1, t2}
  MaxInterrupts = 1
  Names = {a, b}
  INODES = 3
  BLOCKS = 2
  SLOTS = 6
  Overlaps = FALSE
INVARIANTS
  ClientTypeOK
  CreationsExact
  DeadThreadShutsDisk
PROPERTIES
  CutOffUntilInit
  AnswersTrue
